------------------------- MODULE ModuleConfigProofs -------------------------
(***************************************************************************)
(* Theorems about ModuleConfig for any blocks, settings and orders: the    *)
(* array of click handlers is never overrun, the first block of a name has *)
(* all of its settings, and the bar is the one that was ordered.           *)
(***************************************************************************)
EXTENDS ModuleConfig, TLAPS, SequenceTheorems, FiniteSetTheorems

----------------------------------------------------------------------------
(* The inductive invariant *)

AnySetting == {"own", "handler", "callbacks", "extra"}
Made(n) == \E k \in DOMAIN modules : modules[k].name = n

Typed ==
    /\ file \in [Known -> SUBSET AnySetting] /\ config \in [Known -> SUBSET AnySetting]
    /\ disabled \subseteq Known
    /\ order \in Seq(Known \cup {Unknown}) \cup {NoOrder}
    /\ status \in {"parsed", "making", "done", "failed"}
    /\ todo \in Seq(Known) /\ modules \in Seq(Module) /\ callbacks \in Seq(Known)

(* What a name has lost it has lost to its first block, and that block has *)
(* registered its handler.                                                 *)
SettingsInv ==
    \A n \in Known :
       /\ config[n] = IF Made(n) THEN file[n] \ TakenOut(n) ELSE file[n]
       /\ Made(n) /\ "handler" \in file[n] <=> \E k \in DOMAIN callbacks : callbacks[k] = n

HandlersOnce == \A j, k \in DOMAIN callbacks : callbacks[j] = callbacks[k] => j = k

OneCustom ==
    \A j, k \in DOMAIN modules : modules[j].name = Custom /\ modules[k].name = Custom => j = k

(* The blocks made are those of the part of the order that is done, which  *)
(* todo follows.                                                           *)
DoneCnt == Len(Ordered) - Len(todo)
Places(place) ==
    /\ \A k \in DOMAIN modules :
          modules[k].name = Ordered[place[k]] /\ place[k] <= DoneCnt
    /\ \A j, k \in DOMAIN modules : j < k => place[j] < place[k]
    /\ \A p \in 1..DoneCnt :
          Ordered[p] \notin disabled <=> \E k \in DOMAIN modules : place[k] = p
ProgressInv ==
    /\ status = "parsed" => todo = <<>> /\ modules = <<>>
    /\ status = "done" => todo = <<>>
    /\ status \in {"making", "done"} =>
          /\ Len(todo) <= Len(Ordered)
          /\ \A t \in 1..Len(todo) : todo[t] = Ordered[DoneCnt + t]
          /\ \E place \in [DOMAIN modules -> DOMAIN Ordered] : Places(place)
    /\ Len(todo) + Len(modules) <= OrderBuffer

IInv ==
    Typed /\ SettingsInv /\ HandlersOnce /\ OneCustom /\ FirstAsConfigured /\ ProgressInv

----------------------------------------------------------------------------
(* Sequences *)

LEMMA EmptyOnes ==
    ASSUME NEW S
    PROVE  <<>> \in Seq(S) /\ Len(<<>>) = 0 /\ DOMAIN <<>> = {}
  BY EmptySeq

LEMMA SeqFacts ==
    ASSUME NEW S, NEW s \in Seq(S)
    PROVE  /\ Len(s) \in Nat /\ DOMAIN s = 1..Len(s)
           /\ \A i \in 1..Len(s) : s[i] \in S
  BY LenProperties, ElementOfSeq

LEMMA Appended ==
    ASSUME NEW S, NEW s \in Seq(S), NEW e \in S
    PROVE  /\ Append(s, e) \in Seq(S)
           /\ Len(Append(s, e)) = Len(s) + 1
           /\ DOMAIN Append(s, e) = DOMAIN s \cup {Len(s) + 1}
           /\ DOMAIN s = 1..Len(s) /\ Len(s) \in Nat
           /\ \A i \in 1..Len(s) : Append(s, e)[i] = s[i]
           /\ Append(s, e)[Len(s) + 1] = e
  <1>1. /\ Append(s, e) \in Seq(S) /\ Len(Append(s, e)) = Len(s) + 1
        /\ \A i \in 1..Len(s) : Append(s, e)[i] = s[i]
        /\ Append(s, e)[Len(s) + 1] = e
    BY AppendProperties
  <1>2. DOMAIN s = 1..Len(s) /\ Len(s) \in Nat /\ DOMAIN Append(s, e) = 1..(Len(s) + 1)
    BY <1>1, LenProperties
  <1> QED
    BY <1>1, <1>2

LEMMA Rest ==
    ASSUME NEW S, NEW s \in Seq(S), s # <<>>
    PROVE  /\ Tail(s) \in Seq(S) /\ Len(s) \in Nat \ {0} /\ Len(Tail(s)) = Len(s) - 1
           /\ Head(s) = s[1] /\ Head(s) \in S
           /\ \A i \in 1..(Len(s) - 1) : Tail(s)[i] = s[i + 1]
  BY HeadTailProperties, LenProperties, ElementOfSeq

(* The order that is worked on fits its buffer: the one of the file is cut *)
(* off, the default one is a part of the known names.                      *)
LEMMA OrderedFits ==
    ASSUME Typed
    PROVE  /\ Ordered \in Seq(Known \cup {Unknown})
           /\ Len(Ordered) \in Nat /\ DOMAIN Ordered = 1..Len(Ordered)
           /\ Len(Ordered) <= OrderBuffer
  <1>1. Cardinality(Known) \in Nat /\ OrderBuffer \in Nat
    BY ModuleConfigAssumption, FS_CardinalityType
  <1>2. CASE order = NoOrder
    <2>1. Ordered = Default
      BY <1>2 DEF Ordered
    <2>2. Default \in Seq(Known \cup {Unknown}) /\ Len(Default) \in Nat
      BY ModuleConfigAssumption, LenProperties
    <2> QED
      BY <1>1, <2>1, <2>2, ModuleConfigAssumption, LenProperties
  <1>3. CASE order # NoOrder
    <2>1. order \in Seq(Known \cup {Unknown}) /\ Len(order) \in Nat
      BY <1>3, LenProperties DEF Typed
    <2> DEFINE m == IF Len(order) < OrderBuffer THEN Len(order) ELSE OrderBuffer
    <2>2. m \in 0..Len(order) /\ m <= OrderBuffer
      BY <1>1, <2>1
    <2>3. Ordered = SubSeq(order, 1, m)
      BY <1>3 DEF Ordered
    <2> HIDE DEF m
    <2>4. \A k \in 1..m : order[k] \in Known \cup {Unknown}
      BY <2>1, <2>2, SeqFacts
    <2>5. SubSeq(order, 1, m) \in Seq(Known \cup {Unknown}) /\ Len(SubSeq(order, 1, m)) = m
      BY <2>1, <2>2, <2>4, SubSeqProperties
    <2> QED
      BY <2>2, <2>3, <2>5, LenProperties
  <1> QED
    BY <1>2, <1>3

----------------------------------------------------------------------------
(* The actions that make no block *)

LEMMA InitInvariant == Init => IInv
  <1> SUFFICES ASSUME Init  PROVE IInv
    OBVIOUS
  <1>1. /\ todo = <<>> /\ modules = <<>> /\ callbacks = <<>> /\ status = "parsed"
        /\ DOMAIN modules = {} /\ DOMAIN callbacks = {} /\ Len(todo) = 0 /\ Len(modules) = 0
        /\ config = file
    BY EmptyOnes DEF Init
  <1>2. Typed
    <2>1. file \in [Known -> SUBSET AnySetting]
      BY ModuleConfigAssumption DEF Init, AnySetting
    <2>2. order \in Seq(Known \cup {Unknown}) \cup {NoOrder}
      <3> SUFFICES ASSUME order # NoOrder  PROVE order \in Seq(Known \cup {Unknown})
        OBVIOUS
      <3>1. PICK n \in 0..MaxOrder : order \in [1..n -> Known \cup {Unknown}]
        BY DEF Init, Orders
      <3>2. n \in Nat
        BY <3>1, ModuleConfigAssumption
      <3> QED
        BY <3>1, <3>2, SeqDef
    <2> QED
      BY <1>1, <2>1, <2>2, EmptyOnes DEF Init, Typed
  <1>3. SettingsInv /\ HandlersOnce /\ OneCustom /\ FirstAsConfigured
    BY <1>1 DEF SettingsInv, HandlersOnce, OneCustom, FirstAsConfigured, Made
  <1>4. ProgressInv
    BY <1>1, ModuleConfigAssumption DEF ProgressInv
  <1> QED
    BY <1>2, <1>3, <1>4 DEF IInv

LEMMA SameOrder ==
    ASSUME UNCHANGED order  PROVE Ordered' = Ordered
  BY DEF Ordered

(* What the blocks made say does not change while none is made. *)
LEMMA SameModules ==
    ASSUME IInv, UNCHANGED <<file, config, disabled, order, modules, callbacks>>
    PROVE  SettingsInv' /\ HandlersOnce' /\ OneCustom' /\ FirstAsConfigured'
  <1> USE DEF IInv
  <1>1. SettingsInv'
    <2>1. \A n : Made(n)' = Made(n)
      BY DEF Made
    <2> QED
      BY <2>1 DEF SettingsInv
  <1>2. HandlersOnce' /\ OneCustom'
    BY DEF HandlersOnce, OneCustom
  <1>3. FirstAsConfigured'
    BY DEF FirstAsConfigured
  <1> QED
    BY <1>1, <1>2, <1>3

LEMMA ResolveStep == ASSUME IInv, ResolveOrder PROVE IInv'
  <1> USE DEF IInv
  <1>1. /\ status = "parsed" /\ status' = "making" /\ todo' = Ordered
        /\ Unknown \notin ToSet(Ordered)
        /\ UNCHANGED <<file, config, disabled, order, modules, callbacks>>
    BY DEF ResolveOrder, input
  <1>2. modules = <<>> /\ DOMAIN modules = {} /\ Len(modules) = 0
    BY <1>1, EmptyOnes DEF ProgressInv
  <1>3. /\ Len(Ordered) \in Nat /\ DOMAIN Ordered = 1..Len(Ordered)
        /\ Len(Ordered) <= OrderBuffer /\ Ordered' = Ordered
        /\ Ordered \in Seq(Known \cup {Unknown})
    BY <1>1, OrderedFits, SameOrder
  <1>4. Ordered \in Seq(Known)
    <2>1. \A i \in 1..Len(Ordered) : Ordered[i] \in Known
      BY <1>1, <1>3, SeqFacts DEF ToSet
    <2>2. Ordered \in [1..Len(Ordered) -> Known]
      BY <1>3, <2>1, LenProperties
    <2> QED
      BY <1>3, <2>2, SeqDef
  <1>5. Typed'
    BY <1>1, <1>4 DEF Typed
  <1>6. ProgressInv'
    <2>1. DoneCnt' = 0
      BY <1>1, <1>3 DEF DoneCnt
    <2>2. \A t \in 1..Len(todo') : todo'[t] = Ordered'[DoneCnt' + t]
      BY <1>1, <1>3, <2>1
    <2> DEFINE place == [k \in {} |-> 0]
    <2>3. place \in [DOMAIN modules' -> DOMAIN Ordered']
      BY <1>1, <1>2
    <2>4. Places(place)'
      BY <1>1, <1>2, <2>1 DEF Places
    <2>5. Len(todo') + Len(modules') <= OrderBuffer /\ Len(todo') <= Len(Ordered')
      BY <1>1, <1>2, <1>3
    <2> HIDE DEF place
    <2> QED
      BY <1>1, <2>2, <2>3, <2>4, <2>5 DEF ProgressInv
  <1> QED
    BY <1>1, <1>5, <1>6, SameModules

LEMMA EndStep ==
    ASSUME IInv, UnknownName \/ MakeFails \/ Done \/ UNCHANGED vars
    PROVE  IInv'
  <1> USE DEF IInv
  <1>1. UNCHANGED <<file, config, disabled, order, modules, callbacks, todo>>
    BY DEF UnknownName, MakeFails, Done, vars, input
  <1>2. \/ status' = "failed" \/ UNCHANGED status
        \/ status = "making" /\ status' = "done" /\ todo = <<>>
    BY DEF UnknownName, MakeFails, Done, vars
  <1>3. Typed'
    BY <1>1, <1>2 DEF Typed
  <1>4. ProgressInv'
    <2>1. Ordered' = Ordered /\ DoneCnt' = DoneCnt
      BY <1>1, SameOrder DEF DoneCnt
    <2>2. ASSUME NEW place, Places(place)  PROVE Places(place)'
      BY <1>1, <2>1, <2>2 DEF Places
    <2>3. CASE status' = "failed"
      BY <1>1, <2>3 DEF ProgressInv
    <2>4. CASE UNCHANGED status
      BY <1>1, <2>1, <2>2, <2>4 DEF ProgressInv
    <2>5. CASE status = "making" /\ status' = "done" /\ todo = <<>>
      BY <1>1, <2>1, <2>2, <2>5 DEF ProgressInv
    <2> QED
      BY <1>2, <2>3, <2>4, <2>5
  <1> QED
    BY <1>1, <1>3, <1>4, SameModules

(* The next of the order: it is the head of what is to do. *)
LEMMA NextOrdered ==
    ASSUME IInv, status = "making", todo # <<>>, todo' = Tail(todo), UNCHANGED order
    PROVE  /\ DoneCnt \in Nat /\ DoneCnt' = DoneCnt + 1 /\ DoneCnt + 1 \in DOMAIN Ordered
           /\ Ordered[DoneCnt + 1] = Head(todo) /\ Head(todo) \in Known
           /\ Ordered' = Ordered /\ Len(Ordered) \in Nat /\ DOMAIN Ordered = 1..Len(Ordered)
           /\ todo' \in Seq(Known) /\ Len(todo) \in Nat \ {0} /\ Len(todo') = Len(todo) - 1
           /\ Len(todo') <= Len(Ordered)
           /\ \A t \in 1..Len(todo') : todo'[t] = Ordered[DoneCnt' + t]
  <1>1. /\ Ordered' = Ordered /\ Len(Ordered) \in Nat /\ DOMAIN Ordered = 1..Len(Ordered)
    BY OrderedFits, SameOrder DEF IInv
  <1>2. /\ todo' \in Seq(Known) /\ Len(todo) \in Nat \ {0} /\ Len(todo') = Len(todo) - 1
        /\ Head(todo) = todo[1] /\ Head(todo) \in Known
        /\ \A i \in 1..(Len(todo) - 1) : todo'[i] = todo[i + 1]
    BY Rest DEF IInv, Typed
  <1>3. Len(todo) <= Len(Ordered) /\ \A t \in 1..Len(todo) : todo[t] = Ordered[DoneCnt + t]
    BY DEF IInv, ProgressInv
  <1>4. DoneCnt \in Nat /\ DoneCnt' = DoneCnt + 1 /\ DoneCnt + 1 \in DOMAIN Ordered
    BY <1>1, <1>2, <1>3 DEF DoneCnt
  <1>5. Ordered[DoneCnt + 1] = Head(todo)
    BY <1>2, <1>3
  <1>6. ASSUME NEW t \in 1..Len(todo')  PROVE todo'[t] = Ordered[DoneCnt' + t]
    <2>1. todo'[t] = todo[t + 1] /\ t + 1 \in 1..Len(todo)
      BY <1>2
    <2>2. todo[t + 1] = Ordered[DoneCnt + (t + 1)]
      BY <1>3, <2>1
    <2>3. DoneCnt + (t + 1) = DoneCnt' + t
      BY <1>2, <1>4
    <2> QED
      BY <2>1, <2>2, <2>3
  <1> QED
    BY <1>1, <1>2, <1>3, <1>4, <1>5, <1>6

LEMMA SkipStep == ASSUME IInv, SkipDisabled PROVE IInv'
  <1> USE DEF IInv
  <1>1. /\ status = "making" /\ todo # <<>> /\ Head(todo) \in disabled /\ todo' = Tail(todo)
        /\ UNCHANGED <<file, config, disabled, order, status, modules, callbacks>>
    BY DEF SkipDisabled, input
  <1>2. /\ DoneCnt \in Nat /\ DoneCnt' = DoneCnt + 1 /\ DoneCnt + 1 \in DOMAIN Ordered
        /\ Ordered[DoneCnt + 1] = Head(todo)
        /\ Ordered' = Ordered /\ Len(Ordered) \in Nat /\ DOMAIN Ordered = 1..Len(Ordered)
        /\ todo' \in Seq(Known) /\ Len(todo) \in Nat \ {0} /\ Len(todo') = Len(todo) - 1
        /\ Len(todo') <= Len(Ordered)
        /\ \A t \in 1..Len(todo') : todo'[t] = Ordered[DoneCnt' + t]
    BY <1>1, NextOrdered
  <1>3. Typed'
    BY <1>1, <1>2 DEF Typed
  <1>4. ProgressInv'
    <2>1. PICK place \in [DOMAIN modules -> DOMAIN Ordered] : Places(place)
      BY <1>1 DEF ProgressInv
    <2>2. \A k \in DOMAIN modules : place[k] <= DoneCnt /\ place[k] \in Nat
      BY <1>2, <2>1 DEF Places
    <2>3. \A k \in DOMAIN modules : place[k] <= DoneCnt'
      BY <1>2, <2>2
    <2>4. ASSUME NEW p \in 1..DoneCnt'
          PROVE  Ordered[p] \notin disabled <=> \E k \in DOMAIN modules : place[k] = p
      <3>1. CASE p \in 1..DoneCnt
        BY <2>1, <3>1 DEF Places
      <3>2. CASE p = DoneCnt + 1
        BY <1>1, <1>2, <2>2, <3>2
      <3> QED
        BY <1>2, <3>1, <3>2
    <2>5. Places(place)'
      BY <1>1, <1>2, <2>1, <2>3, <2>4 DEF Places
    <2>6. place \in [DOMAIN modules' -> DOMAIN Ordered']
      BY <1>1, <1>2, <2>1
    <2>7. Len(todo') + Len(modules') <= OrderBuffer
      BY <1>1, <1>2, SeqFacts, ModuleConfigAssumption DEF ProgressInv, Typed
    <2> QED
      BY <1>1, <1>2, <2>5, <2>6, <2>7 DEF ProgressInv
  <1> QED
    BY <1>1, <1>3, <1>4, SameModules

----------------------------------------------------------------------------
(* Making a block *)

LEMMA MakeStep == ASSUME IInv, MakeModule PROVE IInv'
  <1> USE DEF IInv
  <1> DEFINE n == Head(todo)
             L == Len(modules)
             new == [name |-> n, own |-> "own" \in config[n],
                     events |-> "handler" \in config[n], extra |-> config[n] \ TakenOut(n)]
  <1>1. /\ status = "making" /\ todo # <<>> /\ n \notin disabled /\ todo' = Tail(todo)
        /\ UNCHANGED <<file, disabled, order, status>>
        /\ n = Custom => "callbacks" \in config[n]
        /\ modules' = Append(modules, new)
        /\ callbacks' = IF "handler" \in config[n] THEN Append(callbacks, n) ELSE callbacks
        /\ config' = [config EXCEPT ![n] = @ \ TakenOut(n)]
    BY DEF MakeModule, Make, Registered, input
  <1>2. /\ DoneCnt \in Nat /\ DoneCnt' = DoneCnt + 1 /\ DoneCnt + 1 \in DOMAIN Ordered
        /\ Ordered[DoneCnt + 1] = n /\ n \in Known
        /\ Ordered' = Ordered /\ Len(Ordered) \in Nat /\ DOMAIN Ordered = 1..Len(Ordered)
        /\ todo' \in Seq(Known) /\ Len(todo) \in Nat \ {0} /\ Len(todo') = Len(todo) - 1
        /\ Len(todo') <= Len(Ordered)
        /\ \A t \in 1..Len(todo') : todo'[t] = Ordered[DoneCnt' + t]
    BY <1>1, NextOrdered
  <1>3. config[n] \subseteq AnySetting /\ config[n] = IF Made(n) THEN file[n] \ TakenOut(n) ELSE file[n]
    BY <1>2 DEF Typed, SettingsInv
  <1>4. {"own", "handler"} \subseteq TakenOut(n) /\ (n = Custom => "callbacks" \in TakenOut(n))
    BY DEF TakenOut
  <1>5. new \in Module
    BY <1>2, <1>3, <1>4 DEF Module, AnySetting
  <1>6. new.name = n /\ new.own = ("own" \in config[n]) /\ new.events = ("handler" \in config[n])
        /\ new.extra = config[n] \ TakenOut(n)
    OBVIOUS
  <1> HIDE DEF n, new
  <1>7. /\ modules' \in Seq(Module) /\ Len(modules') = L + 1 /\ L \in Nat
        /\ DOMAIN modules = 1..L /\ DOMAIN modules' = 1..L \cup {L + 1}
        /\ \A k \in 1..L : modules'[k] = modules[k]
        /\ modules'[L + 1] = new
    BY <1>1, <1>5, Appended DEF Typed
  <1>8. Typed'
    <2>1. config' \in [Known -> SUBSET AnySetting]
      BY <1>1, <1>2, <1>3 DEF Typed
    <2>2. callbacks' \in Seq(Known)
      BY <1>1, <1>2, Appended DEF Typed
    <2> QED
      BY <1>1, <1>2, <1>7, <2>1, <2>2 DEF Typed
  <1>9. \A x : Made(x)' <=> Made(x) \/ x = n
    BY <1>6, <1>7 DEF Made
  <1>10. ("handler" \in config[n]) <=> ~Made(n) /\ "handler" \in file[n]
    BY <1>3, <1>4
  <1>11. SettingsInv' /\ HandlersOnce'
    <2>1. /\ Len(callbacks) \in Nat /\ DOMAIN callbacks = 1..Len(callbacks)
          /\ callbacks \in Seq(Known)
      BY LenProperties DEF Typed
    <2>2. CASE "handler" \in config[n]
      <3>1. /\ DOMAIN callbacks' = DOMAIN callbacks \cup {Len(callbacks) + 1}
            /\ \A k \in DOMAIN callbacks : callbacks'[k] = callbacks[k]
            /\ callbacks'[Len(callbacks) + 1] = n
            /\ Len(callbacks) + 1 \notin DOMAIN callbacks
        BY <1>1, <1>2, <2>1, <2>2, Appended
      <3>2. \A k \in DOMAIN callbacks : callbacks[k] # n
        BY <1>2, <1>10, <2>2 DEF SettingsInv
      <3>3. HandlersOnce'
        BY <3>1, <3>2 DEF HandlersOnce
      <3>4. ASSUME NEW x \in Known
            PROVE  Made(x)' /\ "handler" \in file[x] <=> \E k \in DOMAIN callbacks' : callbacks'[k] = x
        <4>1. CASE x = n
          BY <1>9, <1>10, <2>2, <3>1, <4>1
        <4>2. CASE x # n
          <5>1. (\E k \in DOMAIN callbacks' : callbacks'[k] = x)
                   <=> \E k \in DOMAIN callbacks : callbacks[k] = x
            BY <3>1, <4>2
          <5> QED
            BY <1>9, <4>2, <5>1 DEF SettingsInv
        <4> QED
          BY <4>1, <4>2
      <3>5. ASSUME NEW x \in Known
            PROVE  config'[x] = IF Made(x)' THEN file[x] \ TakenOut(x) ELSE file[x]
        BY <1>1, <1>2, <1>3, <1>9 DEF SettingsInv, Typed
      <3> QED
        BY <1>1, <3>3, <3>4, <3>5 DEF SettingsInv
    <2>3. CASE "handler" \notin config[n]
      <3>1. callbacks' = callbacks
        BY <1>1, <2>3
      <3>2. ASSUME NEW x \in Known
            PROVE  Made(x)' /\ "handler" \in file[x] <=> Made(x) /\ "handler" \in file[x]
        BY <1>9, <1>10, <2>3
      <3>3. ASSUME NEW x \in Known
            PROVE  config'[x] = IF Made(x)' THEN file[x] \ TakenOut(x) ELSE file[x]
        BY <1>1, <1>2, <1>3, <1>9 DEF SettingsInv, Typed
      <3>4. HandlersOnce'
        BY <3>1 DEF HandlersOnce
      <3>5. ASSUME NEW x \in Known
            PROVE  Made(x)' /\ "handler" \in file[x] <=> \E k \in DOMAIN callbacks' : callbacks'[k] = x
        <4>1. Made(x) /\ "handler" \in file[x] <=> \E k \in DOMAIN callbacks : callbacks[k] = x
          BY DEF SettingsInv
        <4> QED
          BY <3>1, <3>2, <4>1
      <3>6. file' = file
        BY <1>1
      <3>7. SettingsInv'
        BY <3>3, <3>5, <3>6 DEF SettingsInv
      <3> QED
        BY <3>4, <3>7
    <2> QED
      BY <2>2, <2>3
  <1>12. OneCustom'
    <2>1. n = Custom => \A k \in 1..L : modules[k].name # Custom
      BY <1>1, <1>3, <1>4, <1>7 DEF Made
    <2> QED
      BY <1>6, <1>7, <2>1 DEF OneCustom
  <1>13. FirstAsConfigured'
    <2>1. ASSUME NEW k \in 1..L
          PROVE  /\ modules'[k] = modules[k]
                 /\ (\A j \in 1..(k - 1) : modules'[j].name # modules'[k].name)
                       <=> \A j \in 1..(k - 1) : modules[j].name # modules[k].name
      BY <1>7
    <2>2. (\A j \in 1..(L + 1 - 1) : modules'[j].name # new.name) <=> ~Made(n)
      BY <1>6, <1>7 DEF Made
    <2>3. /\ new.own = (~Made(n) /\ "own" \in file[n])
          /\ new.events = (~Made(n) /\ "handler" \in file[n])
          /\ new.extra = file[n] \ TakenOut(n)
      BY <1>3, <1>4, <1>6
    <2> QED
      BY <1>1, <1>6, <1>7, <2>1, <2>2, <2>3 DEF FirstAsConfigured
  <1>14. ProgressInv'
    <2>1. PICK place \in [DOMAIN modules -> DOMAIN Ordered] : Places(place)
      BY <1>1 DEF ProgressInv
    <2>2. PICK next \in [1..L \cup {L + 1} -> DOMAIN Ordered] :
             next[L + 1] = DoneCnt + 1 /\ \A k \in 1..L : next[k] = place[k]
      <3> DEFINE f == [k \in 1..L \cup {L + 1} |-> IF k = L + 1 THEN DoneCnt + 1 ELSE place[k]]
      <3>1. f \in [1..L \cup {L + 1} -> DOMAIN Ordered]
        BY <1>2, <1>7, <2>1
      <3>2. f[L + 1] = DoneCnt + 1 /\ \A k \in 1..L : f[k] = place[k]
        BY <1>7
      <3> HIDE DEF f
      <3> QED
        BY <3>1, <3>2
    <2>3. /\ next \in [DOMAIN modules' -> DOMAIN Ordered']
          /\ next[L + 1] = DoneCnt + 1 /\ \A k \in 1..L : next[k] = place[k]
      BY <1>2, <1>7, <2>2
    <2>4. \A k \in 1..L : place[k] \in Nat /\ place[k] <= DoneCnt
      <3>1. \A k \in 1..L : place[k] \in DOMAIN Ordered
        BY <1>7, <2>1
      <3>2. \A k \in 1..L : place[k] <= DoneCnt
        BY <1>7, <2>1 DEF Places
      <3> QED
        BY <1>2, <3>1, <3>2
    <2>5. ASSUME NEW k \in DOMAIN modules'
          PROVE  modules'[k].name = Ordered[next[k]] /\ next[k] <= DoneCnt'
      <3>1. CASE k = L + 1
        BY <1>2, <1>6, <1>7, <2>3, <3>1
      <3>2. CASE k \in 1..L
        <4>1. modules'[k].name = Ordered[next[k]]
          BY <1>7, <2>1, <2>3, <3>2 DEF Places
        <4>2. next[k] <= DoneCnt'
          BY <1>2, <2>3, <2>4, <3>2
        <4> QED
          BY <4>1, <4>2
      <3> QED
        BY <1>7, <3>1, <3>2
    <2>6. ASSUME NEW j \in DOMAIN modules', NEW k \in DOMAIN modules', j < k
          PROVE  next[j] < next[k]
      <3>1. j \in 1..L
        BY <1>7, <2>6
      <3>2. CASE k = L + 1
        BY <1>2, <2>3, <2>4, <3>1, <3>2
      <3>3. CASE k \in 1..L
        BY <1>7, <2>1, <2>3, <2>6, <3>1, <3>3 DEF Places
      <3> QED
        BY <1>7, <3>2, <3>3
    <2>7. ASSUME NEW p \in 1..DoneCnt'
          PROVE  Ordered[p] \notin disabled <=> \E k \in DOMAIN modules' : next[k] = p
      <3>1. CASE p = DoneCnt + 1
        BY <1>1, <1>2, <1>7, <2>3, <3>1
      <3>2. CASE p \in 1..DoneCnt
        <4>1. (\E k \in DOMAIN modules' : next[k] = p) <=> \E k \in 1..L : place[k] = p
          <5>1. p # DoneCnt + 1
            BY <1>2, <3>2
          <5> QED
            BY <1>7, <2>3, <5>1
        <4>2. Ordered[p] \notin disabled <=> \E k \in DOMAIN modules : place[k] = p
          BY <2>1, <3>2 DEF Places
        <4> QED
          BY <1>7, <4>1, <4>2
      <3> QED
        BY <1>2, <3>1, <3>2
    <2>8. Places(next)'
      BY <1>1, <1>2, <2>5, <2>6, <2>7 DEF Places
    <2>9. Len(todo') + Len(modules') <= OrderBuffer
      BY <1>2, <1>7, ModuleConfigAssumption DEF ProgressInv
    <2> QED
      BY <1>1, <1>2, <2>3, <2>8, <2>9 DEF ProgressInv
  <1> QED
    BY <1>8, <1>11, <1>12, <1>13, <1>14

LEMMA NextInvariant == ASSUME IInv, [Next]_vars PROVE IInv'
  <1>1. CASE Terminated
    BY <1>1, EndStep DEF Terminated
  <1> QED
    BY <1>1, ResolveStep, SkipStep, MakeStep, EndStep DEF Next

----------------------------------------------------------------------------
(* The theorems *)

(* The inductive invariant: what is left of the settings of a name follows *)
(* from whether it has a block, and the blocks made from the part of the   *)
(* order that is done (Base.cc, the loop of the constructor's caller and   *)
(* get_user_specified_property_str_impl2).                                 *)
THEOREM Invariant == Spec => []IInv
  <1>1. Init => IInv
    BY InitInvariant
  <1>2. IInv /\ [Next]_vars => IInv'
    BY NextInvariant
  <1> QED
    BY <1>1, <1>2, PTL DEF Spec

(* Types, and the order to be made with the blocks made never needs more   *)
(* than the buffer of the order.                                           *)
THEOREM TypeCorrect == Spec => []TypeOK
  <1>1. IInv => TypeOK
    BY DEF IInv, Typed, SettingsInv, ProgressInv, TypeOK
  <1> QED
    BY <1>1, Invariant, PTL

(* The array of click handlers, which is filled without a check, is never  *)
(* overrun: a name registers its handler once, with its first block.       *)
THEOREM HandlersNeverOverrun == Spec => []HandlersFit
  <1>1. IInv => HandlersFit
    <2> SUFFICES ASSUME IInv  PROVE HandlersFit
      OBVIOUS
    <2> DEFINE n == Len(callbacks)
    <2>1. /\ n \in Nat /\ DOMAIN callbacks = 1..n /\ callbacks \in [1..n -> Known]
      BY LenProperties DEF IInv, Typed
    <2>2. \A j, k \in 1..n : callbacks[j] = callbacks[k] => j = k
      BY <2>1 DEF IInv, HandlersOnce
    <2>3. IsInjective(callbacks)
      BY <2>1, <2>2 DEF IsInjective
    <2>4. Cardinality(1..n) = n /\ IsFiniteSet(1..n)
      <3>1. 1 \in Int /\ n \in Int
        BY <2>1
      <3> QED
        BY <2>1, <3>1, FS_Interval
    <2>5. callbacks \in Injection(1..n, Known)
      BY <2>1, <2>2 DEF Injection, IsInjective
    <2>6. Cardinality(1..n) <= Cardinality(Known)
      BY <2>5, FS_Injection, ModuleConfigAssumption
    <2>7. Cardinality(Known) \in Nat /\ CallbackCnt \in Nat /\ Cardinality(Known) <= CallbackCnt
      BY ModuleConfigAssumption, FS_CardinalityType
    <2> QED
      BY <2>1, <2>3, <2>4, <2>6, <2>7 DEF HandlersFit
  <1> QED
    BY <1>1, Invariant, PTL

(* The first block of a name is made with all the file says of it, however *)
(* many blocks were made before it; those after it with the rest.          *)
THEOREM SettingsUndisturbed == Spec => []FirstAsConfigured
  <1>1. IInv => FirstAsConfigured
    BY DEF IInv
  <1> QED
    BY <1>1, Invariant, PTL

(* A bar that starts has the blocks of the order that are not disabled, in *)
(* that order, and at most one custom block.                               *)
THEOREM StartsAsOrdered == Spec => []BarAsOrdered
  <1>1. IInv => BarAsOrdered
    <2> SUFFICES ASSUME IInv, status = "done"  PROVE BarAsOrdered
      BY DEF BarAsOrdered
    <2>1. /\ Len(Ordered) \in Nat /\ DOMAIN Ordered = 1..Len(Ordered)
      BY OrderedFits DEF IInv
    <2>2. DoneCnt = Len(Ordered)
      BY <2>1, EmptyOnes DEF IInv, ProgressInv, DoneCnt
    <2>3. PICK place \in [DOMAIN modules -> DOMAIN Ordered] : Places(place)
      BY DEF IInv, ProgressInv
    <2> QED
      BY <2>1, <2>2, <2>3 DEF IInv, OneCustom, Places, BarAsOrdered
  <1> QED
    BY <1>1, Invariant, PTL
=============================================================================
