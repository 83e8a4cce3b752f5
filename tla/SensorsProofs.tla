--------------------------- MODULE SensorsProofs ---------------------------
(***************************************************************************)
(* Theorems about Sensors for any number of features, any choice of those  *)
(* that are temperatures with a value, and any interval of the block.      *)
(***************************************************************************)
EXTENDS Sensors, TLAPS, WellFoundedInduction, FiniteSetTheorems

----------------------------------------------------------------------------
(* The iterator of a vector *)

LEMMA LeastIsMinimum ==
    ASSUME NEW S, S \subseteq Nat, S # {}
    PROVE  Least(S) \in S /\ \A q \in S : Least(S) <= q
  <1>1. PICK m \in S : \A k \in S : <<k, m>> \notin OpToRel(<, Nat)
    BY WFMin, NatLessThanWellFounded, Zenon
  <1>2. \A k \in S : k \in Nat /\ m \in Nat /\ ~(k < m)
    BY <1>1, Zenon DEF OpToRel
  <1>3. \A k \in S : m <= k
    BY <1>2
  <1> QED
    BY <1>3, Zenon DEF Least

LEMMA ValidPositions == Valid \subseteq Position /\ Position \subseteq Nat
  BY SensorsAssumption DEF Valid, Position

LEMMA FirstOfSet ==
    ASSUME NEW S, S \subseteq Valid
    PROVE  /\ FirstOf(S) \in 1..End
           /\ S # {} => FirstOf(S) \in S /\ \A q \in S : FirstOf(S) <= q
           /\ FirstOf(S) = End <=> S = {}
  <1>1. CASE S = {}
    BY <1>1, SensorsAssumption DEF FirstOf, End
  <1>2. CASE S # {}
    <2>1. FirstOf(S) \in S /\ \A q \in S : FirstOf(S) <= q
      BY <1>2, LeastIsMinimum, ValidPositions DEF FirstOf
    <2>2. FirstOf(S) \in 1..Features
      BY <2>1, ValidPositions DEF Position
    <2> QED
      BY <1>2, <2>1, <2>2, SensorsAssumption DEF End
  <1> QED
    BY <1>1, <1>2

----------------------------------------------------------------------------
(* What the member functions do: an update ends with good pointers and an  *)
(* iterator inside the vector, whatever it started from.                   *)

Vectors == [readings : {{}, Valid}, live : {{}, Valid}, it : 1..End,
            fresh : BOOLEAN]
Sound(s) == s \in Vectors /\ s.readings = s.live
Good(s)  == Sound(s) /\ s.readings = Valid /\ (Valid # {} => s.it \in Valid)

LEMMA FetchedIsGood == \A s : Good(Fetched(s))
  BY FirstOfSet DEF Good, Sound, Vectors, Fetched

LEMMA AdvancedIsGood == ASSUME NEW s, Sound(s) PROVE Good(Advanced(s))
  <1> DEFINE later == {p \in s.readings : p > s.it}
  <1>1. later \subseteq Valid
    BY DEF Sound, Vectors
  <1>2. CASE FirstOf(later) = End
    BY <1>2, FetchedIsGood DEF Advanced
  <1>3. CASE FirstOf(later) # End
    <2>1. FirstOf(later) \in later /\ FirstOf(later) \in 1..End
      BY <1>1, <1>3, FirstOfSet
    <2>2. Advanced(s) = [s EXCEPT !.it = FirstOf(later)]
      BY <1>3 DEF Advanced
    <2>3. s.readings = Valid
      BY <2>1 DEF Sound, Vectors
    <2> QED
      BY <1>1, <2>1, <2>2, <2>3 DEF Good, Sound, Vectors
  <1> QED
    BY <1>2, <1>3

LEMMA ReloadedIsSound == ASSUME NEW s, Sound(s) PROVE Sound(Reloaded(s))
  BY DEF Sound, Vectors, Reloaded

(* The invariant. The vector is empty only before the first line, on which *)
(* the counter is due; this is why no line is printed from an empty one.   *)
(* Of the readings up to the iterator, those that were not shown are no    *)
(* more than the additional updates.                                       *)
UpTo(s) == {p \in s.readings : p <= s.it}

IInv ==
    /\ TypeOK
    /\ readings \in {{}, Valid} /\ readings = live
    /\ status = "running" => Good(Current) \/ Due
    /\ NoWildPointer
    /\ \A p \in seen : p <= reading_it
    /\ Cardinality(UpTo(Current) \ seen) <= extra

LEMMA UpdatedIsGood ==
    ASSUME IInv, status = "running"
    PROVE  Good(Updated)
  <1>1. Sound(Current)
    BY DEF IInv, TypeOK, Sound, Vectors, Current
  <1>2. Good(Current) \/ Due
    BY DEF IInv
  <1>3. Sound(AfterReload(Current)) /\ (Good(AfterReload(Current)) \/ Due)
    BY <1>1, <1>2, ReloadedIsSound, AdvancedIsGood DEF AfterReload, Good
  <1> DEFINE s == AfterReload(Current)
             u == AfterUpdate(s)
  <1>4. Sound(u) /\ (Good(u) \/ Due)
    BY <1>3, AdvancedIsGood DEF AfterUpdate, Good
  <1>5. Good(AfterCycle(u))
    BY <1>4, AdvancedIsGood DEF AfterCycle
  <1> QED
    BY <1>5 DEF Updated

----------------------------------------------------------------------------
(* Counting the readings that are passed over on a line *)

LEMMA FiniteReadings ==
    ASSUME NEW S, S \subseteq Valid
    PROVE  IsFiniteSet(S) /\ Cardinality(S) \in Nat
  <1>1. IsFiniteSet(1..Features)
    BY FS_Interval, SensorsAssumption
  <1>2. S \in SUBSET (1..Features)
    BY ValidPositions DEF Position
  <1>3. IsFiniteSet(S)
    BY <1>1, <1>2, FS_Subset
  <1> QED
    BY <1>3, FS_CardinalityType

LEMMA OneMore ==
    ASSUME NEW S, NEW T, NEW x, S \subseteq Valid, T \subseteq S \cup {x}, x \in Valid
    PROVE  Cardinality(T) <= Cardinality(S) + 1
  <1>1. IsFiniteSet(S) /\ Cardinality(S) \in Nat
    BY FiniteReadings
  <1>2. IsFiniteSet(S \cup {x}) /\ Cardinality(S \cup {x}) <= Cardinality(S) + 1
    BY <1>1, FS_AddElement
  <1>3. Cardinality(T) <= Cardinality(S \cup {x})
    BY <1>2, FS_Subset
  <1>4. Cardinality(T) \in Nat /\ Cardinality(S \cup {x}) \in Nat
    BY FiniteReadings
  <1> QED
    BY <1>1, <1>2, <1>3, <1>4

LEMMA OneLess ==
    ASSUME NEW S, NEW T, NEW x \in S, S \subseteq Valid, T \subseteq S \ {x}
    PROVE  Cardinality(T) <= Cardinality(S) - 1
  <1>1. IsFiniteSet(S) /\ Cardinality(S) \in Nat
    BY FiniteReadings
  <1>2. IsFiniteSet(S \ {x}) /\ Cardinality(S \ {x}) = Cardinality(S) - 1
    BY <1>1, FS_RemoveElement
  <1> QED
    BY <1>2, FS_Subset

LEMMA NoMore ==
    ASSUME NEW S, NEW T, S \subseteq Valid, T \subseteq S
    PROVE  Cardinality(T) <= Cardinality(S)
  BY FiniteReadings, FS_Subset

(* TemperaturePrinter::update fetches when no reading is left, or moves to *)
(* the next one.                                                           *)
LEMMA AdvancedMoves ==
    ASSUME NEW s, Sound(s)
    PROVE  \/ Advanced(s) = Fetched(s) /\ UpTo(s) = s.readings
           \/ /\ Advanced(s).readings = s.readings /\ Advanced(s).fresh = s.fresh
              /\ Advanced(s).it \in s.readings /\ Advanced(s).it > s.it
              /\ UpTo(Advanced(s)) = UpTo(s) \cup {Advanced(s).it}
  <1> DEFINE later == {p \in s.readings : p > s.it}
             next  == FirstOf(later)
  <1>1. later \subseteq Valid /\ s.readings \subseteq Valid
    BY DEF Sound, Vectors
  <1>2. s.it \in Nat /\ \A p \in s.readings : p \in Nat
    <2>1. s.it \in 1..(Features + 1)
      BY DEF Sound, Vectors, End
    <2>2. s.it \in Nat
      BY <2>1, SensorsAssumption
    <2>3. \A p \in s.readings : p \in Nat
      BY <1>1, ValidPositions
    <2> QED
      BY <2>2, <2>3
  <1>3. CASE next = End
    <2>1. later = {}
      BY <1>1, <1>3, FirstOfSet
    <2>2. \A p \in s.readings : p <= s.it
      BY <1>2, <2>1
    <2> QED
      BY <1>3, <2>2 DEF Advanced, UpTo
  <1>4. CASE next # End
    <2>1. Advanced(s) = [s EXCEPT !.it = next]
      BY <1>4 DEF Advanced
    <2>2. next \in later /\ \A p \in later : next <= p
      BY <1>1, <1>4, FirstOfSet
    <2>3. \A p \in s.readings : p <= next <=> p <= s.it \/ p = next
      BY <1>2, <2>2
    <2>4. /\ Advanced(s).readings = s.readings /\ Advanced(s).fresh = s.fresh
          /\ Advanced(s).it = next
      BY <2>1 DEF Sound, Vectors
    <2> QED
      BY <2>2, <2>3, <2>4 DEF UpTo
  <1> QED
    BY <1>3, <1>4

(* What is known of the readings after n updates on a line: how many were  *)
(* passed over since the line was begun, or since they were fetched on it; *)
(* and how many were left out of those that were there before.             *)
Counted(s, n) ==
    /\ ~s.fresh =>
          /\ s.readings = readings /\ s.it >= reading_it
          /\ n # 0 => s.it > reading_it
          /\ Cardinality(UpTo(s) \ seen) <= extra + n
    /\ s.fresh =>
          /\ n # 0 /\ Cardinality(UpTo(s)) <= n
          /\ "reload" \notin requested => Cardinality(readings \ seen) <= extra + n - 1

LEMMA FetchedOne == \A s : UpTo(Fetched(s)) \subseteq Valid /\ Cardinality(UpTo(Fetched(s))) <= 1
  <1> SUFFICES ASSUME NEW s
               PROVE  UpTo(Fetched(s)) \subseteq Valid /\ Cardinality(UpTo(Fetched(s))) <= 1
    OBVIOUS
  <1>1. UpTo(Fetched(s)) = {p \in Valid : p <= FirstOf(Valid)}
    BY DEF UpTo, Fetched
  <1>2. CASE Valid = {}
    BY <1>1, <1>2, FS_EmptySet
  <1>3. CASE Valid # {}
    <2>1. FirstOf(Valid) \in Valid /\ \A q \in Valid : FirstOf(Valid) <= q
      BY <1>3, FirstOfSet
    <2>2. \A q \in Valid : q \in Nat
      BY ValidPositions
    <2>3. UpTo(Fetched(s)) = {FirstOf(Valid)}
      BY <1>1, <2>1, <2>2
    <2> QED
      BY <2>1, <2>3, FS_Singleton
  <1> QED
    BY <1>2, <1>3

LEMMA AdvancedCounted ==
    ASSUME IInv, NEW s, Sound(s), NEW n \in Nat, Counted(s, n)
    PROVE  Counted(Advanced(s), n + 1)
  <1> DEFINE t == Advanced(s)
  <1>1. extra \in Nat /\ readings \subseteq Valid /\ s.readings \subseteq Valid
    BY DEF IInv, TypeOK, Sound, Vectors
  <1>2. /\ reading_it \in Nat /\ s.it \in Nat
        /\ \A p \in Valid : p \in Nat
    BY ValidPositions, SensorsAssumption DEF IInv, TypeOK, Sound, Vectors, End
  <1>3. /\ Cardinality(readings \ seen) \in Nat
        /\ UpTo(s) \subseteq Valid /\ Cardinality(UpTo(s)) \in Nat
        /\ Cardinality(UpTo(s) \ seen) \in Nat
    BY <1>1, FiniteReadings DEF UpTo
  <1>4. CASE t = Fetched(s) /\ UpTo(s) = s.readings
    <2>1. t.fresh
      BY <1>4 DEF Fetched
    <2>2. Cardinality(UpTo(t)) <= 1 /\ UpTo(t) \subseteq Valid
      BY <1>4, FetchedOne
    <2>3. Cardinality(UpTo(t)) \in Nat
      BY <2>2, FiniteReadings
    <2>4. ASSUME "reload" \notin requested
          PROVE  Cardinality(readings \ seen) <= extra + n
      <3>1. CASE s.fresh
        BY <1>1, <1>3, <2>4, <3>1 DEF Counted
      <3>2. CASE ~s.fresh
        BY <1>4, <3>2 DEF Counted
      <3> QED
        BY <3>1, <3>2
    <2> QED
      BY <1>1, <1>3, <2>1, <2>2, <2>3, <2>4 DEF Counted
  <1>5. CASE /\ t.readings = s.readings /\ t.fresh = s.fresh
             /\ t.it \in s.readings /\ t.it > s.it
             /\ UpTo(t) = UpTo(s) \cup {t.it}
    <2>1. t.it \in Valid /\ t.it \in Nat
      BY <1>1, <1>2, <1>5
    <2>2. UpTo(t) \subseteq Valid /\ UpTo(t) \ seen \subseteq Valid
      BY <1>3, <1>5, <2>1
    <2>3. Cardinality(UpTo(t)) \in Nat /\ Cardinality(UpTo(t) \ seen) \in Nat
      BY <2>2, FiniteReadings
    <2>4. CASE s.fresh
      <3>1. Cardinality(UpTo(t)) <= Cardinality(UpTo(s)) + 1
        BY <1>3, <1>5, <2>1, OneMore
      <3> QED
        BY <1>1, <1>3, <1>5, <2>3, <2>4, <3>1 DEF Counted
    <2>5. CASE ~s.fresh
      <3>1. UpTo(s) \ seen \subseteq Valid /\ UpTo(t) \ seen \subseteq (UpTo(s) \ seen) \cup {t.it}
        BY <1>3, <1>5
      <3>2. Cardinality(UpTo(t) \ seen) <= Cardinality(UpTo(s) \ seen) + 1
        BY <2>1, <3>1, OneMore
      <3>3. t.it > reading_it
        BY <1>2, <1>5, <2>1, <2>5 DEF Counted
      <3> QED
        BY <1>1, <1>2, <1>3, <1>5, <2>1, <2>3, <2>5, <3>2, <3>3 DEF Counted
    <2> QED
      BY <2>4, <2>5
  <1> QED
    BY <1>4, <1>5, AdvancedMoves

LEMMA ReloadedCounted ==
    ASSUME IInv, "reload" \in requested
    PROVE  Counted(Advanced(Reloaded(Current)), 1)
  <1> DEFINE s == Reloaded(Current)
  <1>1. {p \in s.readings : p > s.it} = {}
    BY DEF Reloaded, Current
  <1>2. Advanced(s) = Fetched(s)
    BY <1>1 DEF Advanced, FirstOf
  <1>3. Cardinality(UpTo(Fetched(s))) <= 1 /\ Fetched(s).fresh
    BY FetchedOne DEF Fetched
  <1> QED
    BY <1>2, <1>3 DEF Counted

LEMMA UpdatedCounted ==
    ASSUME IInv, status = "running"
    PROVE  Updates \in Nat /\ Counted(Updated, Updates) /\ (Updates = 0 => Updated = Current)
  <1> DEFINE s == AfterReload(Current)
             u == AfterUpdate(s)
             m == Count("reload" \in requested)
             n == m + Count("update" \in requested)
  <1>1. m \in Nat /\ n \in Nat /\ Count(Due) \in Nat /\ Updates = n + Count(Due)
    BY DEF Count, Updates
  <1>2. Sound(Current)
    BY DEF IInv, TypeOK, Sound, Vectors, Current
  <1>3. Counted(Current, 0)
    <2>1. extra \in Nat /\ reading_it \in Nat
      BY SensorsAssumption DEF IInv, TypeOK, End
    <2>2. Cardinality(UpTo(Current) \ seen) <= extra
      BY DEF IInv
    <2>3. Current.readings = readings /\ Current.it = reading_it /\ Current.fresh = FALSE
      BY DEF Current
    <2> QED
      BY <2>1, <2>2, <2>3 DEF Counted
  <1>4. Sound(s)
    BY <1>2, ReloadedIsSound, AdvancedIsGood DEF AfterReload, Good
  <1>5. Counted(s, m)
    BY <1>3, ReloadedCounted DEF AfterReload, Count
  <1>6. Sound(u)
    BY <1>4, AdvancedIsGood DEF AfterUpdate, Good
  <1>7. Counted(u, n)
    <2>1. CASE "update" \in requested
      BY <1>1, <1>4, <1>5, <2>1, AdvancedCounted DEF AfterUpdate, Count
    <2>2. CASE "update" \notin requested
      <3>1. n = m /\ u = s
        BY <1>1, <2>2 DEF AfterUpdate, Count
      <3> QED
        BY <1>5, <3>1
    <2> QED
      BY <2>1, <2>2
  <1>8. Counted(Updated, Updates)
    <2>1. CASE Due
      <3>1. Updates = n + 1 /\ Updated = Advanced(u)
        BY <1>1, <2>1 DEF Updated, AfterCycle, Count
      <3> QED
        BY <1>1, <1>6, <1>7, <3>1, AdvancedCounted
    <2>2. CASE ~Due
      <3>1. Updates = n /\ Updated = u
        BY <1>1, <2>2 DEF Updated, AfterCycle, Count
      <3> QED
        BY <1>7, <3>1
    <2> QED
      BY <2>1, <2>2
  <1>9. ASSUME Updates = 0 PROVE Updated = Current
    <2>1. "reload" \notin requested /\ "update" \notin requested /\ ~Due
      BY <1>9 DEF Updates, Count
    <2> QED
      BY <2>1 DEF Updated, AfterCycle, AfterUpdate, AfterReload
  <1> QED
    BY <1>1, <1>8, <1>9

----------------------------------------------------------------------------
(* The invariant holds *)

LEMMA InvInit == Init => IInv
  <1> SUFFICES ASSUME Init PROVE IInv
    OBVIOUS
  <1>1. End \in 1..End /\ Interval - 1 \in 0..(Interval - 1)
    BY SensorsAssumption DEF End
  <1>2. Due
    BY SensorsAssumption DEF Init, Due
  <1>3. TypeOK
    BY <1>1 DEF Init, TypeOK
  <1>4. NoWildPointer
    BY DEF Init, NoWildPointer
  <1>5. UpTo(Current) \ seen = {} /\ Cardinality({}) = 0
    BY FS_EmptySet DEF Init, UpTo, Current
  <1> QED
    BY <1>2, <1>3, <1>4, <1>5 DEF Init, IInv

LEMMA UpdateStep == IInv /\ UpdateAndPrint => IInv'
  <1> SUFFICES ASSUME IInv, UpdateAndPrint PROVE IInv'
    OBVIOUS
  <1>1. Good(Updated)
    BY UpdatedIsGood DEF UpdateAndPrint
  <1>2. /\ readings' = Valid /\ live' = Valid
        /\ reading_it' \in 1..End
        /\ Valid # {} => reading_it' \in Valid
    BY <1>1 DEF UpdateAndPrint, Good, Sound, Vectors
  <1>3. cycle_cnt' \in 0..(Interval - 1)
    BY SensorsAssumption DEF UpdateAndPrint, IInv, TypeOK, Due
  <1>4. status' \in {"running", "undefined"} /\ NoWildPointer'
    BY <1>2 DEF UpdateAndPrint, NoWildPointer
  <1>5. Updates \in Nat /\ Counted(Updated, Updates) /\ (Updates = 0 => Updated = Current)
    BY UpdatedCounted DEF UpdateAndPrint
  <1>6. extra \in Nat /\ Extra \in Nat /\ extra' \in Nat
    BY <1>5 DEF UpdateAndPrint, IInv, TypeOK, Extra
  <1>7. seen' \subseteq 1..End
    BY <1>1, <1>2 DEF UpdateAndPrint, IInv, TypeOK, Good, Sound, Vectors
  <1>8. TypeOK'
    BY <1>2, <1>3, <1>4, <1>6, <1>7, SensorsAssumption
      DEF TypeOK, UpdateAndPrint, Valid, Position, End, Request
  <1>9. Good(Current)'
    BY <1>2 DEF Good, Sound, Vectors, Current
  <1>10. /\ reading_it' = Updated.it /\ readings' = Updated.readings
         /\ seen' = IF Updated.fresh THEN {reading_it'} ELSE seen \cup {reading_it'}
         /\ extra' = IF Updated.fresh THEN Extra ELSE extra + Extra
    BY DEF UpdateAndPrint
  <1>11. /\ reading_it \in Nat /\ reading_it' \in Nat
         /\ \A p \in seen : p \in Nat /\ p <= reading_it
    BY <1>2, SensorsAssumption DEF IInv, TypeOK, End
  <1>12. \A p \in seen' : p <= reading_it'
    <2>1. ~Updated.fresh => reading_it' >= reading_it
      BY <1>5, <1>10 DEF Counted
    <2> QED
      BY <1>10, <1>11, <2>1
  <1>13. UpTo(Current)' = UpTo(Updated)
    BY <1>10 DEF UpTo, Current
  <1>14. /\ UpTo(Updated) \subseteq Valid /\ UpTo(Updated) \ seen \subseteq Valid
         /\ Cardinality(UpTo(Updated)) \in Nat
         /\ Cardinality(UpTo(Updated) \ seen) \in Nat
         /\ Cardinality(UpTo(Updated) \ seen') \in Nat
    BY <1>2, <1>10, FiniteReadings DEF UpTo
  <1>15. Cardinality(UpTo(Updated) \ seen') <= extra'
    <2>1. CASE Valid = {}
      <3>1. UpTo(Updated) \ seen' = {}
        BY <1>14, <2>1
      <3> QED
        BY <1>6, <3>1, FS_EmptySet
    <2>2. CASE Valid # {}
      <3>1. reading_it' \in UpTo(Updated)
        BY <1>2, <1>10, <1>11, <2>2 DEF UpTo
      <3>2. CASE Updated.fresh
        <4>1. Updates # 0 /\ Cardinality(UpTo(Updated)) <= Updates /\ extra' = Updates - 1
          BY <1>5, <1>10, <3>2 DEF Counted, Extra
        <4>2. UpTo(Updated) \ seen' \subseteq UpTo(Updated) \ {reading_it'}
          BY <1>10, <3>2
        <4>3. Cardinality(UpTo(Updated) \ seen') <= Cardinality(UpTo(Updated)) - 1
          BY <1>14, <3>1, <4>2, OneLess
        <4> QED
          BY <1>5, <1>14, <4>1, <4>3
      <3>3. CASE ~Updated.fresh /\ Updates = 0
        <4>1. UpTo(Updated) \ seen' \subseteq UpTo(Updated) \ seen
          BY <1>10, <3>3
        <4>2. Cardinality(UpTo(Updated) \ seen') <= Cardinality(UpTo(Updated) \ seen)
          BY <1>14, <4>1, NoMore
        <4>3. Cardinality(UpTo(Updated) \ seen) <= extra
          BY <1>5, <3>3 DEF IInv
        <4>4. extra' = extra
          BY <1>6, <1>10, <3>3 DEF Extra
        <4> QED
          BY <1>6, <1>14, <4>2, <4>3, <4>4
      <3>4. CASE ~Updated.fresh /\ Updates # 0
        <4>1. /\ reading_it' > reading_it
              /\ Cardinality(UpTo(Updated) \ seen) <= extra + Updates
              /\ extra' = extra + (Updates - 1)
          BY <1>5, <1>10, <3>4 DEF Counted, Extra
        <4>2. reading_it' \notin seen
          BY <1>11, <4>1
        <4>3. UpTo(Updated) \ seen' \subseteq (UpTo(Updated) \ seen) \ {reading_it'}
          BY <1>10, <3>4
        <4>4. reading_it' \in UpTo(Updated) \ seen
          BY <3>1, <4>2
        <4>5. Cardinality(UpTo(Updated) \ seen') <= Cardinality(UpTo(Updated) \ seen) - 1
          BY <1>14, <4>3, <4>4, OneLess
        <4> QED
          BY <1>5, <1>6, <1>14, <4>1, <4>5
      <3> QED
        BY <3>2, <3>3, <3>4
    <2> QED
      BY <2>1, <2>2
  <1> QED
    BY <1>2, <1>4, <1>8, <1>9, <1>12, <1>13, <1>15 DEF IInv

LEMMA InvStep == IInv /\ [Next]_vars => IInv'
  <1> SUFFICES ASSUME IInv, [Next]_vars PROVE IInv'
    OBVIOUS
  <1>1. CASE UpdateAndPrint
    BY <1>1, UpdateStep
  <1>2. CASE SensorFails
    BY <1>2 DEF SensorFails, IInv, TypeOK, NoWildPointer, UpTo, Current
  <1>3. CASE Click
    <2>1. requested' \subseteq Request
      BY <1>3 DEF Click, IInv, TypeOK
    <2>2. (Good(Current) \/ Due)' <=> (Good(Current) \/ Due)
      BY <1>3 DEF Click, Current, Good, Sound, Due
    <2> QED
      BY <1>3, <2>1, <2>2 DEF Click, IInv, TypeOK, NoWildPointer, UpTo, Current
  <1>4. CASE UNCHANGED vars
    <2>1. (Good(Current) \/ Due)' <=> (Good(Current) \/ Due)
      BY <1>4 DEF vars, Current, Good, Sound, Due
    <2> QED
      BY <1>4, <2>1 DEF vars, IInv, TypeOK, NoWildPointer, UpTo, Current
  <1> QED
    BY <1>1, <1>2, <1>3, <1>4 DEF Next, Terminated

(* The inductive invariant: vectors that are empty or complete, and an     *)
(* iterator inside them or a counter that is due.                          *)
THEOREM Invariant == Spec => []IInv
  BY InvInit, InvStep, PTL DEF Spec

(* The vectors, the iterator and the counter keep their types, for any     *)
(* chips: Sensors::reload, Sensors::update and TemperaturePrinter::update  *)
(* in every order.                                                         *)
THEOREM TypeCorrect == Spec => []TypeOK
  <1>1. IInv => TypeOK
    BY DEF IInv
  <1> QED
    BY <1>1, Invariant, PTL

(* Where there is a temperature to show, TemperaturePrinter::do_print never *)
(* dereferences an iterator past the end or a Sensor* into freed memory.   *)
THEOREM PointersGood == Spec => []NoWildPointer
  <1>1. IInv => NoWildPointer
    BY DEF IInv
  <1> QED
    BY <1>1, Invariant, PTL

(* A click costs a reading at most: whatever is asked for on which line,   *)
(* when TemperaturePrinter::update fetches new readings, those of the old  *)
(* that were on no line are no more than the updates that had a line with  *)
(* another; without a click every reading is shown.                        *)
THEOREM SkipsCounted == Spec => AllShownBeforeFetch
  <1>1. IInv /\ [Next]_vars =>
          [ UpdateAndPrint /\ Updated.fresh /\ "reload" \notin requested
            => Cardinality(readings \ seen) <= extra + Extra ]_vars
    <2> SUFFICES ASSUME IInv, UpdateAndPrint, Updated.fresh, "reload" \notin requested
                 PROVE  Cardinality(readings \ seen) <= extra + Extra
      BY Zenon
    <2>1. Updates \in Nat /\ Counted(Updated, Updates)
      BY UpdatedCounted DEF UpdateAndPrint
    <2>2. Updates # 0 /\ Cardinality(readings \ seen) <= extra + Updates - 1
      BY <2>1 DEF Counted
    <2>3. extra \in Nat
      BY DEF IInv, TypeOK
    <2> QED
      BY <2>1, <2>2, <2>3 DEF Extra
  <1> QED
    BY <1>1, Invariant, PTL DEF Spec, AllShownBeforeFetch
=============================================================================
