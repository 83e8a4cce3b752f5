-------------------------- MODULE CallbacksProofs --------------------------
(***************************************************************************)
(* Theorems about Callbacks for any callables of any language and role,    *)
(* any names of modules, and any finite set of views: the lock is held     *)
(* where it must be and only there, and references are counted as they are *)
(* held.                                                                   *)
(***************************************************************************)
EXTENDS Callbacks, TLAPS, FiniteSetTheorems, FunctionTheorems

----------------------------------------------------------------------------
(* The constants *)

Special == {"None", "module", "pos", "x", "answer"}

LEMMA Names ==
    /\ Nothing \notin Object
    /\ Callable \cap View = {}
    /\ Special \cap (Callable \cup View) = {}
    /\ Python \subseteq Callable /\ Callable \subseteq Object
    /\ View \subseteq Object /\ Special \subseteq Object
  BY CallbacksAssumption DEF Object, Special, Nothing, Python

LEMMA OrderFacts ==
    /\ Len(Order) \in Nat
    /\ DOMAIN Order = 1..Len(Order)
    /\ Callable = {Order[i] : i \in 1..Len(Order)}
    /\ Len(Order) >= 1
    /\ \A i, j \in 1..Len(Order) : Order[i] = Order[j] => i = j
  <1>1. /\ Len(Order) \in Nat
        /\ DOMAIN Order = 1..Len(Order)
        /\ \A i, j \in DOMAIN Order : Order[i] = Order[j] => i = j
    BY CallbacksAssumption
  <1>2. Callable = {Order[i] : i \in 1..Len(Order)}
    BY <1>1 DEF Callable
  <1>3. 1..Len(Order) # {}
    BY <1>2, CallbacksAssumption
  <1> QED
    BY <1>1, <1>2, <1>3

LEMMA FiniteParts ==
    IsFiniteSet(Python) /\ IsFiniteSet(Slots) /\ IsFiniteSet(Callable)
  <1>1. IsFiniteSet(1..Len(Order))
    BY FS_Interval, OrderFacts
  <1>2. Order \in Surjection(1..Len(Order), Callable)
    BY OrderFacts, CallbacksAssumption DEF Surjection
  <1>3. IsFiniteSet(Callable)
    BY <1>1, <1>2, FS_Surjection
  <1>4. IsFiniteSet(Python)
    BY <1>3, FS_Subset, Names
  <1>5. [c \in Python |-> Slot[c]] \in Surjection(Python, Slots)
    BY DEF Surjection, Slots
  <1> QED
    BY <1>3, <1>4, <1>5, FS_Surjection

----------------------------------------------------------------------------
(* The lock *)

Place == {"load", "import", "getattr", "leave_load", "idle", "args", "running",
          "answer", "leave", "free", "exit", "ended"}

(* Types of what the lock and the way through loading and calling need. *)
LockTyped ==
    /\ initialized \in BOOLEAN
    /\ gil \in {"nobody", "main", "thread"} /\ p \in {"null", "saved"}
    /\ scope \in BOOLEAN /\ yielded \in BOOLEAN
    /\ pc \in Place

Loading == {"load", "import", "getattr", "leave_load"}
Ending  == {"exit", "ended"}

(* Callables are loaded in their order, and the interpreter is started     *)
(* before the first one that is a Python function is.                      *)
LoadInv ==
    /\ loaded \in 0..Len(Order)
    /\ pc \in Loading => loaded < Len(Order) /\ cur = Order[loaded + 1]
    /\ pc \notin Loading \cup Ending => loaded = Len(Order)
    /\ pc \in Loading \ {"load"} => cur \in Python /\ initialized
    /\ pc \in {"args", "running", "answer", "leave"} => cur \in Callable
    /\ pc \in {"running", "answer"} => cur \in Python
    /\ \A i \in 1..loaded : Order[i] \in Python => initialized

(* Whether the GIL_scoped of the moment has the interpreter: it has it also *)
(* while the evaluation loop lets a thread run, and never where none is.    *)
ScopeInv ==
    /\ yielded => pc \in {"import", "running"} /\ scope
    /\ pc \in {"load", "idle", "free"} => ~scope
    /\ pc \in {"args", "leave"} /\ cur \notin Python => ~scope

LockInv == LockTyped /\ LoadInv /\ ScopeInv /\ LockHeld

LEMMA LockInit == Init => LockInv
  <1> SUFFICES ASSUME Init PROVE LockInv
    OBVIOUS
  <1> USE DEF Init
  <1>1. LockTyped /\ ScopeInv
    BY DEF LockTyped, ScopeInv, Place
  <1>2. LoadInv
    BY OrderFacts DEF LoadInv, Loading, Ending
  <1>3. LockHeld
    BY DEF LockHeld, InPython
  <1> QED
    BY <1>1, <1>2, <1>3 DEF LockInv

(* Once one more callable is loaded. *)
LEMMA LoadedOne ==
    ASSUME LoadInv, pc \in {"load", "leave_load"}, Loaded,
           cur \in Python => initialized, initialized' = initialized
    PROVE  LoadInv' /\ pc' \in {"load", "idle"}
  <1>0. Len(Order) \in Nat
    BY OrderFacts
  <1>1. /\ loaded \in Nat /\ loaded < Len(Order) /\ loaded' = loaded + 1
        /\ cur = Order[loaded + 1]
    <2>1. pc \in Loading
      BY DEF Loading
    <2> QED
      BY <1>0, <2>1 DEF LoadInv, Loaded
  <1>2. \A i \in 1..loaded' : Order[i] \in Python => initialized'
    <2> SUFFICES ASSUME NEW i \in 1..loaded', Order[i] \in Python
                 PROVE  initialized'
      OBVIOUS
    <2>1. CASE i = loaded + 1
      BY <1>1, <2>1
    <2>2. CASE i \in 1..loaded
      BY <2>2 DEF LoadInv
    <2> QED
      BY <1>1, <2>1, <2>2
  <1>3. CASE loaded' = Len(Order)
    <2>1. pc' = "idle" /\ loaded' \in 0..Len(Order)
      BY <1>0, <1>3 DEF Loaded
    <2> QED
      BY <1>2, <1>3, <2>1 DEF LoadInv, Loading, Ending
  <1>4. CASE loaded' # Len(Order)
    <2>1. /\ pc' = "load" /\ cur' = Order[loaded' + 1]
          /\ loaded' \in 0..Len(Order) /\ loaded' < Len(Order)
      BY <1>0, <1>1, <1>4 DEF Loaded
    <2> QED
      BY <1>2, <2>1 DEF LoadInv, Loading, Ending
  <1> QED
    BY <1>3, <1>4

(* At the call of a Python function the interpreter runs. *)
LEMMA CalledAfterStart ==
    ASSUME LoadInv, pc \notin Loading \cup Ending, NEW c \in Python
    PROVE  initialized
  <1>1. PICK i \in 1..Len(Order) : c = Order[i]
    BY OrderFacts, Names
  <1> QED
    BY <1>1 DEF LoadInv

(* Acquire with the interpreter running gets the lock; so does a release   *)
(* give it back, if it was got.                                            *)
LEMMA Acquires ==
    ASSUME LockTyped, LockHeld, ~scope, ~yielded, initialized, Acquire
    PROVE  gil' = "main" /\ scope' = TRUE /\ yielded' = FALSE /\ p' = "null"
  BY DEF LockTyped, LockHeld, Acquire

LEMMA Releases ==
    ASSUME LockTyped, Release
    PROVE  /\ scope' = FALSE /\ yielded' = yielded
           /\ IF scope THEN gil' = "nobody" /\ p' = "saved"
                       ELSE gil' = gil /\ p' = p
  BY DEF LockTyped, Release

LEMMA LockStep == LockInv /\ [Next]_vars => LockInv'
  <1> SUFFICES ASSUME LockInv, [Next]_vars PROVE LockInv'
    OBVIOUS
  <1> USE DEF LockInv
  <1> DEFINE Way == <<loaded, initialized, cur>>
  <1>1. CASE LoadDylib
    <2>1. LoadInv' /\ pc' \in {"load", "idle"}
      BY <1>1, LoadedOne DEF LoadDylib
    <2>2. UNCHANGED <<lock, initialized>>
      BY <1>1 DEF LoadDylib
    <2> QED
      BY <1>1, <2>1, <2>2
         DEF lock, LoadDylib, LockTyped, ScopeInv, LockHeld, InPython, Place
  <1>2. CASE StartPython
    <2>1. LockTyped'
      BY <1>2 DEF StartPython, HolderAfterStart, LockTyped
    <2>2. LoadInv'
      BY <1>2 DEF StartPython, LoadInv
    <2>3. ScopeInv'
      BY <1>2 DEF StartPython, ScopeInv
    <2>4. LockHeld'
      BY <1>2 DEF StartPython, HolderAfterStart, ScopeInv, LockHeld, InPython
    <2> QED
      BY <2>1, <2>2, <2>3, <2>4
  <1>3. CASE EnterLoad
    <2>1. gil' = "main" /\ scope' = TRUE /\ yielded' = FALSE /\ p' = "null"
         /\ pc' = "import"
      BY <1>3, Acquires DEF EnterLoad, ScopeInv
    <2>2. UNCHANGED Way
      BY <1>3 DEF EnterLoad, rest, known
    <2>3. LoadInv'
      BY <1>3, <2>1, <2>2 DEF EnterLoad, LoadInv, Loading, Ending
    <2> QED
      BY <2>1, <2>2, <2>3
         DEF LockTyped, ScopeInv, LockHeld, InPython, Place
  <1>4. CASE Import
    <2>1. pc = "import" /\ ~yielded /\ pc' = "getattr" /\ UNCHANGED <<lock, Way>>
      BY <1>4 DEF Import, known
    <2>2. LoadInv'
      BY <2>1 DEF LoadInv, Loading, Ending
    <2> QED
      BY <2>1, <2>2
         DEF lock, LockTyped, ScopeInv, LockHeld, InPython, Place
  <1>5. CASE GetAttr
    <2>1. pc = "getattr" /\ pc' = "leave_load" /\ UNCHANGED <<lock, Way>>
      BY <1>5 DEF GetAttr
    <2>2. LoadInv'
      BY <2>1 DEF LoadInv, Loading, Ending
    <2> QED
      BY <2>1, <2>2
         DEF lock, LockTyped, ScopeInv, LockHeld, InPython, Place
  <1>6. CASE LeaveLoad
    <2>1. LoadInv' /\ pc' \in {"load", "idle"}
      BY <1>6, LoadedOne DEF LeaveLoad, LoadInv, Loading
    <2>2. scope' = FALSE /\ yielded' = FALSE /\ gil' = "nobody" /\ p' = "saved"
      BY <1>6, Releases DEF LeaveLoad, LockHeld, InPython, ScopeInv, LockTyped
    <2>3. initialized' = initialized
      BY <1>6 DEF LeaveLoad
    <2> QED
      BY <2>1, <2>2, <2>3
         DEF LockTyped, ScopeInv, LockHeld, InPython, Place
  <1>7. ASSUME \E c \in Callable : Call(c)
        PROVE  LockInv'
    <2> PICK c \in Callable : Call(c)
      BY <1>7
    <2>1. /\ pc = "idle" /\ pc' = "args" /\ cur' = c
          /\ UNCHANGED <<loaded, initialized>>
      BY DEF Call, known
    <2>2. LoadInv'
      BY <2>1 DEF LoadInv, Loading, Ending
    <2>3. CASE c \in Python
      <3>1. initialized
        BY <2>1, <2>3, CalledAfterStart DEF Loading, Ending
      <3>2. gil' = "main" /\ scope' = TRUE /\ yielded' = FALSE /\ p' = "null"
        BY <2>1, <2>3, <3>1, Acquires DEF Call, NeedsLock, ScopeInv
      <3> QED
        BY <2>1, <2>2, <2>3, <3>2
           DEF LockTyped, ScopeInv, LockHeld, InPython, Place
    <2>4. CASE c \notin Python
      <3>1. UNCHANGED lock
        BY <2>4 DEF Call, NeedsLock
      <3> QED
        BY <2>1, <2>2, <2>4, <3>1
           DEF lock, LockTyped, ScopeInv, LockHeld, InPython, Place
    <2> QED
      BY <2>3, <2>4
  <1>8. CASE CallNative
    <2>1. /\ pc = "args" /\ cur \notin Python /\ pc' = "leave"
          /\ UNCHANGED <<lock, Way>>
      BY <1>8 DEF CallNative, Goes, rest, known
    <2>2. LoadInv'
      BY <2>1 DEF LoadInv, Loading, Ending
    <2> QED
      BY <2>1, <2>2
         DEF lock, LockTyped, ScopeInv, LockHeld, InPython, Place
  <1>9. CASE PassArgs
    <2>1. /\ pc = "args" /\ cur \in Python /\ pc' = "running"
          /\ UNCHANGED <<lock, Way>>
      BY <1>9 DEF PassArgs, known
    <2>2. LoadInv'
      BY <2>1 DEF LoadInv, Loading, Ending
    <2> QED
      BY <2>1, <2>2
         DEF lock, LockTyped, ScopeInv, LockHeld, InPython, Place
  <1>10. CASE Yield \/ Resume
    <2>1. UNCHANGED <<pc, Way, scope, p>>
      BY <1>10 DEF Yield, Resume, rest, known
    <2>2. LoadInv'
      BY <2>1 DEF LoadInv
    <2> QED
      BY <1>10, <2>1, <2>2
         DEF Yield, Resume, LockTyped, ScopeInv, LockHeld, InPython, Place
  <1>11. ASSUME \/ Keep \/ HandlesError
                \/ \E v \in View : Forget(v)
         PROVE  LockInv'
    <2>1. UNCHANGED <<lock, pc, Way>>
      BY <1>11 DEF Keep, HandlesError, Forget, known
    <2> QED
      BY <2>1 DEF lock, LockTyped, LoadInv, ScopeInv, LockHeld, InPython
  <1>12. ASSUME \E a \in Answers : Returns(a)
         PROVE  LockInv'
    <2>1. /\ pc = "running" /\ ~yielded /\ pc' = "answer"
          /\ UNCHANGED <<lock, Way>>
      BY <1>12 DEF Returns, Running, known
    <2>2. LoadInv'
      BY <2>1 DEF LoadInv, Loading, Ending
    <2> QED
      BY <2>1, <2>2
         DEF lock, LockTyped, ScopeInv, LockHeld, InPython, Place
  <1>13. CASE Convert
    <2>1. pc = "answer" /\ pc' = "leave" /\ UNCHANGED <<lock, Way>>
      BY <1>13 DEF Convert, known
    <2>2. LoadInv'
      BY <2>1 DEF LoadInv, Loading, Ending
    <2> QED
      BY <2>1, <2>2
         DEF lock, LoadInv, LockTyped, ScopeInv, LockHeld, InPython, Place
  <1>14. CASE Leave
    <2>1. /\ pc = "leave" /\ pc' \in {"idle", "free"}
          /\ UNCHANGED <<loaded, initialized>>
      BY <1>14 DEF Leave, known
    <2>2. LoadInv'
      BY <2>1 DEF LoadInv, Loading, Ending
    <2>3. /\ scope' = FALSE /\ yielded' = FALSE
          /\ gil' # "main" /\ (initialized => p' = "saved")
      BY <1>14, <2>1, Releases
         DEF Leave, LockHeld, InPython, ScopeInv, LockTyped
    <2>4. LockTyped'
      BY <1>14, <2>1, Releases DEF Leave, LockTyped, Place
    <2> QED
      BY <2>1, <2>2, <2>3, <2>4 DEF ScopeInv, LockHeld, InPython
  <1>15. CASE FreeEvent
    <2>1. pc = "free" /\ pc' = "idle" /\ UNCHANGED <<lock, Way>>
      BY <1>15 DEF FreeEvent, known
    <2>2. LoadInv'
      BY <2>1 DEF LoadInv, Loading, Ending
    <2> QED
      BY <2>1, <2>2
         DEF lock, LockTyped, ScopeInv, LockHeld, InPython, Place
  <1>16. CASE LoadFails \/ Raises \/ WrongAnswer \/ FailsElsewhere \/ Exec
    <2>1. pc' \in Ending /\ ~yielded /\ UNCHANGED <<lock, Way>>
      BY <1>16 DEF LoadFails, Raises, WrongAnswer, FailsElsewhere, Exec, Goes,
                   rest, known, Running, ScopeInv, Ending
    <2>2. LoadInv'
      BY <2>1 DEF LoadInv, Loading, Ending
    <2> QED
      BY <2>1, <2>2
         DEF lock, LockTyped, ScopeInv, LockHeld, InPython, Place, Ending
  <1>17. CASE DestroyHandlers
    <2>1. pc = "exit" /\ pc' = "ended" /\ UNCHANGED <<lock, Way>>
      BY <1>17 DEF DestroyHandlers
    <2>2. LoadInv'
      BY <2>1 DEF LoadInv, Loading, Ending
    <2> QED
      BY <2>1, <2>2
         DEF lock, LockTyped, ScopeInv, LockHeld, InPython, Place
  <1>18. CASE ThreadTakes \/ ThreadGives
    <2>1. UNCHANGED <<pc, Way, scope, p, yielded>>
      BY <1>18 DEF ThreadTakes, ThreadGives, rest, known
    <2>2. LoadInv'
      BY <2>1 DEF LoadInv
    <2> QED
      BY <1>18, <2>1, <2>2
         DEF ThreadTakes, ThreadGives, LockTyped, ScopeInv, LockHeld, InPython
  <1>19. CASE UNCHANGED vars
    BY <1>19 DEF vars, lock, rest, known, LockTyped, LoadInv, ScopeInv, LockHeld,
                 InPython
  <1> QED
    BY <1>1, <1>2, <1>3, <1>4, <1>5, <1>6, <1>7, <1>8, <1>9, <1>10, <1>11, <1>12,
       <1>13, <1>14, <1>15, <1>16, <1>17, <1>18, <1>19
       DEF Next, Load, Finish, Function, Terminated

(* At every moment the bar has the lock where it touches Python objects,   *)
(* has not where it waits or works for itself, and has its thread state to *)
(* acquire the lock with, whatever is loaded and called and whenever       *)
(* threads take the lock (GIL_scoped).                                     *)
THEOREM LockIsHeld == Spec => []LockHeld
  <1>1. Spec => []LockInv
    BY LockInit, LockStep, PTL DEF Spec
  <1>2. LockInv => LockHeld
    BY DEF LockInv
  <1> QED
    BY <1>1, <1>2, PTL

----------------------------------------------------------------------------
(* Sizes of sets of holders *)

Bit(b) == IF b THEN 1 ELSE 0

(* A set that changes in at most one element. *)
LEMMA OneReplaced ==
    ASSUME NEW A, NEW B, NEW s, IsFiniteSet(A), B \ {s} = A \ {s}
    PROVE  /\ IsFiniteSet(B)
           /\ Cardinality(B) = Cardinality(A) - Bit(s \in A) + Bit(s \in B)
  <1>1. /\ IsFiniteSet(A \ {s})
        /\ Cardinality(A \ {s}) = IF s \in A THEN Cardinality(A) - 1
                                             ELSE Cardinality(A)
    BY FS_RemoveElement
  <1>2. /\ IsFiniteSet((A \ {s}) \cup {s})
        /\ Cardinality((A \ {s}) \cup {s}) = Cardinality(A \ {s}) + 1
    BY <1>1, FS_AddElement
  <1>3. Cardinality(A) \in Nat
    BY FS_CardinalityType
  <1>4. CASE s \in B
    <2>1. B = (A \ {s}) \cup {s}
      BY <1>4
    <2> QED
      BY <1>1, <1>2, <1>3, <1>4, <2>1 DEF Bit
  <1>5. CASE s \notin B
    <2>1. B = A \ {s}
      BY <1>5
    <2> QED
      BY <1>1, <1>3, <1>5, <2>1 DEF Bit
  <1> QED
    BY <1>4, <1>5

LEMMA OneOrNone ==
    ASSUME NEW S, NEW x
    PROVE  IsFiniteSet(S \cap {x}) /\ Cardinality(S \cap {x}) = Bit(x \in S)
  <1>1. CASE x \in S
    <2>1. S \cap {x} = {x}
      BY <1>1
    <2> QED
      BY <1>1, <2>1, FS_Singleton DEF Bit
  <1>2. CASE x \notin S
    <2>1. S \cap {x} = {}
      BY <1>2
    <2> QED
      BY <1>2, <2>1, FS_EmptySet DEF Bit
  <1> QED
    BY <1>1, <1>2

(* A tag before each element changes no number. *)
LEMMA Tagged ==
    ASSUME NEW tag, NEW S, IsFiniteSet(S)
    PROVE  LET T == {<<tag, e>> : e \in S}
           IN  IsFiniteSet(T) /\ Cardinality(T) = Cardinality(S)
  <1> DEFINE T == {<<tag, e>> : e \in S}
             f == [e \in S |-> <<tag, e>>]
  <1>1. f \in [S -> T] /\ \A t \in T : \E e \in S : f[e] = t
    OBVIOUS
  <1>2. \A a, b \in S : f[a] = f[b] => a = b
    OBVIOUS
  <1>3. f \in Surjection(S, T)
    BY <1>1 DEF Surjection
  <1>4. f \in Injection(S, T)
    BY <1>1, <1>2 DEF Injection, IsInjective
  <1>5. ExistsBijection(S, T)
    BY <1>3, <1>4 DEF ExistsBijection, Bijection
  <1> QED
    BY <1>5, FS_Bijection

LEMMA DisjointUnion ==
    ASSUME NEW S, NEW T, IsFiniteSet(S), IsFiniteSet(T), S \cap T = {}
    PROVE  /\ IsFiniteSet(S \cup T)
           /\ Cardinality(S \cup T) = Cardinality(S) + Cardinality(T)
  <1>1. Cardinality(S) \in Nat /\ Cardinality(T) \in Nat
    BY FS_CardinalityType
  <1>2. Cardinality(S \cap T) = 0
    BY FS_EmptySet
  <1>3. /\ IsFiniteSet(S \cup T)
        /\ Cardinality(S \cup T) =
             Cardinality(S) + Cardinality(T) - Cardinality(S \cap T)
    BY FS_Union
  <1> QED
    BY <1>1, <1>2, <1>3

----------------------------------------------------------------------------
(* References *)

HasFn(o)    == {c \in Python : fn[c] = o}
InModule(o) == {t \in Slots : attr[t] = o}

(* The references to an object, by those who hold them: None is counted as *)
(* if the module sys held nothing, since what it holds is given back.      *)
Refs(o) ==
    Cardinality(HasFn(o)) + Cardinality(InModule(o))
    + Bit(o \in temps) + Bit(o \in kept) + Bit(o = "x" /\ "pos" \in temps)

CountTyped ==
    /\ cur \in Callable \cup {Nothing}
    /\ attr \in [Slots -> Python \cup {Nothing}]
    /\ fn \in [Callable -> Callable \cup {Nothing}]
    /\ temps \subseteq Object /\ kept \subseteq View
    /\ event \in View \cup {Nothing} /\ live \subseteq View
    /\ answer \in Answers \cup {Nothing}
    /\ count \in [Object -> Int] /\ error \in BOOLEAN

(* What the temporary wrappers hold at each place. *)
TempInv ==
    /\ pc \in {"load", "import", "leave_load", "idle", "args", "leave", "free"}
          => temps = {}
    /\ pc = "getattr" => temps = {"module"}
    /\ pc = "running" => temps \subseteq View \cup {"pos"}
    /\ pc = "args" /\ Role[cur] = "click" => event # Nothing

(* A callable that is not loaded has no function yet. *)
FreshInv ==
    pc \in Loading =>
       \A i \in 1..Len(Order) :
          i > loaded /\ ~(pc = "leave_load" /\ i = loaded + 1)
             => fn[Order[i]] = Nothing

Balance == \A o \in Object : count[o] = Refs(o)

CountInv == CountTyped /\ TempInv /\ FreshInv /\ Balance

LEMMA HoldersFinite ==
    \A o : /\ IsFiniteSet(HasFn(o)) /\ Cardinality(HasFn(o)) \in Nat
           /\ IsFiniteSet(InModule(o)) /\ Cardinality(InModule(o)) \in Nat
  <1> TAKE o
  <1>1. HasFn(o) \in SUBSET Python /\ InModule(o) \in SUBSET Slots
    BY DEF HasFn, InModule
  <1> QED
    BY <1>1, FiniteParts, FS_Subset, FS_CardinalityType

LEMMA RefsNat == \A o : Refs(o) \in Nat
  BY HoldersFinite DEF Refs, Bit

(* Only functions are held by callables and modules. *)
LEMMA NoFunction ==
    ASSUME CountTyped, NEW o \in Object \ Callable
    PROVE  Cardinality(HasFn(o)) = 0 /\ Cardinality(InModule(o)) = 0
  <1>1. o # Nothing
    BY Names
  <1>2. HasFn(o) = {} /\ InModule(o) = {}
    BY <1>1, Names DEF HasFn, InModule, CountTyped
  <1> QED
    BY <1>2, FS_EmptySet

LEMMA TupleCount ==
    ASSUME CountTyped, Balance
    PROVE  count["pos"] = Bit("pos" \in temps)
  <1>1. "pos" \in Object \ Callable /\ "pos" \notin View
    BY Names DEF Special
  <1>2. count["pos"] = Refs("pos")
    BY <1>1 DEF Balance
  <1> QED
    BY <1>1, <1>2, NoFunction DEF Refs, Bit, CountTyped

(* What an operation does to one count. *)
LEMMA Counted ==
    ASSUME NEW n \in [Object -> Int], NEW S
    PROVE  /\ More(n, S) \in [Object -> Int]
           /\ Less(n, S) \in [Object -> Int]
           /\ \A o \in Object : More(n, S)[o] = n[o] + Bit(o \in S)
           /\ \A o \in Object : Less(n, S)[o] = n[o] - Bit(o \in S)
  BY DEF More, Less, Bit

(* All temporaries are destroyed, the items of a tuple with the tuple. *)
LEMMA TemporariesDestroyed ==
    ASSUME CountTyped, Balance
    PROVE  /\ Destroyed(count, temps) \in [Object -> Int]
           /\ \A o \in Object :
                 Destroyed(count, temps)[o] =
                   count[o] - Bit(o \in temps) - Bit(o = "x" /\ "pos" \in temps)
  <1> DEFINE left == Less(count, temps)
  <1>1. /\ left \in [Object -> Int]
        /\ \A o \in Object : left[o] = count[o] - Bit(o \in temps)
    BY Counted DEF CountTyped
  <1>2. "pos" \in Object /\ count["pos"] = Bit("pos" \in temps)
    BY TupleCount, Names DEF Special
  <1> HIDE DEF left
  <1>3. CASE "pos" \in temps
    <2>1. count["pos"] > 0 /\ left["pos"] = 0
      BY <1>1, <1>2, <1>3 DEF Bit
    <2>2. Destroyed(count, temps) = Less(left, {"x"})
      BY <2>1 DEF Destroyed, left
    <2>3. /\ Less(left, {"x"}) \in [Object -> Int]
          /\ \A o \in Object : Less(left, {"x"})[o] = left[o] - Bit(o \in {"x"})
      BY <1>1, Counted
    <2> QED
      BY <1>1, <1>3, <2>2, <2>3 DEF Bit, CountTyped
  <1>4. CASE "pos" \notin temps
    <2>1. ~(count["pos"] > 0)
      BY <1>2, <1>4 DEF Bit
    <2>2. Destroyed(count, temps) = left
      BY <2>1 DEF Destroyed, left
    <2> QED
      BY <1>1, <1>4, <2>2 DEF Bit, CountTyped
  <1> QED
    BY <1>3, <1>4

(* Dropping what is not the tuple drops nothing else. *)
LEMMA OneDestroyed ==
    ASSUME NEW n \in [Object -> Int], NEW o, o # "pos"
    PROVE  Destroyed(n, {o}) = Less(n, {o})
  <1>1. "pos" \in Object
    BY Names DEF Special
  <1>2. Less(n, {o})["pos"] = n["pos"]
    BY <1>1 DEF Less
  <1> QED
    BY <1>1, <1>2 DEF Destroyed

LEMMA SameRefs ==
    ASSUME Balance, UNCHANGED <<fn, attr, temps, kept, count>>
    PROVE  Balance'
  BY DEF Balance, Refs, HasFn, InModule

LEMMA CountInit == Init => CountInv
  <1> SUFFICES ASSUME Init PROVE CountInv
    OBVIOUS
  <1> USE DEF Init
  <1>1. CountTyped
    <2>1. Order[1] \in Callable
      BY OrderFacts
    <2>2. /\ attr \in [Slots -> Python \cup {Nothing}]
          /\ fn \in [Callable -> Callable \cup {Nothing}]
          /\ count \in [Object -> Int]
      OBVIOUS
    <2> QED
      BY <2>1, <2>2 DEF CountTyped
  <1>2. TempInv
    BY DEF TempInv
  <1>3. FreshInv
    BY OrderFacts DEF FreshInv
  <1>4. Balance
    <2> SUFFICES ASSUME NEW o \in Object PROVE count[o] = Refs(o)
      BY DEF Balance
    <2>1. HasFn(o) = {} /\ InModule(o) = {}
      BY Names DEF HasFn, InModule
    <2> QED
      BY <2>1, FS_EmptySet DEF Refs, Bit
  <1> QED
    BY <1>1, <1>2, <1>3, <1>4 DEF CountInv

(* The callable that is being loaded. *)
LEMMA CurrentlyLoaded ==
    ASSUME LockInv, pc \in Loading
    PROVE  /\ loaded \in Nat
           /\ loaded + 1 \in 1..Len(Order) /\ cur = Order[loaded + 1]
           /\ cur \in Callable
           /\ \A i \in 1..Len(Order) : i # loaded + 1 => Order[i] # cur
  <1>1. Len(Order) \in Nat
    BY OrderFacts
  <1>2. /\ loaded \in Nat
        /\ loaded + 1 \in 1..Len(Order) /\ cur = Order[loaded + 1]
    BY <1>1 DEF LockInv, LoadInv
  <1> QED
    BY <1>1, <1>2, OrderFacts

LEMMA DylibLoaded ==
    ASSUME LockInv, CountInv, LoadDylib
    PROVE  CountInv'
  <1> USE DEF CountInv
  <1>1. /\ pc = "load" /\ cur \notin Python /\ cur \in Callable
        /\ fn' = [fn EXCEPT ![cur] = cur]
        /\ loaded' = loaded + 1 /\ pc' \in {"load", "idle"}
        /\ cur' = IF pc' = "load" THEN Order[loaded' + 1] ELSE Nothing
        /\ pc' = "load" => loaded' # Len(Order)
        /\ UNCHANGED <<attr, kept, error, temps, event, live, answer, count>>
    BY CurrentlyLoaded DEF LoadDylib, Loaded, python, call, Loading
  <1>2. CountTyped'
    <2>1. cur' \in Callable \cup {Nothing}
      <3>1. CASE pc' = "load"
        <4>1. loaded' + 1 \in 1..Len(Order)
          BY <1>1, <3>1, CurrentlyLoaded, OrderFacts DEF Loading
        <4> QED
          BY <1>1, <3>1, <4>1, OrderFacts
      <3> QED
        BY <1>1, <3>1
    <2> QED
      BY <1>1, <2>1 DEF CountTyped
  <1>3. TempInv'
    BY <1>1 DEF TempInv
  <1>4. FreshInv'
    <2> SUFFICES ASSUME NEW i \in 1..Len(Order), i > loaded + 1
                 PROVE  fn'[Order[i]] = Nothing
      BY <1>1 DEF FreshInv
    <2>1. i > loaded /\ i # loaded + 1
      BY <1>1, CurrentlyLoaded DEF Loading
    <2>2. Order[i] # cur /\ Order[i] \in Callable
      BY <1>1, <2>1, CurrentlyLoaded, OrderFacts DEF Loading
    <2>3. fn[Order[i]] = Nothing
      BY <1>1, <2>1 DEF FreshInv, Loading
    <2> QED
      BY <1>1, <2>2, <2>3 DEF CountTyped
  <1>5. Balance'
    <2>1. \A o : HasFn(o)' = HasFn(o)
      BY <1>1, Names DEF HasFn, CountTyped
    <2> QED
      BY <1>1, <2>1 DEF Balance, Refs, InModule
  <1> QED
    BY <1>2, <1>3, <1>4, <1>5

LEMMA PythonStarted ==
    ASSUME LockInv, CountInv, StartPython
    PROVE  CountInv'
  <1> USE DEF CountInv
  <1>1. count' = count
    <2>1. "None" \in Object
      BY Names DEF Special
    <2>2. \A n \in [Object -> Int] : Setattr(n, "None") = n
      BY <2>1 DEF Setattr, Borrowed, More, Less
    <2> QED
      BY <2>2 DEF StartPython, StreamsOff, CountTyped
  <1>2. UNCHANGED <<pc, loaded, cur, fn, attr, kept, error, temps, event, live,
                    answer>>
    BY DEF StartPython, python, call
  <1> QED
    BY <1>1, <1>2, SameRefs DEF CountTyped, TempInv, FreshInv

(* The code of a module puts its function in the place of an earlier one. *)
LEMMA ModuleImported ==
    ASSUME LockInv, CountInv, Import
    PROVE  CountInv'
  <1> USE DEF CountInv
  <1> DEFINE s == Slot[cur]
  <1>1. /\ pc = "import" /\ pc' = "getattr" /\ temps = {} /\ temps' = {"module"}
        /\ cur \in Python /\ s \in Slots
        /\ UNCHANGED <<loaded, fn, cur, kept, event, live, answer, error>>
    BY DEF Import, LockInv, LoadInv, Loading, TempInv, known, Slots
  <1>2. "module" \in Object \ Callable /\ "module" # "pos"
    BY Names DEF Special
  <1>3. CASE Inline[cur] \/ attr[s] = Nothing
    <2> DEFINE old == attr[s]
               n1  == Destroyed(count, {old})
               n2  == More(n1, {cur})
    <2>1. attr' = [attr EXCEPT ![s] = cur] /\ count' = More(n2, {"module"})
      BY <1>3 DEF Import, Wrapped
    <2>2. n1 = Less(count, {old})
      <3>1. old # "pos"
        BY <1>1, CallbacksAssumption, Names DEF CountTyped, Special, Nothing
      <3> QED
        BY <3>1, OneDestroyed DEF CountTyped
    <2> HIDE DEF n1, n2
    <2>3. /\ n1 \in [Object -> Int]
          /\ \A o \in Object : n1[o] = count[o] - Bit(o \in {old})
      BY <2>2, Counted DEF CountTyped
    <2>4. /\ n2 \in [Object -> Int]
          /\ \A o \in Object : n2[o] = n1[o] + Bit(o \in {cur})
      BY <2>3, Counted DEF n2
    <2>5. /\ count' \in [Object -> Int]
          /\ \A o \in Object : count'[o] = n2[o] + Bit(o \in {"module"})
      BY <2>1, <2>4, Counted
    <2>6. \A o : Cardinality(InModule(o))' =
                   Cardinality(InModule(o)) - Bit(old = o) + Bit(cur = o)
      <3> TAKE o
      <3>1. /\ InModule(o)' \ {s} = InModule(o) \ {s}
            /\ s \in InModule(o) <=> old = o
            /\ s \in InModule(o)' <=> cur = o
        BY <1>1, <2>1 DEF InModule, CountTyped
      <3>2. Cardinality(InModule(o)') =
              Cardinality(InModule(o)) - Bit(s \in InModule(o))
              + Bit(s \in InModule(o)')
        BY <3>1, HoldersFinite, OneReplaced
      <3> QED
        BY <3>1, <3>2 DEF Bit
    <2>7. \A o : HasFn(o)' = HasFn(o)
      BY <1>1 DEF HasFn
    <2>8. Balance'
      <3> SUFFICES ASSUME NEW o \in Object PROVE count'[o] = Refs(o)'
        BY DEF Balance
      <3>1. /\ count[o] = Refs(o) /\ count[o] \in Int
            /\ count'[o] = count[o] - Bit(old = o) + Bit(cur = o) + Bit(o = "module")
        BY <2>3, <2>4, <2>5 DEF Balance, CountTyped, Bit
      <3>2. Refs(o)' = Cardinality(HasFn(o)) + Cardinality(InModule(o))
                       - Bit(old = o) + Bit(cur = o)
                       + Bit(o = "module") + Bit(o \in kept) + 0
        BY <1>1, <2>6, <2>7, HoldersFinite DEF Refs, Bit
      <3>3. Refs(o) = Cardinality(HasFn(o)) + Cardinality(InModule(o))
                      + 0 + Bit(o \in kept) + 0
        BY <1>1 DEF Refs, Bit
      <3> QED
        BY <3>1, <3>2, <3>3, HoldersFinite DEF Bit
    <2>9. CountTyped'
      BY <1>1, <1>2, <2>1, <2>5 DEF CountTyped
    <2> QED
      BY <1>1, <2>8, <2>9 DEF TempInv, FreshInv, Loading
  <1>4. CASE ~(Inline[cur] \/ attr[s] = Nothing)
    <2>1. attr' = attr /\ count' = More(count, {"module"})
      BY <1>4 DEF Import, Wrapped
    <2>2. /\ count' \in [Object -> Int]
          /\ \A o \in Object : count'[o] = count[o] + Bit(o \in {"module"})
      BY <2>1, Counted DEF CountTyped
    <2>3. \A o : HasFn(o)' = HasFn(o) /\ InModule(o)' = InModule(o)
      BY <1>1, <2>1 DEF HasFn, InModule
    <2>4. Balance'
      <3> SUFFICES ASSUME NEW o \in Object PROVE count'[o] = Refs(o)'
        BY DEF Balance
      <3>1. Refs(o)' = Refs(o) + Bit(o = "module")
        BY <1>1, <2>3, HoldersFinite DEF Refs, Bit
      <3> QED
        BY <2>2, <3>1 DEF Balance, Bit
    <2>5. CountTyped'
      BY <1>1, <1>2, <2>1, <2>2 DEF CountTyped
    <2> QED
      BY <1>1, <2>4, <2>5 DEF TempInv, FreshInv, Loading
  <1> QED
    BY <1>3, <1>4

(* The callable gets a reference to the function, the wrapper of the module *)
(* gives back its own.                                                     *)
LEMMA FunctionGot ==
    ASSUME LockInv, CountInv, GetAttr
    PROVE  CountInv'
  <1> USE DEF CountInv
  <1> DEFINE new == attr[Slot[cur]]
             n1  == More(count, {new})
  <1>1. /\ pc = "getattr" /\ pc' = "leave_load"
        /\ temps = {"module"} /\ temps' = {}
        /\ fn' = [fn EXCEPT ![cur] = new]
        /\ UNCHANGED <<loaded, cur, attr, kept, event, live, answer, error>>
    BY DEF GetAttr, TempInv, python
  <1>2. /\ loaded + 1 \in 1..Len(Order) /\ cur = Order[loaded + 1]
        /\ loaded \in Nat /\ cur \in Python /\ cur \in Callable
        /\ \A i \in 1..Len(Order) : i # loaded + 1 => Order[i] # cur
        /\ new \in Callable \cup {Nothing}
    BY <1>1, CurrentlyLoaded, Names
       DEF Loading, LockInv, LoadInv, CountTyped, Slots
  <1>3. fn[cur] = Nothing
    BY <1>1, <1>2 DEF FreshInv, Loading
  <1>4. count' = Less(n1, {"module"})
    BY <1>1, OneDestroyed, Counted DEF GetAttr, Wrapped, CountTyped
  <1> HIDE DEF n1
  <1>5. /\ n1 \in [Object -> Int]
        /\ \A o \in Object : n1[o] = count[o] + Bit(o \in {new})
    BY Counted DEF CountTyped, n1
  <1>6. /\ count' \in [Object -> Int]
        /\ \A o \in Object : count'[o] = n1[o] - Bit(o \in {"module"})
    BY <1>4, <1>5, Counted
  <1>7. \A o \in Object :
           Cardinality(HasFn(o)') = Cardinality(HasFn(o)) + Bit(new = o)
    <2> TAKE o \in Object
    <2>1. /\ HasFn(o)' \ {cur} = HasFn(o) \ {cur}
          /\ cur \notin HasFn(o)
          /\ cur \in HasFn(o)' <=> new = o
      BY <1>1, <1>2, <1>3, Names DEF HasFn, CountTyped
    <2>2. Cardinality(HasFn(o)') =
            Cardinality(HasFn(o)) - Bit(cur \in HasFn(o)) + Bit(cur \in HasFn(o)')
      BY <2>1, HoldersFinite, OneReplaced
    <2> QED
      BY <2>1, <2>2, HoldersFinite DEF Bit
  <1>8. \A o : InModule(o)' = InModule(o)
    BY <1>1 DEF InModule
  <1>9. Balance'
    <2> SUFFICES ASSUME NEW o \in Object PROVE count'[o] = Refs(o)'
      BY DEF Balance
    <2>1. /\ count[o] = Refs(o) /\ count[o] \in Int
          /\ count'[o] = count[o] + Bit(new = o) - Bit(o = "module")
      BY <1>5, <1>6 DEF Balance, CountTyped, Bit
    <2>2. Refs(o)' = Cardinality(HasFn(o)) + Bit(new = o)
                     + Cardinality(InModule(o)) + 0 + Bit(o \in kept) + 0
      BY <1>1, <1>7, <1>8, HoldersFinite DEF Refs, Bit
    <2>3. Refs(o) = Cardinality(HasFn(o)) + Cardinality(InModule(o))
                    + Bit(o = "module") + Bit(o \in kept) + 0
      BY <1>1 DEF Refs, Bit
    <2> QED
      BY <2>1, <2>2, <2>3, HoldersFinite DEF Bit
  <1>10. CountTyped'
    BY <1>1, <1>2, <1>6 DEF CountTyped
  <1>11. FreshInv'
    <2> SUFFICES ASSUME NEW i \in 1..Len(Order), i > loaded, i # loaded + 1
                 PROVE  fn'[Order[i]] = Nothing
      BY <1>1 DEF FreshInv
    <2>1. Order[i] # cur /\ Order[i] \in Callable
      BY <1>2, OrderFacts
    <2>2. fn[Order[i]] = Nothing
      BY <1>1 DEF FreshInv, Loading
    <2> QED
      BY <1>1, <2>1, <2>2 DEF CountTyped
  <1> QED
    BY <1>1, <1>9, <1>10, <1>11 DEF TempInv

LEMMA LoadLeft ==
    ASSUME LockInv, CountInv, LeaveLoad
    PROVE  CountInv'
  <1> USE DEF CountInv
  <1>1. /\ pc = "leave_load" /\ loaded' = loaded + 1 /\ pc' \in {"load", "idle"}
        /\ cur' = IF pc' = "load" THEN Order[loaded' + 1] ELSE Nothing
        /\ pc' = "load" => loaded' # Len(Order)
        /\ UNCHANGED <<attr, fn, kept, error, temps, event, live, answer, count>>
    BY DEF LeaveLoad, Loaded, python, call
  <1>2. cur' \in Callable \cup {Nothing}
    <2>1. CASE pc' = "load"
      <3>1. loaded' + 1 \in 1..Len(Order)
        BY <1>1, <2>1, CurrentlyLoaded, OrderFacts DEF Loading
      <3> QED
        BY <1>1, <2>1, <3>1, OrderFacts
    <2> QED
      BY <1>1, <2>1
  <1>3. FreshInv'
    <2> SUFFICES ASSUME NEW i \in 1..Len(Order), i > loaded + 1
                 PROVE  fn[Order[i]] = Nothing
      BY <1>1 DEF FreshInv
    <2>1. i > loaded /\ i # loaded + 1
      BY <1>1, CurrentlyLoaded DEF Loading
    <2> QED
      BY <1>1, <2>1 DEF FreshInv, Loading
  <1> QED
    BY <1>1, <1>2, <1>3, SameRefs DEF CountTyped, TempInv

(* The view and the tuple of a click, with the number in the tuple. *)
LEMMA ArgsPassed ==
    ASSUME LockInv, CountInv, PassArgs
    PROVE  CountInv'
  <1> USE DEF CountInv
  <1>1. /\ pc = "args" /\ pc' = "running" /\ temps = {} /\ cur \in Python
        /\ UNCHANGED <<loaded, fn, attr, kept, cur, event, live, answer, error>>
    BY DEF PassArgs, TempInv, known, python
  <1>2. CASE Role[cur] # "click"
    <2>1. UNCHANGED <<count, temps>>
      BY <1>2 DEF PassArgs
    <2> QED
      BY <1>1, <2>1, SameRefs DEF CountTyped, TempInv, FreshInv, Loading
  <1>3. CASE Role[cur] = "click"
    <2> DEFINE n1 == More(count, {event})
               n2 == More(n1, {"x"})
               n3 == More(n2, {"pos"})
               n4 == More(n3, {"x"})
    <2>1. count' = Less(n4, {"x"}) /\ temps' = {event, "pos"}
      BY <1>3 DEF PassArgs, Packed, Wrapped
    <2>2. /\ event \in View /\ event \in Object /\ event \notin Special
          /\ "pos" \in Object
      BY <1>1, <1>3, Names DEF TempInv, CountTyped, Special
    <2> HIDE DEF n1, n2, n3, n4
    <2>3. /\ n1 \in [Object -> Int]
          /\ \A o \in Object : n1[o] = count[o] + Bit(o \in {event})
      BY Counted DEF CountTyped, n1
    <2>4. /\ n2 \in [Object -> Int]
          /\ \A o \in Object : n2[o] = n1[o] + Bit(o \in {"x"})
      BY <2>3, Counted DEF n2
    <2>5. /\ n3 \in [Object -> Int]
          /\ \A o \in Object : n3[o] = n2[o] + Bit(o \in {"pos"})
      BY <2>4, Counted DEF n3
    <2>6. /\ n4 \in [Object -> Int]
          /\ \A o \in Object : n4[o] = n3[o] + Bit(o \in {"x"})
      BY <2>5, Counted DEF n4
    <2>7. /\ count' \in [Object -> Int]
          /\ \A o \in Object : count'[o] = n4[o] - Bit(o \in {"x"})
      BY <2>1, <2>6, Counted
    <2>8. \A o : HasFn(o)' = HasFn(o) /\ InModule(o)' = InModule(o)
      BY <1>1 DEF HasFn, InModule
    <2>9. Balance'
      <3> SUFFICES ASSUME NEW o \in Object PROVE count'[o] = Refs(o)'
        BY DEF Balance
      <3>1. /\ count[o] = Refs(o) /\ count[o] \in Int
            /\ count'[o] = count[o] + Bit(o = event) + Bit(o = "pos") + Bit(o = "x")
        BY <2>3, <2>4, <2>5, <2>6, <2>7 DEF Balance, CountTyped, Bit
      <3>2. Bit(o \in temps') = Bit(o = event) + Bit(o = "pos")
        BY <2>1, <2>2 DEF Bit, Special
      <3>3. Refs(o)' = Cardinality(HasFn(o)) + Cardinality(InModule(o))
                       + Bit(o = event) + Bit(o = "pos") + Bit(o \in kept)
                       + Bit(o = "x")
        BY <1>1, <2>1, <2>8, <3>2, HoldersFinite DEF Refs, Bit
      <3>4. Refs(o) = Cardinality(HasFn(o)) + Cardinality(InModule(o))
                      + 0 + Bit(o \in kept) + 0
        BY <1>1 DEF Refs, Bit
      <3> QED
        BY <3>1, <3>3, <3>4, HoldersFinite DEF Bit
    <2>10. CountTyped'
      BY <1>1, <2>1, <2>2, <2>7 DEF CountTyped
    <2>11. TempInv'
      BY <1>1, <2>1, <2>2 DEF TempInv
    <2> QED
      BY <1>1, <2>9, <2>10, <2>11 DEF FreshInv, Loading
  <1> QED
    BY <1>2, <1>3

LEMMA ViewKept ==
    ASSUME LockInv, CountInv, Keep
    PROVE  CountInv'
  <1> USE DEF CountInv
  <1>1. /\ pc' = pc /\ event \in temps \ kept /\ kept' = kept \cup {event}
        /\ count' = More(count, {event})
        /\ UNCHANGED <<loaded, fn, attr, temps, cur, event, live, answer, error>>
    BY DEF Keep, known, call
  <1>2. event \in View
    BY <1>1, Names DEF CountTyped
  <1>3. /\ count' \in [Object -> Int]
        /\ \A o \in Object : count'[o] = count[o] + Bit(o \in {event})
    BY <1>1, Counted DEF CountTyped
  <1>4. \A o : HasFn(o)' = HasFn(o) /\ InModule(o)' = InModule(o)
    BY <1>1 DEF HasFn, InModule
  <1>5. Balance'
    <2> SUFFICES ASSUME NEW o \in Object PROVE count'[o] = Refs(o)'
      BY DEF Balance
    <2>1. Bit(o \in kept') = Bit(o \in kept) + Bit(o \in {event})
      BY <1>1 DEF Bit
    <2>2. Refs(o)' = Refs(o) + Bit(o \in {event})
      BY <1>1, <1>4, <2>1, HoldersFinite DEF Refs, Bit
    <2> QED
      BY <1>3, <2>2 DEF Balance
  <1>6. CountTyped'
    BY <1>1, <1>2, <1>3 DEF CountTyped
  <1> QED
    BY <1>1, <1>5, <1>6 DEF TempInv, FreshInv, Loading

LEMMA ViewForgotten ==
    ASSUME LockInv, CountInv, NEW v \in View, Forget(v)
    PROVE  CountInv'
  <1> USE DEF CountInv
  <1>1. v # "pos" /\ v \in Object
    BY Names DEF Special
  <1>2. /\ pc' = pc /\ v \in kept /\ kept' = kept \ {v}
        /\ count' = Less(count, {v})
        /\ UNCHANGED <<loaded, fn, attr, temps, cur, event, live, answer, error>>
    BY <1>1, OneDestroyed DEF Forget, known, call, CountTyped
  <1>3. /\ count' \in [Object -> Int]
        /\ \A o \in Object : count'[o] = count[o] - Bit(o \in {v})
    BY <1>2, Counted DEF CountTyped
  <1>4. \A o : HasFn(o)' = HasFn(o) /\ InModule(o)' = InModule(o)
    BY <1>2 DEF HasFn, InModule
  <1>5. Balance'
    <2> SUFFICES ASSUME NEW o \in Object PROVE count'[o] = Refs(o)'
      BY DEF Balance
    <2>1. Bit(o \in kept') = Bit(o \in kept) - Bit(o \in {v})
      BY <1>2 DEF Bit
    <2>2. Refs(o)' = Refs(o) - Bit(o \in {v})
      BY <1>2, <1>4, <2>1, HoldersFinite DEF Refs, Bit
    <2> QED
      BY <1>3, <2>2 DEF Balance
  <1>6. CountTyped'
    BY <1>2, <1>3 DEF CountTyped
  <1> QED
    BY <1>2, <1>5, <1>6 DEF TempInv, FreshInv, Loading

LEMMA Returned ==
    ASSUME LockInv, CountInv, NEW a \in Answers, Returns(a)
    PROVE  CountInv'
  <1> USE DEF CountInv
  <1> DEFINE r == AnswerObject(a)
  <1>1. /\ pc = "running" /\ pc' = "answer"
        /\ temps \subseteq View \cup {"pos"} /\ temps' = temps \cup {r}
        /\ count' = More(count, {r}) /\ answer' = a
        /\ UNCHANGED <<loaded, fn, attr, kept, cur, event, live, error>>
    BY DEF Returns, Running, TempInv, Wrapped, known, python
  <1>2. r \in Object /\ r \notin temps /\ r # "pos"
    BY <1>1, Names DEF AnswerObject, Special
  <1>3. /\ count' \in [Object -> Int]
        /\ \A o \in Object : count'[o] = count[o] + Bit(o \in {r})
    BY <1>1, Counted DEF CountTyped
  <1>4. \A o : HasFn(o)' = HasFn(o) /\ InModule(o)' = InModule(o)
    BY <1>1 DEF HasFn, InModule
  <1> HIDE DEF r
  <1>5. Balance'
    <2> SUFFICES ASSUME NEW o \in Object PROVE count'[o] = Refs(o)'
      BY DEF Balance
    <2>1. Bit(o \in temps') = Bit(o \in temps) + Bit(o \in {r})
      BY <1>1, <1>2 DEF Bit
    <2>2. Refs(o)' = Refs(o) + Bit(o \in {r})
      BY <1>1, <1>2, <1>4, <2>1, HoldersFinite DEF Refs, Bit
    <2> QED
      BY <1>3, <2>2 DEF Balance
  <1>6. CountTyped'
    BY <1>1, <1>2, <1>3 DEF CountTyped
  <1> QED
    BY <1>1, <1>5, <1>6 DEF TempInv, FreshInv, Loading

LEMMA Converted ==
    ASSUME LockInv, CountInv, Convert
    PROVE  CountInv'
  <1> USE DEF CountInv
  <1>1. /\ pc = "answer" /\ pc' = "leave" /\ temps' = {} /\ answer' = Nothing
        /\ count' = Destroyed(count, temps) /\ error' \in BOOLEAN
        /\ UNCHANGED <<loaded, fn, attr, kept, cur, event, live>>
    BY DEF Convert, known
  <1>2. /\ count' \in [Object -> Int]
        /\ \A o \in Object :
              count'[o] =
                count[o] - Bit(o \in temps) - Bit(o = "x" /\ "pos" \in temps)
    BY <1>1, TemporariesDestroyed
  <1>3. \A o : HasFn(o)' = HasFn(o) /\ InModule(o)' = InModule(o)
    BY <1>1 DEF HasFn, InModule
  <1>4. Balance'
    <2> SUFFICES ASSUME NEW o \in Object PROVE count'[o] = Refs(o)'
      BY DEF Balance
    <2>1. Refs(o)' =
            Refs(o) - Bit(o \in temps) - Bit(o = "x" /\ "pos" \in temps)
      BY <1>1, <1>3, HoldersFinite DEF Refs, Bit
    <2> QED
      BY <1>2, <2>1 DEF Balance
  <1>5. CountTyped'
    BY <1>1, <1>2 DEF CountTyped
  <1> QED
    BY <1>1, <1>4, <1>5 DEF TempInv, FreshInv, Loading

(* exit() gives back one reference for each handler that has a function.   *)
LEMMA HandlersDestroyed ==
    ASSUME LockInv, CountInv, DestroyHandlers
    PROVE  CountInv'
  <1> USE DEF CountInv
  <1> DEFINE Gone(o) == {c \in Handlers : fn[c] = o}
  <1>1. /\ pc' = "ended"
        /\ count' = [o \in Object |-> count[o] - Cardinality(Gone(o))]
        /\ fn' = [c \in Callable |-> IF c \in Handlers THEN Nothing ELSE fn[c]]
        /\ UNCHANGED <<loaded, attr, kept, temps, cur, event, live, answer, error>>
    BY DEF DestroyHandlers, python, call
  <1>2. \A o \in Object :
           /\ Cardinality(Gone(o)) \in Nat
           /\ Cardinality(HasFn(o)') = Cardinality(HasFn(o)) - Cardinality(Gone(o))
    <2> TAKE o \in Object
    <2>1. Gone(o) \subseteq HasFn(o)
      BY DEF HasFn, Handlers
    <2>2. HasFn(o)' = HasFn(o) \ Gone(o)
      BY <1>1, Names DEF HasFn, CountTyped
    <2>3. HasFn(o) \cap Gone(o) = Gone(o)
      BY <2>1
    <2>4. IsFiniteSet(HasFn(o))
      BY HoldersFinite
    <2>5. Cardinality(Gone(o)) \in Nat
      BY <2>1, <2>4, FS_Subset, FS_CardinalityType
    <2>6. Cardinality(HasFn(o) \ Gone(o)) =
            Cardinality(HasFn(o)) - Cardinality(HasFn(o) \cap Gone(o))
      BY <2>4, FS_Difference
    <2> QED
      BY <2>2, <2>3, <2>5, <2>6
  <1> HIDE DEF Gone
  <1>3. \A o : InModule(o)' = InModule(o)
    BY <1>1 DEF InModule
  <1>4. Balance'
    <2> SUFFICES ASSUME NEW o \in Object PROVE count'[o] = Refs(o)'
      BY DEF Balance
    <2>1. count'[o] = Refs(o) - Cardinality(Gone(o))
      BY <1>1 DEF Balance
    <2>2. Refs(o)' = Refs(o) - Cardinality(Gone(o))
      BY <1>1, <1>2, <1>3, HoldersFinite DEF Refs, Bit
    <2> QED
      BY <2>1, <2>2
  <1>5. CountTyped'
    <2>1. count' \in [Object -> Int]
      BY <1>1, <1>2 DEF CountTyped
    <2> QED
      BY <1>1, <2>1 DEF CountTyped
  <1> QED
    BY <1>1, <1>4, <1>5 DEF TempInv, FreshInv, Loading

LEMMA CountStep == LockInv /\ CountInv /\ [Next]_vars => CountInv'
  <1> SUFFICES ASSUME LockInv, CountInv, [Next]_vars PROVE CountInv'
    OBVIOUS
  <1> USE DEF CountInv
  <1>1. CASE EnterLoad
    <2>1. /\ pc = "load" /\ pc' = "import"
          /\ UNCHANGED <<loaded, fn, attr, kept, error, temps, event, live, answer,
                         cur, count>>
      BY <1>1 DEF EnterLoad, rest, known, python, call
    <2> QED
      BY <2>1, SameRefs DEF CountTyped, TempInv, FreshInv, Loading
  <1>2. CASE LoadFails \/ Raises \/ WrongAnswer \/ FailsElsewhere \/ Exec
    <2>1. /\ pc' \in Ending
          /\ UNCHANGED <<loaded, fn, attr, kept, error, temps, event, live, answer,
                         cur, count>>
      BY <1>2 DEF LoadFails, Raises, WrongAnswer, FailsElsewhere, Exec, Goes, Ending,
                  rest, known, python, call
    <2> QED
      BY <2>1, SameRefs DEF CountTyped, TempInv, FreshInv, Loading, Ending
  <1>3. ASSUME NEW c \in Callable, Call(c)
        PROVE  CountInv'
    <2>1. /\ pc = "idle" /\ pc' = "args" /\ cur' = c
          /\ UNCHANGED <<loaded, fn, attr, kept, error, temps, answer, count>>
      BY <1>3 DEF Call, known, python
    <2>2. /\ event' \in View \cup {Nothing} /\ live' \subseteq View
          /\ Role[c] = "click" => event' \in View
      BY <1>3 DEF Call, CountTyped
    <2>3. TempInv'
      BY <2>1, <2>2, Names DEF TempInv
    <2> QED
      BY <2>1, <2>2, <2>3, SameRefs DEF CountTyped, FreshInv, Loading
  <1>4. CASE CallNative
    <2>1. /\ pc = "args" /\ pc' = "leave"
          /\ UNCHANGED <<loaded, fn, attr, kept, error, temps, event, live, answer,
                         cur, count>>
      BY <1>4 DEF CallNative, Goes, rest, known, python, call
    <2> QED
      BY <2>1, SameRefs DEF CountTyped, TempInv, FreshInv, Loading
  <1>5. CASE Leave
    <2>1. /\ pc = "leave" /\ pc' \in {"idle", "free"} /\ cur' = Nothing
          /\ UNCHANGED <<loaded, fn, attr, kept, error, temps, event, live, answer,
                         count>>
      BY <1>5 DEF Leave, known, python, call
    <2> QED
      BY <2>1, SameRefs DEF CountTyped, TempInv, FreshInv, Loading
  <1>6. CASE FreeEvent
    <2>1. /\ pc = "free" /\ pc' = "idle" /\ event' = Nothing
          /\ live' = live \ {event}
          /\ UNCHANGED <<loaded, fn, attr, kept, error, temps, answer, cur, count>>
      BY <1>6 DEF FreeEvent, known, python
    <2> QED
      BY <2>1, SameRefs DEF CountTyped, TempInv, FreshInv, Loading
  <1>7. CASE HandlesError
    <2>1. /\ pc' = pc /\ error' = FALSE
          /\ UNCHANGED <<loaded, fn, attr, kept, temps, event, live, answer, cur,
                         count>>
      BY <1>7 DEF HandlesError, known, call
    <2> QED
      BY <2>1, SameRefs DEF CountTyped, TempInv, FreshInv
  <1>8. CASE \/ Yield \/ Resume \/ ThreadTakes \/ ThreadGives
             \/ UNCHANGED vars
    <2>1. UNCHANGED <<pc, loaded, fn, attr, kept, error, temps, event, live, answer,
                      cur, count>>
      BY <1>8 DEF Yield, Resume, ThreadTakes, ThreadGives, vars, rest, known, python,
                  call
    <2> QED
      BY <2>1, SameRefs DEF CountTyped, TempInv, FreshInv
  <1> QED
    BY <1>1, <1>2, <1>3, <1>4, <1>5, <1>6, <1>7, <1>8, DylibLoaded, PythonStarted,
       ModuleImported, FunctionGot, LoadLeft, ArgsPassed, ViewKept, ViewForgotten,
       Returned, Converted, HandlersDestroyed
       DEF Next, Load, Finish, Function, Terminated

LEMMA Invariance == Spec => [](LockInv /\ CountInv)
  BY LockInit, LockStep, CountInit, CountStep, PTL DEF Spec

(* Type correctness: no count falls below zero either. *)
THEOREM Types == Spec => []TypeOK
  <1>1. LockInv /\ CountInv => TypeOK
    <2> SUFFICES ASSUME LockInv, CountInv PROVE TypeOK
      OBVIOUS
    <2>1. \A o \in Object : count[o] \in Nat
      BY RefsNat DEF CountInv, Balance
    <2>2. count \in [Object -> Nat]
      BY <2>1 DEF CountInv, CountTyped
    <2>3. loaded \in 0..Len(Order)
      BY DEF LockInv, LoadInv
    <2> QED
      BY <2>2, <2>3
         DEF TypeOK, LockInv, LockTyped, Place, CountInv, CountTyped
  <1> QED
    BY <1>1, Invariance, PTL

LEMMA SysAttrsFinite == IsFiniteSet(SysAttrs) /\ Cardinality(SysAttrs) \in Nat
  <1>1. SysAttrs = ((({} \cup {"stdin"}) \cup {"stdout"}) \cup {"__stdin__"})
                   \cup {"__stdout__"}
    BY DEF SysAttrs
  <1> QED
    BY <1>1, FS_EmptySet, FS_AddElement, FS_CardinalityType

(* Who holds an object, part by part. *)
LEMMA HoldersCounted ==
    ASSUME CountTyped, Balance, initialized \in BOOLEAN, NEW o \in Object
    PROVE  Cardinality(Holders(o)) =
             Refs(o) + (IF o = "None" /\ initialized THEN Cardinality(SysAttrs)
                                                    ELSE 0)
  <1> DEFINE U == {u \in {"pos"} : o = "x" /\ count[u] > 0}
             V == {b \in SysAttrs : o = "None" /\ initialized}
             H1 == {<<"callable", c>> : c \in HasFn(o)}
             H2 == {<<"module", t>> : t \in InModule(o)}
             H3 == {<<"wrapper", t>> : t \in temps \cap {o}}
             H4 == {<<"kept", v>> : v \in kept \cap {o}}
             H5 == {<<"tuple", t>> : t \in U}
             H6 == {<<"sys", a>> : a \in V}
  <1>1. Holders(o) = ((((H1 \cup H2) \cup H3) \cup H4) \cup H5) \cup H6
    BY DEF Holders, HasFn, InModule
  <1>2. /\ IsFiniteSet(U)
        /\ Cardinality(U) = Bit(o = "x" /\ "pos" \in temps)
    <2>1. CASE o = "x" /\ count["pos"] > 0
      <3>1. U = {"pos"} /\ "pos" \in temps
        BY <2>1, TupleCount DEF Bit
      <3> QED
        BY <2>1, <3>1, FS_Singleton DEF Bit
    <2>2. CASE ~(o = "x" /\ count["pos"] > 0)
      <3>1. U = {} /\ ~(o = "x" /\ "pos" \in temps)
        BY <2>2, TupleCount DEF Bit
      <3> QED
        BY <3>1, FS_EmptySet DEF Bit
    <2> QED
      BY <2>1, <2>2
  <1>3. /\ IsFiniteSet(V)
        /\ Cardinality(V) = IF o = "None" /\ initialized THEN Cardinality(SysAttrs)
                                                         ELSE 0
    <2>1. V = IF o = "None" /\ initialized THEN SysAttrs ELSE {}
      OBVIOUS
    <2> QED
      BY <2>1, SysAttrsFinite, FS_EmptySet
  <1> HIDE DEF U, V
  <1>4. /\ IsFiniteSet(H1) /\ Cardinality(H1) = Cardinality(HasFn(o))
        /\ IsFiniteSet(H2) /\ Cardinality(H2) = Cardinality(InModule(o))
    BY HoldersFinite, Tagged
  <1>5. /\ IsFiniteSet(H3) /\ Cardinality(H3) = Bit(o \in temps)
        /\ IsFiniteSet(H4) /\ Cardinality(H4) = Bit(o \in kept)
    <2>1. /\ IsFiniteSet(temps \cap {o})
          /\ Cardinality(temps \cap {o}) = Bit(o \in temps)
      BY OneOrNone
    <2>2. /\ IsFiniteSet(kept \cap {o})
          /\ Cardinality(kept \cap {o}) = Bit(o \in kept)
      BY OneOrNone
    <2>3. IsFiniteSet(H3) /\ Cardinality(H3) = Cardinality(temps \cap {o})
      BY <2>1, Tagged
    <2>4. IsFiniteSet(H4) /\ Cardinality(H4) = Cardinality(kept \cap {o})
      BY <2>2, Tagged
    <2> QED
      BY <2>1, <2>2, <2>3, <2>4
  <1>6. /\ IsFiniteSet(H5) /\ Cardinality(H5) = Cardinality(U)
        /\ IsFiniteSet(H6) /\ Cardinality(H6) = Cardinality(V)
    BY <1>2, <1>3, Tagged
  <1>7. /\ H1 \cap H2 = {} /\ (H1 \cup H2) \cap H3 = {}
        /\ ((H1 \cup H2) \cup H3) \cap H4 = {}
        /\ (((H1 \cup H2) \cup H3) \cup H4) \cap H5 = {}
        /\ ((((H1 \cup H2) \cup H3) \cup H4) \cup H5) \cap H6 = {}
    OBVIOUS
  <1> HIDE DEF H1, H2, H3, H4, H5, H6
  <1>8. /\ IsFiniteSet(H1 \cup H2)
        /\ Cardinality(H1 \cup H2) = Cardinality(H1) + Cardinality(H2)
    BY <1>4, <1>7, DisjointUnion
  <1>9. /\ IsFiniteSet((H1 \cup H2) \cup H3)
        /\ Cardinality((H1 \cup H2) \cup H3) = Cardinality(H1 \cup H2) + Cardinality(H3)
    BY <1>5, <1>7, <1>8, DisjointUnion
  <1>10. /\ IsFiniteSet(((H1 \cup H2) \cup H3) \cup H4)
         /\ Cardinality(((H1 \cup H2) \cup H3) \cup H4) =
              Cardinality((H1 \cup H2) \cup H3) + Cardinality(H4)
    BY <1>5, <1>7, <1>9, DisjointUnion
  <1>11. /\ IsFiniteSet((((H1 \cup H2) \cup H3) \cup H4) \cup H5)
         /\ Cardinality((((H1 \cup H2) \cup H3) \cup H4) \cup H5) =
              Cardinality(((H1 \cup H2) \cup H3) \cup H4) + Cardinality(H5)
    BY <1>6, <1>2, <1>7, <1>10, DisjointUnion
  <1>12. Cardinality(Holders(o)) =
           Cardinality((((H1 \cup H2) \cup H3) \cup H4) \cup H5) + Cardinality(H6)
    BY <1>1, <1>6, <1>3, <1>7, <1>11, DisjointUnion
  <1> QED
    BY <1>2, <1>3, <1>4, <1>5, <1>6, <1>8, <1>9, <1>10, <1>11, <1>12 DEF Refs

(* As many references are counted as are held, after any loads, calls,     *)
(* answers and failures, in whatever order views are kept and forgotten,   *)
(* with the exception of those to None that initialize_interpreter takes   *)
(* for granted (Object::Object, Object::free, tuple::create_tuple).        *)
THEOREM ReferencesBalanced == Spec => []CountsBalanced
  <1>1. LockInv /\ CountInv => CountsBalanced
    <2> SUFFICES ASSUME LockInv, CountInv, NEW o \in Object
                 PROVE  count[o] = Cardinality(Holders(o))
                          - (IF o = "None" /\ initialized THEN Cardinality(SysAttrs)
                                                         ELSE 0)
      BY DEF CountsBalanced
    <2>1. Cardinality(Holders(o)) =
            Refs(o) + (IF o = "None" /\ initialized THEN Cardinality(SysAttrs)
                                                   ELSE 0)
      BY HoldersCounted DEF LockInv, LockTyped, CountInv
    <2>2. count[o] = Refs(o) /\ Refs(o) \in Nat
      BY RefsNat DEF CountInv, Balance
    <2> QED
      BY <2>1, <2>2, SysAttrsFinite
  <1> QED
    BY <1>1, Invariance, PTL
=============================================================================
