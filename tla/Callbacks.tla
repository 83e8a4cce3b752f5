----------------------------- MODULE Callbacks -----------------------------
(***************************************************************************)
(* The callables of the configuration, Python functions and functions of   *)
(* dynamic libraries: how they are loaded, called and destroyed, with the  *)
(* lock of the Python interpreter and the reference counts of its objects. *)
(*                                                                         *)
(* The bar has one thread, but Python code may start threads of its own.   *)
(* They run when they get the lock; the evaluation loop of CPython lets    *)
(* them have it while a function of the bar is running.                    *)
(*                                                                         *)
(* A count is that of CPython, without the references CPython itself has   *)
(* at the start. Those who hold a reference are the wrappers of the bar    *)
(* (class Object), the modules, the tuples, and what Python code keeps.    *)
(***************************************************************************)
EXTENDS Integers, Sequences, FiniteSets

CONSTANTS
    Order,      \* the callables, in the order in which they are loaded
    Language,   \* "python" or "dylib"
    Role,       \* "click", "update" or "print"
    Inline,     \* whether the configuration has the code itself
    Slot,       \* module and function name of each
    View        \* the memory views there may be at a time

Callable == {Order[i] : i \in DOMAIN Order}
Python   == {c \in Callable : Language[c] = "python"}
Slots    == {Slot[c] : c \in Python}

(* Function objects go by the callable whose code defined them. "x" is the *)
(* number in a tuple "pos"; all numbers and tuples passed are alike.       *)
Object == Callable \cup View \cup {"None", "module", "pos", "x", "answer"}

Nothing == "nothing"

ASSUME CallbacksAssumption ==
    /\ Order \in Seq(Callable) /\ Callable # {}
    /\ \A i, j \in DOMAIN Order : Order[i] = Order[j] => i = j
    /\ Language \in [Callable -> {"python", "dylib"}]
    /\ Role \in [Callable -> {"click", "update", "print"}]
    /\ Inline \in [Callable -> BOOLEAN]
    /\ DOMAIN Slot = Callable
    /\ IsFiniteSet(View) /\ View \cap Callable = {}
    /\ {"None", "module", "pos", "x", "answer", Nothing}
          \cap (Callable \cup View) = {}

VARIABLES
    initialized,   \* Py_IsInitialized()
    gil,           \* who holds the lock: "nobody", "main" or "thread"
    p,             \* the thread state of the main interpreter: "null", "saved"
    scope,         \* whether the GIL_scoped of the moment has an interpreter
    yielded,       \* the evaluation loop waits to have the lock back
    pc,            \* where the process is
    loaded,        \* number of callables loaded
    cur,           \* the callable called
    attr,          \* the function each module has under its name
    fn,            \* the function each callable has
    temps,         \* what temporary wrappers hold
    kept,          \* the views Python code keeps
    event,         \* the view on the click event that is handled
    live,          \* the views whose memory was not freed
    answer,        \* what the function returned
    count,         \* reference counts
    error          \* an exception is pending

lock   == <<gil, p, scope, yielded>>
known  == <<initialized, loaded, fn>>
python == <<attr, kept, error>>
call   == <<temps, event, live, answer>>
rest   == <<known, python, call, cur, count>>
vars   == <<lock, pc, rest>>

Init ==
    /\ initialized = FALSE
    /\ gil = "nobody" /\ p = "null" /\ scope = FALSE /\ yielded = FALSE
    /\ pc = "load" /\ loaded = 0 /\ cur = Order[1]
    /\ attr = [s \in Slots |-> Nothing] /\ fn = [c \in Callable |-> Nothing]
    /\ temps = {} /\ kept = {} /\ event = Nothing /\ live = {} /\ answer = Nothing
    /\ count = [o \in Object |-> 0] /\ error = FALSE

Goes(to) == pc' = to /\ UNCHANGED <<lock, rest>>

----------------------------------------------------------------------------
(* The lock: Interpreter and GIL_scoped *)

(* PyEval_RestoreThread waits for the lock. Only the first acquire of      *)
(* several takes it.                                                       *)
Acquire ==
    /\ IF p = "null"
       THEN scope' = FALSE /\ UNCHANGED <<gil, p>>
       ELSE /\ gil = "nobody"
            /\ gil' = "main" /\ p' = "null" /\ scope' = TRUE
    /\ UNCHANGED yielded

(* ~GIL_scoped *)
Release_StateLost ==
    /\ gil' = IF scope THEN "nobody" ELSE gil
    /\ scope' = FALSE /\ UNCHANGED <<p, yielded>>
Release ==
    /\ gil' = IF scope THEN "nobody" ELSE gil
    /\ p' = IF scope THEN "saved" ELSE p
    /\ scope' = FALSE /\ UNCHANGED yielded

(* load_libpython3 ends with a release, so that whoever comes first finds  *)
(* the lock free.                                                          *)
HolderAfterStart_Main == "main"
HolderAfterStart == "nobody"

----------------------------------------------------------------------------
(* Counts *)

(* One reference more, or one fewer, for each of some objects. *)
More(n, S) == [o \in Object |-> IF o \in S THEN n[o] + 1 ELSE n[o]]
Less(n, S) == [o \in Object |-> IF o \in S THEN n[o] - 1 ELSE n[o]]

(* Py_DECREF for each: a tuple that nobody has any longer drops its items. *)
Destroyed(n, S) ==
    LET left == Less(n, S)
    IN  IF n["pos"] > 0 /\ left["pos"] = 0 THEN Less(left, {"x"}) ELSE left

(* An Object made from what a function of CPython returned takes over the  *)
(* reference it was given.                                                 *)
Wrapped_CountedAgain(n, o) == More(More(n, {o}), {o})
Wrapped(n, o) == More(n, {o})

(* PyTuple_Pack counts its items; the wrappers they came in are destroyed. *)
Packed_ItemsNotCounted(n) == Less(Wrapped(Wrapped(n, "x"), "pos"), {"x"})
Packed(n) == Less(More(Wrapped(Wrapped(n, "x"), "pos"), {"x"}), {"x"})

(* Object::get_none wraps None and counts nothing, the module sys counts    *)
(* its attribute, and the wrapper gives back a reference.                  *)
SysAttrs == {"stdin", "stdout", "__stdin__", "__stdout__"}
Borrowed(n, o) == n
Setattr(n, o) == Less(More(Borrowed(n, o), {o}), {o})
StreamsOff(n) ==
    Setattr(Setattr(Setattr(Setattr(n, "None"), "None"), "None"), "None")

----------------------------------------------------------------------------
(* Loading: Callable_base::Callable_base *)

Loaded ==
    /\ loaded' = loaded + 1
    /\ IF loaded' = Len(Order)
       THEN pc' = "idle" /\ cur' = Nothing
       ELSE pc' = "load" /\ cur' = Order[loaded' + 1]

(* dload_symbol; the function is its address, nothing is counted. *)
LoadDylib ==
    /\ pc = "load" /\ cur \notin Python
    /\ fn' = [fn EXCEPT ![cur] = cur]
    /\ Loaded
    /\ UNCHANGED <<lock, python, call, initialized, count>>

(* load_libpython3, on the first callable that is a Python function. *)
StartPython ==
    /\ pc = "load" /\ cur \in Python
    /\ ~initialized
    /\ initialized' = TRUE
    /\ gil' = HolderAfterStart
    /\ p' = IF HolderAfterStart = "nobody" THEN "saved" ELSE "null"
    /\ count' = StreamsOff(count)
    /\ UNCHANGED <<python, call, scope, yielded, pc, loaded, cur, fn>>

EnterLoad ==
    /\ pc = "load" /\ cur \in Python
    /\ initialized
    /\ Acquire
    /\ pc' = "import"
    /\ UNCHANGED rest

(* Code of the configuration is executed in the module of its name, also   *)
(* when there is one already, and defines the function anew. A module that *)
(* is imported is executed the first time only.                            *)
Import ==
    /\ pc = "import" /\ ~yielded
    /\ LET s == Slot[cur] IN
         IF Inline[cur] \/ attr[s] = Nothing
         THEN /\ attr' = [attr EXCEPT ![s] = cur]
              /\ count' = Wrapped(More(Destroyed(count, {attr[s]}), {cur}), "module")
         ELSE count' = Wrapped(count, "module") /\ UNCHANGED attr
    /\ temps' = {"module"}
    /\ pc' = "getattr"
    /\ UNCHANGED <<lock, known, cur, kept, event, live, answer, error>>

(* getattr; the wrapper of the function is moved into the callable and     *)
(* that of the module destroyed.                                           *)
GetAttr ==
    /\ pc = "getattr"
    /\ fn' = [fn EXCEPT ![cur] = attr[Slot[cur]]]
    /\ count' = Destroyed(Wrapped(count, attr[Slot[cur]]), temps)
    /\ temps' = {}
    /\ pc' = "leave_load"
    /\ UNCHANGED <<lock, python, initialized, loaded, cur, event, live, answer>>

LeaveLoad ==
    /\ pc = "leave_load"
    /\ Release
    /\ Loaded
    /\ UNCHANGED <<python, call, initialized, count, fn>>

(* No such library or module, code that raises, no such function, or it    *)
(* cannot be called: errx, Py_Err.                                         *)
LoadFails ==
    /\ \/ pc = "load" /\ cur \notin Python
       \/ pc \in {"import", "getattr"} /\ ~yielded
    /\ Goes("exit")

----------------------------------------------------------------------------
(* Calling: Callable::operator() *)

NeedsLock(c) == c \in Python

(* A click event comes with its memory, to which the view will point. *)
Call(c) ==
    /\ pc = "idle"
    /\ IF Role[c] = "click"
       THEN \E v \in View : /\ v \notin live /\ count[v] = 0
                            /\ event' = v /\ live' = live \cup {v}
       ELSE UNCHANGED <<event, live>>
    /\ IF NeedsLock(c) THEN Acquire ELSE UNCHANGED lock
    /\ cur' = c
    /\ pc' = "args"
    /\ UNCHANGED <<known, python, count, temps, answer>>

(* CFunction::operator(): it gets pointers to the arguments. *)
CallNative ==
    /\ pc = "args" /\ cur \notin Python
    /\ Goes("leave")

(* Each argument is converted: the instance to a memory view, positions to *)
(* tuples.                                                                 *)
PassArgs ==
    /\ pc = "args" /\ cur \in Python
    /\ IF Role[cur] = "click"
       THEN /\ count' = Packed(Wrapped(count, event))
            /\ temps' = {event, "pos"}
       ELSE UNCHANGED <<count, temps>>
    /\ pc' = "running"
    /\ UNCHANGED <<lock, known, python, cur, event, live, answer>>

(* The evaluation loop, now and then, while code of the bar is running. *)
Yield ==
    /\ pc \in {"import", "running"} /\ gil = "main" /\ ~yielded
    /\ gil' = "nobody" /\ yielded' = TRUE
    /\ UNCHANGED <<p, scope, pc, rest>>

Resume ==
    /\ yielded /\ gil = "nobody"
    /\ gil' = "main" /\ yielded' = FALSE
    /\ UNCHANGED <<p, scope, pc, rest>>

Running == pc = "running" /\ ~yielded

(* The function stores the view it was given. *)
Keep ==
    /\ Running
    /\ event \in temps \ kept
    /\ kept' = kept \cup {event} /\ count' = More(count, {event})
    /\ UNCHANGED <<lock, known, call, pc, cur, attr, error>>

(* The function, or a thread, drops a view. *)
Forget(v) ==
    /\ Running \/ gil = "thread"
    /\ v \in kept
    /\ kept' = kept \ {v} /\ count' = Destroyed(count, {v})
    /\ UNCHANGED <<lock, known, call, pc, cur, attr, error>>

(* An exception that is pending is gone once the function handles one. *)
HandlesError ==
    /\ Running /\ error
    /\ error' = FALSE
    /\ UNCHANGED <<lock, known, call, pc, cur, attr, kept, count>>

(* The number may be one that does not fit. *)
Answers == {"none", "number", "too_large", "text"}
AnswerObject(a) == IF a = "none" THEN "None" ELSE "answer"

Returns(a) ==
    /\ Running /\ ~error
    /\ answer' = a
    /\ count' = Wrapped(count, AnswerObject(a))
    /\ temps' = temps \cup {AnswerObject(a)}
    /\ pc' = "answer"
    /\ UNCHANGED <<lock, known, python, cur, event, live>>

(* A call that is made with an exception pending fails as well: the        *)
(* function returns a result, CPython finds the exception.                 *)
Raises ==
    /\ Running
    /\ Goes("exit")

(* check_for_int, None::None, check_for_str *)
Wanted(role) ==
    CASE role = "click"  -> {"number", "too_large"}
      [] role = "update" -> {"none"}
      [] role = "print"  -> {"text"}

(* The answer becomes the C++ value, then all temporaries are destroyed. A *)
(* number that does not fit leaves the value undefined and the exception   *)
(* pending.                                                                *)
Convert ==
    /\ pc = "answer"
    /\ answer \in Wanted(Role[cur])
    /\ error' = (error \/ answer = "too_large")
    /\ count' = Destroyed(count, temps)
    /\ temps' = {} /\ answer' = Nothing
    /\ pc' = "leave"
    /\ UNCHANGED <<lock, known, cur, attr, kept, event, live>>

WrongAnswer ==
    /\ pc = "answer"
    /\ answer \notin Wanted(Role[cur])
    /\ Goes("exit")

Leave ==
    /\ pc = "leave"
    /\ Release
    /\ pc' = IF event = Nothing THEN "idle" ELSE "free"
    /\ cur' = Nothing
    /\ UNCHANGED <<known, python, call, count>>

(* json_object_put(event) *)
FreeEvent ==
    /\ pc = "free"
    /\ live' = live \ {event} /\ event' = Nothing
    /\ pc' = "idle"
    /\ UNCHANGED <<lock, known, python, cur, count, temps, answer>>

----------------------------------------------------------------------------
(* The end of the process, and the threads *)

(* Some other part of the bar fails, or the bar executes itself. *)
FailsElsewhere ==
    /\ pc = "idle"
    /\ Goes("exit")

Exec ==
    /\ pc = "idle"
    /\ Goes("ended")

(* exit() destroys the static array of click handlers, and nothing else    *)
(* that has a callable.                                                    *)
Handlers == {c \in Python : Role[c] = "click"}

DestroyHandlers ==
    /\ pc = "exit"
    /\ count' = [o \in Object |->
                   count[o] - Cardinality({c \in Handlers : fn[c] = o})]
    /\ fn' = [c \in Callable |-> IF c \in Handlers THEN Nothing ELSE fn[c]]
    /\ pc' = "ended"
    /\ UNCHANGED <<lock, python, call, initialized, loaded, cur>>

Imported == \E s \in Slots : attr[s] # Nothing

ThreadTakes ==
    /\ Imported /\ pc # "ended"
    /\ gil = "nobody"
    /\ gil' = "thread"
    /\ UNCHANGED <<p, scope, yielded, pc, rest>>

ThreadGives ==
    /\ gil = "thread" /\ pc # "ended"
    /\ gil' = "nobody"
    /\ UNCHANGED <<p, scope, yielded, pc, rest>>

Terminated == pc = "ended" /\ UNCHANGED vars

Load == LoadDylib \/ StartPython \/ EnterLoad \/ Import \/ GetAttr \/ LeaveLoad
Finish == CallNative \/ PassArgs \/ Convert \/ WrongAnswer \/ Leave \/ FreeEvent
Function ==
    \/ Keep \/ HandlesError \/ Raises
    \/ \E a \in Answers : Returns(a)
    \/ \E v \in View : Forget(v)

Next ==
    \/ Load \/ LoadFails
    \/ \E c \in Callable : Call(c)
    \/ Finish \/ Function
    \/ Yield \/ Resume \/ ThreadTakes \/ ThreadGives
    \/ FailsElsewhere \/ Exec \/ DestroyHandlers
    \/ Terminated

Spec == Init /\ [][Next]_vars

(* The bar goes on where no Python code is running, and the evaluation     *)
(* loop lets others have the lock. A thread that wants the lock again and  *)
(* again while it is free now and then gets it. Nothing is assumed of      *)
(* functions: they need not return.                                        *)
Fairness ==
    /\ WF_vars(Load) /\ WF_vars(Finish) /\ WF_vars(DestroyHandlers)
    /\ WF_vars(Yield) /\ WF_vars(Resume) /\ WF_vars(ThreadGives)
    /\ SF_vars(ThreadTakes)

FairSpec == Spec /\ Fairness

----------------------------------------------------------------------------
(* Type correctness. *)
TypeOK ==
    /\ initialized \in BOOLEAN
    /\ gil \in {"nobody", "main", "thread"} /\ p \in {"null", "saved"}
    /\ scope \in BOOLEAN /\ yielded \in BOOLEAN
    /\ pc \in {"load", "import", "getattr", "leave_load", "idle", "args", "running",
               "answer", "leave", "free", "exit", "ended"}
    /\ loaded \in 0..Len(Order) /\ cur \in Callable \cup {Nothing}
    /\ attr \in [Slots -> Python \cup {Nothing}]
    /\ fn \in [Callable -> Callable \cup {Nothing}]
    /\ temps \subseteq Object /\ kept \subseteq View
    /\ event \in View \cup {Nothing} /\ live \subseteq View
    /\ answer \in Answers \cup {Nothing}
    /\ count \in [Object -> Nat] /\ error \in BOOLEAN

(* Those who hold an object. *)
Holders(o) ==
    {<<"callable", c>> : c \in {d \in Python : fn[d] = o}}
    \cup {<<"module", s>> : s \in {t \in Slots : attr[t] = o}}
    \cup {<<"wrapper", t>> : t \in temps \cap {o}}
    \cup {<<"kept", v>> : v \in kept \cap {o}}
    \cup {<<"tuple", t>> : t \in {u \in {"pos"} : o = "x" /\ count[u] > 0}}
    \cup {<<"sys", a>> : a \in {b \in SysAttrs : o = "None" /\ initialized}}

(* As many references are counted as are held, at every moment, whatever   *)
(* is loaded, called, kept and destroyed: nothing is leaked by a call and  *)
(* nothing that is in use is freed, a function that a second module of the *)
(* same name has replaced included. Only None is short of references, by   *)
(* those initialize_interpreter takes for granted, and never by more.      *)
CountsBalanced ==
    \A o \in Object :
       count[o] = Cardinality(Holders(o))
                  - (IF o = "None" /\ initialized THEN Cardinality(SysAttrs) ELSE 0)

(* The bar touches Python objects with the lock only, and has given it     *)
(* back wherever it waits or works for itself, so that it never waits for  *)
(* a lock it holds; it has the state of its thread to go on with. What it  *)
(* destroys at the end is the exception (python3.hpp says that nothing may *)
(* be called without the lock).                                            *)
InPython ==
    \/ pc \in {"import", "running"} /\ ~yielded
    \/ pc \in {"getattr", "leave_load", "answer"}
    \/ pc \in {"args", "leave"} /\ cur \in Python
LockHeld ==
    /\ InPython => gil = "main" /\ scope
    /\ ~InPython /\ pc # "exit" /\ pc # "ended" => gil # "main"
    /\ ~scope /\ initialized => p = "saved"

(* The threads of Python code are never shut out: neither by a bar that is *)
(* idle nor by one that calls functions all the time or waits for one that *)
(* does not return.                                                        *)
ThreadRuns == Imported ~> (gil = "thread" \/ pc = "ended")
=============================================================================
