---------------------------- MODULE ModuleConfig ----------------------------
(***************************************************************************)
(* From the configuration file to the blocks of the bar: the order is      *)
(* read and resolved, then the blocks are made one after the other. Making *)
(* a block takes its settings out of the configuration and registers its   *)
(* click handler in an array of a fixed size.                              *)
(*                                                                         *)
(* The settings of a name are a set: "own" stands for what Base and the    *)
(* block itself read (format, short_format, update_interval, ...),         *)
(* "handler" for click_event_handler, "callbacks" for the two functions of *)
(* the custom block, and "extra" for anything else. No object, true and {} *)
(* give the empty set.                                                     *)
(***************************************************************************)
EXTENDS Naturals, Sequences, FiniteSets, SequencesExt

CONSTANTS
    Known,         \* the names of default_order
    Custom,        \* the one of them the default bar leaves out
    Default,       \* the default bar, a sequence of the others
    Unknown,       \* a name that is not known
    NoOrder,       \* a file without "order"
    Settings,      \* the sets of settings a name may have
    OrderBuffer,   \* size of the buffer for the order
    CallbackCnt,   \* CALLBACK_CNT
    MaxOrder       \* bound: length of the order in the file

ASSUME ModuleConfigAssumption ==
    /\ IsFiniteSet(Known) /\ Custom \in Known /\ Unknown \notin Known
    /\ NoOrder \notin Seq(Known \cup {Unknown})
    /\ Default \in Seq(Known \ {Custom}) /\ Len(Default) <= Cardinality(Known)
    /\ Settings \subseteq SUBSET {"own", "handler", "callbacks", "extra"}
    /\ OrderBuffer \in Nat /\ Cardinality(Known) <= OrderBuffer /\ MaxOrder \in Nat
    /\ CallbackCnt \in Nat /\ Cardinality(Known) <= CallbackCnt

VARIABLES
    file,       \* the settings in the file
    config,     \* the settings left in memory
    disabled,   \* the names set to false
    order,      \* "order" in the file, or NoOrder
    status,     \* "parsed", "making", "done", "failed"
    todo,       \* the names of the blocks still to make
    modules,    \* the blocks made
    callbacks   \* the names of the registered handlers

vars == <<file, config, disabled, order, status, todo, modules, callbacks>>
input == <<file, disabled, order>>

Orders == UNION {[1..n -> Known \cup {Unknown}] : n \in 0..MaxOrder}

Init ==
    /\ file \in [Known -> Settings] /\ config = file
    /\ disabled \in SUBSET Known
    /\ order \in Orders \cup {NoOrder}
    /\ status = "parsed"
    /\ todo = <<>> /\ modules = <<>> /\ callbacks = <<>>

----------------------------------------------------------------------------
(* get_module_order: what does not fit is cut off. *)
Ordered_Whole == IF order = NoOrder THEN Default ELSE order
Ordered ==
    IF order = NoOrder THEN Default
    ELSE SubSeq(order, 1, IF Len(order) < OrderBuffer THEN Len(order) ELSE OrderBuffer)

(* Every name is looked up before the first block is made. *)
ResolveOrder ==
    /\ status = "parsed"
    /\ Unknown \notin ToSet(Ordered)
    /\ todo' = Ordered
    /\ status' = "making"
    /\ UNCHANGED <<input, config, modules, callbacks>>

UnknownName ==
    /\ status = "parsed"
    /\ Unknown \in ToSet(Ordered)
    /\ status' = "failed"
    /\ UNCHANGED <<input, config, todo, modules, callbacks>>

(* is_block_printer_enabled *)
SkipDisabled ==
    /\ status = "making" /\ todo # <<>>
    /\ Head(todo) \in disabled
    /\ todo' = Tail(todo)
    /\ UNCHANGED <<input, config, status, modules, callbacks>>

(* What get_user_specified_property_str_impl2 deletes; the rest is printed *)
(* with the block.                                                         *)
TakenOut_HandlerKept(n) == {"own"} \cup (IF n = Custom THEN {"callbacks"} ELSE {})
TakenOut_NoCallbacks(n) == {"own", "handler"}
TakenOut(n) == {"own", "handler"} \cup (IF n = Custom THEN {"callbacks"} ELSE {})

(* add_click_event_handler *)
Registered(n) ==
    IF "handler" \in config[n] THEN Append(callbacks, n) ELSE callbacks

(* A factory and the constructor of Base. The custom block cannot do       *)
(* without its callbacks.                                                  *)
Make(n) ==
    /\ n = Custom => "callbacks" \in config[n]
    /\ modules' = Append(modules,
          [name |-> n, own |-> "own" \in config[n],
           events |-> "handler" \in config[n], extra |-> config[n] \ TakenOut(n)])
    /\ callbacks' = Registered(n)
    /\ config' = [config EXCEPT ![n] = @ \ TakenOut(n)]

MakeModule ==
    /\ status = "making" /\ todo # <<>>
    /\ Head(todo) \notin disabled
    /\ Make(Head(todo))
    /\ todo' = Tail(todo)
    /\ UNCHANGED <<input, status>>

(* errx in a factory: a callback that is missing or cannot be loaded, a    *)
(* device that is not there, a value out of range.                         *)
MakeFails ==
    /\ status = "making" /\ todo # <<>>
    /\ Head(todo) \notin disabled
    /\ status' = "failed"
    /\ UNCHANGED <<input, config, todo, modules, callbacks>>

(* free_config; the bar starts. *)
Done ==
    /\ status = "making" /\ todo = <<>>
    /\ status' = "done"
    /\ UNCHANGED <<input, config, todo, modules, callbacks>>

Terminated == status \in {"done", "failed"} /\ UNCHANGED vars

Next ==
    \/ ResolveOrder \/ UnknownName
    \/ SkipDisabled \/ MakeModule \/ MakeFails
    \/ Done \/ Terminated

Spec == Init /\ [][Next]_vars

----------------------------------------------------------------------------
Module == [name : Known, own : BOOLEAN, events : BOOLEAN,
           extra : SUBSET {"callbacks", "extra"}]

(* Type correctness. *)
TypeOK ==
    /\ \A n \in Known : config[n] \subseteq file[n]
    /\ disabled \subseteq Known
    /\ status \in {"parsed", "making", "done", "failed"}
    /\ todo \in Seq(Known) /\ Len(todo) + Len(modules) <= OrderBuffer
    /\ modules \in Seq(Module) /\ callbacks \in Seq(Known)

(* The handler of a name is registered once however often the order has    *)
(* the name, so the array of callbacks, which is filled without a check    *)
(* and has room for each known name, is not overrun; and the first         *)
(* callback with the name of a block is the one of that block.             *)
HandlersFit == IsInjective(callbacks) /\ Len(callbacks) <= CallbackCnt

(* Making a block does not disturb the settings of another one: the first  *)
(* block of a name is made with all the file says of it, whatever blocks   *)
(* were made before. Those after it have only the extra properties.        *)
FirstAsConfigured ==
    \A k \in DOMAIN modules :
       LET m     == modules[k]
           first == \A j \in 1..(k - 1) : modules[j].name # m.name
       IN  /\ m.own = (first /\ "own" \in file[m.name])
           /\ m.events = (first /\ "handler" \in file[m.name])
           /\ m.extra = file[m.name] \ TakenOut(m.name)

(* A bar that starts has the blocks of the order that are not disabled, in *)
(* the order of the file, and at most one of them is the custom block.     *)
BarAsOrdered ==
    status = "done" =>
       /\ \E place \in [DOMAIN modules -> DOMAIN Ordered] :
             /\ \A k \in DOMAIN modules : modules[k].name = Ordered[place[k]]
             /\ \A j, k \in DOMAIN modules : j < k => place[j] < place[k]
             /\ \A p \in DOMAIN Ordered :
                   Ordered[p] \notin disabled <=> \E k \in DOMAIN modules : place[k] = p
       /\ \A j, k \in DOMAIN modules :
             modules[j].name = Custom /\ modules[k].name = Custom => j = k
=============================================================================
