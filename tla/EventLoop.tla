----------------------------- MODULE EventLoop -----------------------------
(***************************************************************************)
(* The main loop of swaystatus together with the kernel objects it waits   *)
(* on and the swaybar process at the other end of its pipes.               *)
(*                                                                         *)
(* One process runs: it installs its signal handlers, builds its modules,  *)
(* writes the header, arms a timer and then polls stdin and the timer      *)
(* until a SIGUSR1 has been seen, upon which it executes itself again.     *)
(* Every expiration of the timer prints one line, a block per module;      *)
(* every readable stdin brings clicks whose handlers may ask a block to    *)
(* update or to reload.                                                    *)
(*                                                                         *)
(* Clicks are whole events here; how they are cut out of the byte stream   *)
(* is the subject of module ClickStream.                                   *)
(***************************************************************************)
EXTENDS Naturals, Sequences

CONSTANTS
    NBlocks,      \* number of modules, printed in the order 1..NBlocks
    UINT32_MAX,   \* largest value of cycle_cnt and interval (2^32 - 1 in the code)
    Configs,      \* configurations a start of the process may read
    Periodic,     \* whether a timer may go on: not with --interval=0, a one-shot
    Faults,       \* the failures of the environment that are considered
    QueueMax,     \* bound: clicks waiting in stdin
    ReadCap,      \* clicks one call of the stdin handler can read (4096 bytes)
    PipeMax       \* lines swaybar may leave unread before a write blocks

Block   == 1..NBlocks
Request == {"update", "reload"}
Fault   == {"config", "update", "handler", "stdin", "stdout", "exec"}

ConfigType == [interval : [Block -> 0..UINT32_MAX], handled : SUBSET Block]

ASSUME ConstantsAssumption ==
    /\ NBlocks \in Nat
    /\ UINT32_MAX \in Nat
    /\ Configs \subseteq ConfigType
    /\ Configs # {}
    /\ Periodic \subseteq BOOLEAN
    /\ Faults \subseteq Fault
    /\ QueueMax \in Nat
    /\ ReadCap \in Nat \ {0}
    /\ PipeMax \in Nat \ {0}

VARIABLES
    (* the process *)
    pc,                \* where the process is
    reload_requested,  \* set by the SIGUSR1 handler
    is_reload,         \* the --reload argument
    periodic,          \* the --interval argument: whether the timer goes on
    config,            \* what this start read: intervals and click handlers
    cycle_cnt,         \* Base::cycle_cnt of every module
    requested_events,  \* Callback::requested_events of every module
    fds,               \* registered descriptors, in the order of registration
    revents,           \* what poll() reported of each of fds, {} once dispatched
    blk,               \* next module to print
    printed,           \* the output stream including what is not flushed yet
    (* the kernel and swaybar *)
    stdin,             \* clicks written by swaybar and not read yet
    peer,              \* the writing end of stdin
    stdout,            \* the reading end of stdout
    unread,            \* lines swaybar has not read yet
    sent,              \* the output stream as flushed
    armed,             \* the timer runs
    expired,           \* the timer has expirations to be read
    (* observers: how old the text of a block is *)
    fetched,           \* modules updated at least once by this process
    age                \* lines shown since the last update of a module

process == <<pc, reload_requested, is_reload, periodic, config, cycle_cnt,
             requested_events, fds, revents, blk, printed>>
kernel  == <<stdin, peer, stdout, unread, sent, armed, expired>>
shown   == <<fetched, age>>
vars    == <<process, kernel, shown>>

----------------------------------------------------------------------------
(* The output as swaybar parses it: a header, an infinite array, and in it *)
(* one array per line.                                                     *)

Stream == {"none", "header", "array", "line", "malformed"}

Extend(s, token) ==
    CASE token = "header" /\ s = "none"   -> "header"
      [] token = "["      /\ s = "header" -> "array"
      [] token = "begin"  /\ s = "array"  -> "line"
      [] token = "block"  /\ s = "line"   -> "line"
      [] token = "end"    /\ s = "line"   -> "array"
      [] OTHER                            -> "malformed"

(* The process is gone for good. *)
Stopped == pc \in {"exited", "killed"}

Exit == pc' = "exited"

Init ==
    /\ pc = "start" /\ reload_requested = FALSE /\ is_reload = FALSE
    /\ periodic \in Periodic
    /\ config \in Configs
    /\ cycle_cnt = [b \in Block |-> 0]
    /\ requested_events = [b \in Block |-> {}]
    /\ fds = <<>> /\ revents = <<>> /\ blk = 1
    /\ printed = "none" /\ sent = "none"
    /\ stdin = <<>> /\ peer = "open" /\ stdout = "open" /\ unread = 0
    /\ armed = FALSE /\ expired = FALSE
    /\ fetched = {} /\ age = [b \in Block |-> 0]

----------------------------------------------------------------------------
(* Starting up *)

(* Until here SIGUSR1 has its default disposition. *)
InstallHandlers ==
    /\ pc = "start"
    /\ pc' = "config"
    /\ UNCHANGED <<reload_requested, is_reload, periodic, config, cycle_cnt,
                   requested_events, fds, revents, blk, printed, kernel, shown>>

(* Operators named <Definition>_<Variant> are faulty variants of the       *)
(* definition after them. They are used by no specification: each stands   *)
(* for a slip that one of the properties below is there to catch.          *)

(* The arithmetic of std::uint32_t. *)
Succ32_NoWrap(n) == n + 1
Pred32_Skipped(n) == n

Succ32(n) == IF n = UINT32_MAX THEN 0 ELSE n + 1
Pred32(n) == IF n = 0 THEN UINT32_MAX ELSE n - 1

(* request_polling: descriptors are polled in the order of registration. *)
Register_InFront(fd) == <<fd>> \o fds
Register(fd) == Append(fds, fd)

AfterModules_HeaderAgain == "header"
AfterModules == IF is_reload THEN "arm" ELSE "header"

(* Reading the configuration, polling stdin and constructing the modules;  *)
(* a --reload start goes on with the array its predecessor opened.         *)
MakeModules ==
    /\ pc = "config"
    /\ config' \in Configs
    /\ cycle_cnt' = [b \in Block |-> Pred32(config'.interval[b])]
    /\ fds' = Register("stdin")
    /\ pc' = AfterModules
    /\ UNCHANGED <<reload_requested, is_reload, periodic, requested_events,
                   revents, blk, printed, kernel, shown>>

(* An unreadable file, an unknown module, a value out of range, a handler  *)
(* that cannot be loaded: every one of them is fatal.                      *)
ConfigFails ==
    /\ "config" \in Faults
    /\ pc = "config"
    /\ Exit
    /\ UNCHANGED <<reload_requested, is_reload, periodic, config, cycle_cnt,
                   requested_events, fds, revents, blk, printed, kernel, shown>>

(* flush(): all that was printed reaches the pipe, or the write blocks. *)
Flush ==
    /\ stdout = "open"
    /\ unread < PipeMax
    /\ unread' = unread + 1
    /\ sent' = printed'

PrintHeader ==
    /\ pc = "header"
    /\ printed' = Extend(printed, "header")
    /\ Flush
    /\ pc' = "open"
    /\ UNCHANGED <<reload_requested, is_reload, periodic, config, cycle_cnt,
                   requested_events, fds, revents, blk, stdin, peer, stdout,
                   armed, expired, shown>>

OpenArray ==
    /\ pc = "open"
    /\ printed' = Extend(printed, "[")
    /\ Flush
    /\ pc' = "arm"
    /\ UNCHANGED <<reload_requested, is_reload, periodic, config, cycle_cnt,
                   requested_events, fds, revents, blk, stdin, peer, stdout,
                   armed, expired, shown>>

ArmTimer ==
    /\ pc = "arm"
    /\ armed' = TRUE
    /\ fds' = Register("timer")
    /\ pc' = "poll"
    /\ UNCHANGED <<reload_requested, is_reload, periodic, config, cycle_cnt,
                   requested_events, revents, blk, printed, stdin, peer, stdout,
                   unread, sent, expired, shown>>

----------------------------------------------------------------------------
(* Polling and dispatching *)

Revents(fd) ==
    IF fd = "timer"
      THEN IF expired THEN {"in"} ELSE {}
      ELSE   (IF stdin # <<>>     THEN {"in"}  ELSE {})
        \cup (IF peer = "gone"    THEN {"hup"} ELSE {})
        \cup (IF peer = "errored" THEN {"err"} ELSE {})

(* poll() fills in the revents of every registered descriptor. *)
Polled_Unlooked == [i \in 1..Len(fds) |-> Revents(fds[i]) \cup {"in"}]
Polled_FirstOnly ==
    [i \in 1..Len(fds) |->
        IF \E j \in 1..(i - 1) : Revents(fds[j]) # {} THEN {}
                                                      ELSE Revents(fds[i])]
Polled == [i \in 1..Len(fds) |-> Revents(fds[i])]

(* poll() returns once a descriptor is ready. A signal only interrupts it: *)
(* the loop around poll() goes back to waiting, so that a request to       *)
(* reload is not looked at before the next event.                          *)
Poll ==
    /\ pc = "poll"
    /\ \E i \in 1..Len(fds) : Revents(fds[i]) # {}
    /\ revents' = Polled
    /\ pc' = "dispatch"
    /\ UNCHANGED <<reload_requested, is_reload, periodic, config, cycle_cnt,
                   requested_events, fds, blk, printed, kernel, shown>>

(* The callbacks run in the order of registration, each on what poll() saw *)
(* of its descriptor: those that are left, and the one whose turn it is.   *)
Pending == {i \in DOMAIN revents : revents[i] # {}}
Current == CHOOSE i \in Pending : \A j \in Pending : i <= j

Dispatching(fd) ==
    /\ pc = "dispatch"
    /\ Pending # {}
    /\ fds[Current] = fd

Dispatched == revents' = [revents EXCEPT ![Current] = {}]

(* Only exactly hup is "swaybar is being reloaded" and only exactly error  *)
(* is fatal: any other combination is read.                                *)
IgnoreHangup ==
    /\ Dispatching("stdin")
    /\ revents[Current] = {"hup"}
    /\ Dispatched
    /\ UNCHANGED <<pc, reload_requested, is_reload, periodic, config, cycle_cnt,
                   requested_events, fds, blk, printed, kernel, shown>>

StdinFails ==
    /\ Dispatching("stdin")
    /\ \/ revents[Current] = {"err"}
       \/ revents[Current] # {"hup"} /\ peer = "errored"
    /\ Exit
    /\ UNCHANGED <<reload_requested, is_reload, periodic, config, cycle_cnt,
                   requested_events, fds, revents, blk, printed, kernel, shown>>

ReadLen == IF Len(stdin) < ReadCap THEN Len(stdin) ELSE ReadCap

(* The requests of the clicks just read, returned[i] by the handler of the *)
(* i-th one; a click on a block without a handler is dropped.              *)
RequestsOf(b, returned) ==
    IF b \in config.handled
      THEN UNION {returned[i] : i \in {j \in 1..ReadLen : stdin[j] = b}}
      ELSE {}

HandleClicks ==
    /\ Dispatching("stdin")
    /\ revents[Current] \notin {{"hup"}, {"err"}}
    /\ peer # "errored"
    /\ \E returned \in [1..ReadLen -> SUBSET Request] :
         requested_events' = [b \in Block |->
             requested_events[b] \cup RequestsOf(b, returned)]
    /\ stdin' = SubSeq(stdin, ReadLen + 1, Len(stdin))
    /\ Dispatched
    /\ UNCHANGED <<pc, reload_requested, is_reload, periodic, config, cycle_cnt, fds,
                   blk, printed, peer, stdout, unread, sent, armed, expired,
                   shown>>

(* A handler that throws, or does not return an integer, is fatal. *)
HandlerFails ==
    /\ "handler" \in Faults
    /\ Dispatching("stdin")
    /\ revents[Current] \notin {{"hup"}, {"err"}}
    /\ \E i \in 1..ReadLen : stdin[i] \in config.handled
    /\ Exit
    /\ UNCHANGED <<reload_requested, is_reload, periodic, config, cycle_cnt,
                   requested_events, fds, revents, blk, printed, kernel, shown>>

BeginLine ==
    /\ Dispatching("timer")
    /\ printed' = Extend(printed, "begin")
    /\ blk' = 1
    /\ pc' = "print"
    /\ UNCHANGED <<reload_requested, is_reload, periodic, config, cycle_cnt,
                   requested_events, fds, revents, kernel, shown>>

----------------------------------------------------------------------------
(* Printing a line *)

NeedsUpdate_AfterReloadNone(requests, wrapped) ==
    "update" \in requests \/ wrapped
NeedsUpdate(requests, wrapped) == requests # {} \/ wrapped

Served_NotReset(requests) == requests
Served(requests) == {}

(* Base::update_and_print. A request makes the block update, and so does   *)
(* its cycle counter when it comes round to the interval; the request does *)
(* not disturb the counter.                                                *)
UpdateAndPrint ==
    /\ pc = "print"
    /\ blk \in Block
    /\ LET count   == Succ32(cycle_cnt[blk])
           wrapped == count = config.interval[blk]
           updated == NeedsUpdate(requested_events[blk], wrapped)
       IN  /\ requested_events' = [requested_events EXCEPT ![blk] = Served(@)]
           /\ cycle_cnt' = [cycle_cnt EXCEPT ![blk] =
                               IF wrapped THEN 0 ELSE count]
           /\ age' = [age EXCEPT ![blk] = IF updated THEN 0 ELSE @ + 1]
           /\ fetched' = IF updated THEN fetched \cup {blk} ELSE fetched
    /\ printed' = Extend(printed, "block")
    /\ blk' = blk + 1
    /\ UNCHANGED <<pc, reload_requested, is_reload, periodic, config, fds,
                   revents, kernel>>

(* A device that cannot be read any more and a format that cannot be       *)
(* printed are fatal.                                                      *)
UpdateFails ==
    /\ "update" \in Faults
    /\ pc = "print"
    /\ blk \in Block
    /\ Exit
    /\ UNCHANGED <<reload_requested, is_reload, periodic, config, cycle_cnt,
                   requested_events, fds, revents, blk, printed, kernel, shown>>

EndLine ==
    /\ pc = "print"
    /\ blk \notin Block
    /\ printed' = Extend(printed, "end")
    /\ Flush
    /\ pc' = "drain"
    /\ UNCHANGED <<reload_requested, is_reload, periodic, config, cycle_cnt,
                   requested_events, fds, revents, blk, stdin, peer, stdout,
                   armed, expired, shown>>

(* Writing to a pipe nobody reads ends the process (SIGPIPE or EPIPE). *)
WriteFails_RetriedForEver == FALSE
WriteFails ==
    /\ stdout = "closed"
    /\ \/ pc \in {"header", "open"}
       \/ pc = "print" /\ blk \notin Block
    /\ Exit
    /\ UNCHANGED <<reload_requested, is_reload, periodic, config, cycle_cnt,
                   requested_events, fds, revents, blk, printed, kernel, shown>>

(* read_timer: the expirations of the timer, however many, are consumed.   *)
(* The timer is non-blocking: without an expiration the read is fatal.     *)
ReadTimer ==
    /\ pc = "drain"
    /\ expired' = FALSE
    /\ IF expired THEN Dispatched /\ pc' = "dispatch"
                  ELSE Exit /\ UNCHANGED revents
    /\ UNCHANGED <<reload_requested, is_reload, periodic, config, cycle_cnt,
                   requested_events, fds, blk, printed, stdin, peer, stdout,
                   unread, sent, armed, shown>>

----------------------------------------------------------------------------
(* Going round, and reloading *)

RoundDone == pc = "dispatch" /\ Pending = {}

LoopAgain_ForEver == TRUE
LoopAgain == ~reload_requested

PollAgain ==
    /\ RoundDone
    /\ LoopAgain
    /\ pc' = "poll"
    /\ UNCHANGED <<reload_requested, is_reload, periodic, config, cycle_cnt,
                   requested_events, fds, revents, blk, printed, kernel, shown>>

(* execl: the memory of the process is gone, what is flushed, the clicks   *)
(* in stdin and the pipes stay; the timer is closed on exec.               *)
Exec ==
    /\ RoundDone
    /\ reload_requested
    /\ pc' = "start" /\ reload_requested' = FALSE /\ is_reload' = TRUE
    /\ cycle_cnt' = [b \in Block |-> 0]
    /\ requested_events' = [b \in Block |-> {}]
    /\ fds' = <<>> /\ revents' = <<>> /\ blk' = 1
    /\ printed' = sent
    /\ armed' = FALSE /\ expired' = FALSE
    /\ fetched' = {} /\ age' = [b \in Block |-> 0]
    /\ UNCHANGED <<periodic, config, stdin, peer, stdout, unread, sent>>

ExecFails ==
    /\ "exec" \in Faults
    /\ RoundDone
    /\ reload_requested
    /\ Exit
    /\ UNCHANGED <<reload_requested, is_reload, periodic, config, cycle_cnt,
                   requested_events, fds, revents, blk, printed, kernel, shown>>

----------------------------------------------------------------------------
(* The environment: swaybar, the kernel's timer and whoever sends SIGUSR1 *)

Click ==
    /\ peer = "open"
    /\ Len(stdin) < QueueMax
    /\ \E b \in Block : stdin' = Append(stdin, b)
    /\ UNCHANGED <<process, peer, stdout, unread, sent, armed, expired, shown>>

SwaybarReads ==
    /\ unread > 0
    /\ stdout = "open"
    /\ unread' = unread - 1
    /\ UNCHANGED <<process, stdin, peer, stdout, sent, armed, expired, shown>>

HangUp ==
    /\ peer = "open"
    /\ peer' = "gone"
    /\ UNCHANGED <<process, stdin, stdout, unread, sent, armed, expired, shown>>

StdinErrors ==
    /\ "stdin" \in Faults
    /\ peer = "open"
    /\ peer' = "errored" /\ stdin' = <<>>
    /\ UNCHANGED <<process, stdout, unread, sent, armed, expired, shown>>

CloseStdout ==
    /\ "stdout" \in Faults
    /\ stdout = "open"
    /\ stdout' = "closed"
    /\ UNCHANGED <<process, stdin, peer, unread, sent, armed, expired, shown>>

TimerExpires ==
    /\ armed
    /\ ~expired
    /\ expired' = TRUE
    /\ armed' = periodic
    /\ UNCHANGED <<process, stdin, peer, stdout, unread, sent, shown>>

(* SIGUSR1 kills a process that has not installed its handler yet. *)
Signal ==
    /\ ~Stopped
    /\ IF pc = "start"
         THEN pc' = "killed" /\ UNCHANGED reload_requested
         ELSE reload_requested' = TRUE /\ UNCHANGED pc
    /\ UNCHANGED <<is_reload, periodic, config, cycle_cnt, requested_events, fds,
                   revents, blk, printed, kernel, shown>>

Terminated == Stopped /\ UNCHANGED vars

----------------------------------------------------------------------------
Step ==
    \/ InstallHandlers \/ MakeModules \/ ConfigFails
    \/ PrintHeader \/ OpenArray \/ ArmTimer
    \/ Poll \/ IgnoreHangup \/ StdinFails \/ HandleClicks \/ HandlerFails
    \/ BeginLine \/ UpdateAndPrint \/ UpdateFails \/ EndLine \/ WriteFails
    \/ ReadTimer \/ PollAgain \/ Exec \/ ExecFails

Environment ==
    \/ Click \/ SwaybarReads \/ HangUp \/ StdinErrors \/ CloseStdout
    \/ TimerExpires \/ Signal

Next == Step \/ Environment \/ Terminated

Spec == Init /\ [][Next]_vars

(* The scheduler runs the process, the kernel expires an armed timer, and  *)
(* swaybar reads what it is sent.                                          *)
FairSpec == Spec /\ WF_vars(Step) /\ WF_vars(TimerExpires)
                 /\ WF_vars(SwaybarReads)

----------------------------------------------------------------------------
PC == {"start", "config", "header", "open", "arm", "poll", "dispatch",
       "print", "drain", "exited", "killed"}

Fd == {"stdin", "timer"}
Event == SUBSET {"in", "hup", "err"}

(* Type correctness of the loop and of the kernel objects around it. *)
TypeOK ==
    /\ pc \in PC
    /\ reload_requested \in BOOLEAN /\ is_reload \in BOOLEAN
    /\ periodic \in Periodic
    /\ config \in Configs
    /\ cycle_cnt \in [Block -> 0..UINT32_MAX]
    /\ requested_events \in [Block -> SUBSET Request]
    /\ fds \in Seq(Fd)
    /\ revents \in Seq(Event)
    /\ blk \in 1..(NBlocks + 1)
    /\ printed \in Stream /\ sent \in Stream
    /\ stdin \in Seq(Block)
    /\ peer \in {"open", "gone", "errored"} /\ stdout \in {"open", "closed"}
    /\ unread \in 0..PipeMax
    /\ armed \in BOOLEAN /\ expired \in BOOLEAN
    /\ fetched \subseteq Block /\ age \in [Block -> Nat]

(* update_interval = 0 makes the counter go round the whole of uint32_t.   *)
Period(interval) == IF interval = 0 THEN UINT32_MAX + 1 ELSE interval

(* What the loop implements for whoever looks at the bar. *)
Contract == INSTANCE RefreshContract WITH
    Periods <- 1..(UINT32_MAX + 1),
    period  <- [b \in Block |-> Period(config.interval[b])],
    asked   <- {b \in Block : requested_events[b] # {}}

(* Every step of the loop is one the contract of the blocks allows, or     *)
(* leaves what is shown alone: clicks, ticks and restarts in any order.    *)
RefreshesAsPromised == Contract!Spec

(* No block is ever shown that this process has not fetched, and none is   *)
(* shown on as many lines as its interval without being updated again,     *)
(* however clicks, reloads and ticks interleave: Base::update_and_print.   *)
StalenessBound ==
    /\ \A b \in fetched : age[b] < Period(config.interval[b])
    /\ pc \in {"print", "drain"} => 1..(blk - 1) \subseteq fetched

(* No line is finished while a click that poll() reported along with the   *)
(* expiration still waits: stdin is registered, hence dispatched, before   *)
(* the timer. When a line is out no request is left over.                  *)
NoClickOutlivesTick ==
    /\ pc \in {"print", "drain"} =>
           \A i \in Pending : fds[i] # "stdin"
    /\ pc = "drain" => \A b \in Block : requested_events[b] = {}

(* print_blocks reads the timer long after poll() reported it; the read    *)
(* never finds the (non-blocking) timer empty.                             *)
TimerStillExpired == pc = "drain" => expired

(* Over all reloads swaybar receives one header and one array of complete  *)
(* lines, and nothing printed is lost in the buffer when the process       *)
(* executes itself.                                                        *)
StdoutWellFormed ==
    /\ printed # "malformed"
    /\ pc \in {"arm", "poll", "dispatch", "drain"} => sent = "array"
    /\ pc \in {"start", "config"} => sent = IF is_reload THEN "array" ELSE "none"
    /\ RoundDone => printed = sent

(* A process that swaybar or the user reloads is not killed by the         *)
(* signal: README, "To reload swaystatus, send SIGUSR1".                   *)
SignalNeverKills == pc # "killed"

(* A request to reload is honoured: the process starts again, or fails.    *)
(* It is looked at between two rounds of poll() only (perform_polling), so *)
(* that this hangs on another event to come. There is one as long as the   *)
(* timer goes on or swaybar writes or goes away; a process whose one-shot  *)
(* timer is spent and on which nobody clicks waits for ever.               *)
Unwoken ==
    /\ pc = "poll" /\ ~periodic /\ ~armed /\ ~expired
    /\ stdin = <<>> /\ peer = "open"

ReloadHonoured == reload_requested ~> (pc = "start" \/ Stopped \/ []Unwoken)

(* Whoever sends SIGUSR1 comes to rest: a process that is told to reload   *)
(* again before its first tick can be kept from ever printing.             *)
Quiet == <>[](~reload_requested)

(* What a click asked for is done: the text shown is fetched after it,     *)
(* even if a reload came in between. This takes another line, so that with *)
(* a one-shot timer nothing is promised.                                   *)
ClickServed ==
    Quiet /\ periodic =>
        \A b \in Block :
            requested_events[b] # {}
                ~> \/ requested_events[b] = {} /\ b \in fetched /\ age[b] = 0
                   \/ Stopped

(* An expiration of the timer leads to a line, whatever arrives on stdin   *)
(* and in spite of the busy loop after swaybar has closed it.              *)
TickShown == Quiet => (expired ~> (pc = "drain" \/ Stopped))

(* Once swaybar does not read any more the process does not go on for ever *)
(* ("swaybar is being reloaded": the next line it writes ends it).         *)
StopsWithoutReader == Quiet /\ periodic => (stdout = "closed" ~> Stopped)
=============================================================================
