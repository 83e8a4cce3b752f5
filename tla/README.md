# A verification of swaystatus

swaystatus prints the status line of swaybar: once a second a JSON array of
blocks (battery, network, sensors, ...), and it reads the clicks swaybar writes
to its stdin. This directory holds TLA+ models of the parts of the program that
keep state over time, the TLC configurations that check them, and proofs that
TLAPS checks. Every definition is a translation of the source; the lines it
stands for are listed in `PROJECT.json` under `map`.

To repeat the work, in this directory:

    tlc -config EventLoop_safety.cfg MCEventLoop     # and likewise the other .cfg
    tlapm EventLoopProofs.tla                        # and likewise every *Proofs.tla

## 1. The system

One process, one thread. `main` installs signal handlers, reads the
configuration, makes the blocks, writes the header, arms a timer and loops:
`poll()`, then the callbacks of the descriptors that are ready, until SIGUSR1
was seen, upon which it executes itself with `--reload`. The concurrency is with
the kernel (timer, signals, pipes) and with swaybar (clicks, reading or not
reading the output, going away).

| Component | State it keeps | Operations | Talks to |
|---|---|---|---|
| main loop, reload (`swaystatus.cc`) | `reload_requested`, `is_reload` | start, loop, `print_blocks`, `execl` | everything |
| poller (`poller.c`) | registered descriptors and callbacks | `request_polling`, `perform_polling` | kernel; calls the callbacks in order of registration |
| timer (`utility.c`) | a timerfd | create, `read_timer` | read by `print_blocks` |
| blocks (`modules/Base.cc`) | `cycle_cnt`, `interval`, `requested_events` of each block | construct, `update_and_print`, `reload` | clicks add requests; the line serves them |
| click events (`handle_click_events.cc`) | buffer, cursor, json-c tokener, array of callbacks | `init`, `handle_click_events`, `add_click_event_handler` | stdin; writes `requested_events` of a block |
| output (`formatting/printer.cc`) | buffer of what is printed | `print`, `flush` | stdout; blocks when swaybar does not read |
| configuration (`process_configuration.c`) | the JSON object, from which what was used is deleted | `load_config`, `get_*` | the constructors of the blocks |
| sensors (`sensors.cc`, `TemperaturePrinter.cc`) | vectors of chips and readings, an iterator | reload, update, next reading | libsensors |
| network (`networking.cc`) | arrays of interfaces and addresses | update | getifaddrs |
| battery, backlight (`Battery.cc`, `Backlight.cc`, `Fd.cc`) | devices with the descriptors they own | construct, reload, read | /sys |
| callables (`Callback/`) | dlopen handles, Python objects | load, call, destroy | dynamic libraries, CPython |
| Python interpreter (`Callback/python3.*`) | the interpreter lock, reference counts | acquire, release, call | CPython, threads of Python code |
| memory, load (`MemoryUsagePrinter.cc`, `LoadPrinter.cc`) | a descriptor, a buffer that is kept, the total of the memory | update, print | /proc |
| custom block (`CustomPrinter.cc`) | two callables | update, print | callables |
| time, volume | a handle, no history | update, print | clock, ALSA |
| text (`mem_size_t.cc`, `utility.c`, `formatting/`) | none | units, escaping, nested formats | the blocks |

What is hard here, and where each point bites, is the list `hazards` in
`PROJECT.json`. In short:

* *clicks against ticks*: both may be reported by one `poll()`; requests arrive
  between any two lines and the cycle counter updates the block as well;
* *reloading*: the memory is gone at any round of the loop, the pipes are not:
  clicks half read, output half written, a header already sent;
* *a stream cut anywhere*: the 4096-byte buffer ends inside a click event;
* *fixed arrays*: callbacks, interfaces, addresses, the order of the blocks;
* *pointers kept over updates*: the sensors' iterator and `Sensor*`;
* *arithmetic at an edge*: an interval of 0 and a 32-bit counter, sizes at the
  border of a unit;
* *a second language*: Python code starts threads that want the lock, keeps
  what it was given, answers what nobody asked for, raises;
* *files that change under a buffer that is kept*: reads of any length, a file
  shorter than the last, names that are part of other names;
* *the other end goes away*: hang-up, errors, a full pipe, a timer set to 0.

What makes each part correct: the bar is one well-formed stream; no text is
shown for longer than its interval, nor after a click asked for another; a click
is delivered once, whole, to the handler of its block; a request to reload is
carried out; the arrays are not overrun and the pointers stay good; the table of
interfaces shows the present and nothing of the past; the blocks on the bar are
those the file orders, with the settings it gives them; a value shown is the one
its file has under that name, and a reader of the JSON finds what the format
means; references are counted as they are held, and the interpreter lock is held
where Python is used and nowhere else.

## 2. The modules

    RefreshContract                what a block promises to the reader of the bar
      ^ implemented by
    EventLoop  <- MCEventLoop      the process, the kernel objects, swaybar
      ^ EventLoopProofs
    ClickChannel                   what the handler of stdin promises the callbacks
      ^ implemented by
    ClickStream  <- MCClickStream  clicks cut out of the byte stream
      ^ ClickStreamProofs
    ModuleConfig <- MCModuleConfig from the configuration to blocks and handlers
      ^ ModuleConfigProofs
    Sensors      <- MCSensors      the iterator over readings that move
      ^ SensorsProofs
    Interfaces   <- MCInterfaces   the table of network interfaces
      ^ InterfacesProofs
    Devices      <- MCDevices      battery and backlight, and the descriptors they own
      ^ DevicesProofs
    Callbacks    <- MCCallbacks    callables, the interpreter lock, reference counts
      ^ CallbacksProofs
    Texts                          what a text is
      ^ extended by
    FileRead                       reading a file, looking up in it
      ^ FileReadProofs
    Formats                        formats, values and the JSON of a block
      ^ extended, with FileRead, by
    FileBlock    <- MCFileBlock    a block that prints what it read

`EventLoop` is where the components meet: it takes from `ClickChannel` that whole
clicks come out of stdin in their order, and from `ModuleConfig` that a handler
belongs to one block. `Sensors` refines what `EventLoop` leaves open in
`UpdateAndPrint`: what an update and a reload do to the state of one block; its
`Due`, `requested` and `cycle_cnt` are those of `Base` for that block. `FileBlock`
does the same for the text: what `EventLoop` treats as one token of output is the
object that `DoPrint` puts together. `HandleClicks` of `EventLoop` calls the
function `Callbacks` models from `Call` to `Leave`; `FileRead` takes the table
of interfaces from `Interfaces`.

Operators named `<Definition>_<Variant>` are faulty variants of the definition
they precede: a slip one could make in that code. No specification uses them.
`PROJECT.json` (`mutants`) pairs each with the property that fails when it
replaces the definition, so every property is known to be able to fail.

### EventLoop

`pc` names the places where the process can be observed: `start` (before the
signal handler is installed), `config`, `header`, `open`, `arm`, `poll`,
`dispatch`, `print`, `drain` (reading the timer). `Init` is a start by swaybar
without `--reload`; `periodic` is what `--interval` says, which `execl` passes on.

| Code | Action |
|---|---|
| `main`: `sigaction_checked(SIGUSR1)` | `InstallHandlers` |
| `main`: `load_config`, `click_event_handlers_init`, `makeModules` | `MakeModules`, `ConfigFails` |
| `main`: header and `[` | `PrintHeader`, `OpenArray` (not after `--reload`) |
| `create_pollable_monotonic_timer`, `request_polling` | `ArmTimer` |
| `perform_polling`: `poll()` in a loop on EINTR | `Poll` (a signal does not end it) |
| `perform_polling`: the callbacks | `Dispatching(fd)`: the first of `Pending` |
| `handle_click_events` | `IgnoreHangup`, `StdinFails`, `HandleClicks`, `HandlerFails` |
| `print_blocks` | `BeginLine`, `UpdateAndPrint` once per block, `EndLine`, `ReadTimer` |
| `Base::update_and_print` | `UpdateAndPrint`, `UpdateFails` |
| `flush` | `Flush` (blocks on a full pipe), `WriteFails` |
| the loop of `main`, `execl` | `PollAgain`, `Exec`, `ExecFails` |
| swaybar, kernel, user | `Click`, `SwaybarReads`, `HangUp`, `StdinErrors`, `CloseStdout`, `TimerExpires`, `Signal` |

The environment acts between any two steps of the process, in particular
between `poll()` and the callbacks and between the blocks of a line. Output is a
sequence of tokens folded by `Extend` into the state a JSON reader would be in.
`cycle_cnt` starts at `interval - 1` and is counted in `0..UINT32_MAX` with
wrap-around, as `std::uint32_t` is. `fetched` and `age` are observers: which
blocks were updated, and on how many lines the text was shown since.

`RefreshContract` says the same of a block without counters, descriptors or a
loop: ask, show new text, show the old text again while it is young and not
asked for, start over. `Contract` in `EventLoop` instantiates it with the blocks
that have requests as `asked`; `RefreshesAsPromised` is the refinement.

### ClickStream

The stream is known by positions: the opening of the array, then nine tokens for
every event, separators between. One call of the handler is `Read`, then
`SkipSeparator`, `CallParser`, and `NeedMore`, `Feed`, `Deliver` or `Reject`, as
in the loop of `handle_click_events` over `json_tokener_parse_ex`. `Blank` is
the assignment that overwrites the first character ever read. `Reload` may
happen between two calls and leaves what was not read to the next process.
json-c (`After`) is external; only what it does with events is modelled. Two
pairs per event stand for the ten that swaybar sends; the buffer is measured in
tokens, so a cut inside a string is the same as a cut beside it.

`ClickChannel` says the same without buffers, tokens or a parser: a click is
written, the next one is handed over as a whole, or the process is replaced,
which costs at most the next one (and any number if nobody listened). `Channel` in
`ClickStream` instantiates it with the first event that begins in what was left to
the process (`Started(origin)`) plus those delivered as `next`;
`DeliversAsPromised` is the refinement. A process that starts inside an event
hands over nothing at all and stops; that it may is `ReloadSurvived`.

### Sensors

A vector of readings is the set of the features it was filled from; `live` says
whose `Sensor*` still points into the vector of sensors. `Reloaded`, `Fetched`
and `Advanced` are `Sensors::reload`, `Sensors::update` with the iterator put on
the first reading, and `TemperaturePrinter::update`; one line is `AfterReload`,
`AfterUpdate` and `AfterCycle` in the order of `Base::update_and_print`.
Dereferencing a bad iterator or pointer makes the status `undefined`. `seen` and
`extra` are observers: the readings shown since they were fetched, and the updates
that were made since then on a line that had one already, as a click causes.

### Interfaces

The list of `getifaddrs` is produced while it is walked, entry by entry, by any
kernel that puts links before addresses and repeats the flags of the link. The
array of interfaces keeps its contents between two updates as the program does;
only slots in use are reset. `AddPastEnd` is what happens when the array is full
and the interface is new.

### Devices

Battery and backlight load a vector of devices from a directory of /sys and keep
one descriptor open per device; `kind` tells which block a behaviour is of. The
table `open` is the kernel's: numbers are given from the lowest free one and used
again. `Opens`, `Closed` and `Moved`/`LeftBehind` are `open`, the destructor and
the move of `Fd`; `ClosedByMove` is what a vector that reallocates would close.

| Code | Action |
|---|---|
| `Base::update_and_print` | `BeginLine` (by way of `Line`, `Updates`), `PrintBlock` |
| `visit_all_subdirs` | `OpenDir`, `OpenDirFails`, one `Visit` or `VisitFails` per name, `EndVisit` |
| the visitor of the battery | `ReadFirst` (type), `OpenSecond` (uevent), `MakeBattery` (reads; may exclude) |
| the visitor of the backlight | `ReadFirst` (max_brightness), `OpenSecond` (brightness), `MakeBacklight` |
| `err` and `errx` in any of them | `VisitFails`, `OpenSecondFails` by way of `OpenFails`; `ReadFails`, `UpdateFails` by way of `FileFails` |
| `BatteryPrinter::update`, `BacklightPrinter::update` | `UpdateDevice` per device, `EndUpdate` |
| hardware | `Plug`, `Unplug`, between any two steps |

A file of a device that is gone can neither be opened nor read. One of a device
that is there may fail at any time as well, and the process stops over it: it is
not to be opened, a `read` or an `lseek` fails, the type is empty
(`Battery.cc:39`), the text is no number of at most 19 digits
(`readall_as_uintmax`), the largest brightness is 0. `FileFails` does not tell
these apart; `faulty` observes over which device it was.

`listed` observes which devices were there when the directory was last read. It
is the reference for what ought to be shown and for what the process may stop
over.

### ModuleConfig

From the parsed file to the blocks: the order (cut to its buffer, or the
default), unknown names, disabled blocks, and for each block made: its settings
are taken out of the configuration and its handler registered. A factory may
fail for reasons outside (a missing device).

### Callbacks

The callables of a configuration are loaded in their order, then called in any
order for as long as the bar runs. `gil` is CPython's lock, `p` the thread state
that `Interpreter` keeps while it does not hold the lock, `scope` the
`GIL_scoped` of the moment. `count` are the reference counts of the objects the
bar deals with; `temps`, `fn`, `attr`, `kept` are those who hold them.

| Code | Action |
|---|---|
| `MainInterpreter::load_libpython3` | `StartPython`, with the streams of `initialize_interpreter` |
| `Callable_base::Callable_base` | `LoadDylib`, or `EnterLoad`, `Import`, `GetAttr`, `LeaveLoad`; `LoadFails` |
| `Interpreter::acquire`, `~GIL_scoped` | `Acquire`, `Release` inside the actions that open and close a scope |
| `click_event_handler`, `Callable::operator()` | `Call`, `PassArgs` or `CallNative`, `Leave`, `FreeEvent` |
| `tuple`, `Int`, `MemoryView`, `str`, `None` | `Packed`, `Wrapped`, `Convert`, `WrongAnswer` |
| `Py_Err`, `errx` | `Raises`, `LoadFails`, `FailsElsewhere` lead to `exit`, where `DestroyHandlers` runs |
| Python code | `Returns`, `Keep`, `Forget`, `HandlesError`; other threads: `ThreadTakes`, `ThreadGives` |
| the evaluation loop of CPython | `Yield`, `Resume` |

`Holders(o)` lists who has a reference to `o`, independently of the counting;
`CountsBalanced` compares the two at every step. It also says how far the bar
departs from CPython's rules: None is short of four references from the start of
the interpreter (`python3.cc:217`, four calls of `get_none`) and never of more.

### FileRead, Formats and FileBlock

A text is a sequence of words (`Texts`), so that what is shown can be compared
without spelling it.

`FileRead` is one block of one of four kinds, up to what a print looks up:

| Code | Definition |
|---|---|
| `asreadall`, `readall` | `BeginUpdate`, `Grow`, `ReadPiece` (any length up to what fits), `EndOfFile`, `EndOfLoad`, `ReadFails` |
| `Battery::get_property`, `get_memusage`, `parse_loadavg` | `GetProperty`, `GetMemusage`, `Statistics`, on the words that are in the buffer |
| `MemoryUsagePrinter::update` | `EndOfFile` with `memtotal`, read until it is known |
| `Interfaces::update` | `UpdateTable` |

The files are external. What is assumed of them is what the kernel writes and the
code relies on: each key once and no separator inside a key or a value
(`KernelFiles`); `/proc/meminfo` begins with a `MemTotal` that never changes, and
its numbers fit into a size (`MeminfoFiles`); `/proc/loadavg` has its six values
or nothing (`LoadavgFiles`). What keeps the names apart is that the file has them
in a certain order (`KernelOrder`): `get_memusage` looks at the first occurrence
only, and `get_property` would take `model_name` for `name`. The kernel writes its
files in such an order. One file of the run is not in it, so that the endless
search of `MemoryUsagePrinter.cc:53` is reached; `ShowsTheFile` excepts it.

`Formats` has the way from a format to the bar as operators (`Escaped`, `Expand`
with `EndOfFormat`, `SizeText`, `AddrsText`, `BlockText` with `PropertiesText`;
`Accepted` is what the parser of a unit takes)
and, apart from them, what a format means (`Meaning`, `SizeMeant`, `AddrsMeant`
over a format given as a tree) and what a JSON reader makes of a text
(`Decoded`). Its operators are recursive, hence no theorem.

`FileBlock` puts the two together: `DoPrint` is `do_print` with
`Base::update_and_print`. An expansion need not reach its end: a unit that is not
accepted throws (`Thrown`), which nothing catches and which leads to `rejected`; a
search that never ends (`Endless`) leads to `searching`, but only when the format
uses the value, which is looked up no sooner (`LazyEval`). Whichever comes first
in the format counts. Each of
its steps is one of `UpdateNext` or, for `DoPrint`, begins with `LookUp`; so its
behaviours, seen through `readVars`, are those of `ReadSpec`, and what is proved
of `ReadSpec` holds in `FileBlock`.

## 3. The runs

| Run | Question | Bounds | Distinct states |
|---|---|---|---|
| `EventLoop_safety` | Is the bar well formed, fresh, and faithful to the contract over every interleaving and failure? | 2 blocks, 3 configurations, all faults, 2 clicks waiting, 1 read per call, 1 line unread, both kinds of timer | 699,420 |
| `EventLoop_liveness` | Are reloads, clicks and ticks acted upon? | 2 blocks, 1 configuration, a stdout that may close, both kinds of timer | 21,976 |
| `EventLoop_signal` | May SIGUSR1 end the process? *violated* | 1 block | |
| `ClickStream` | Are clicks delivered whole, in order, once and without a gap? | 3 events, buffers of 6, 7 and 25 tokens, 1 reload | 3,780 |
| `ClickStream_reload` | Does the handler survive a reload? *violated* | 2 events, a buffer that takes all, 1 reload | |
| `Sensors` | Are the pointers good, how many readings may a click leave out, and does each come up again? | 5 features, 3 valid readings, interval 3 | 233 |
| `Interfaces` | Does the table show the list? | 3 names, room for 2, 2 addresses of a kind, lists of 5 | 279,670 |
| `Interfaces_full` | Does the loop stop when the array is full? *violated* | the same | |
| `Devices` | Who owns which descriptor, is what is shown read from the present device, and over what does the process stop? | 4 devices with 3 names, one excluded, one charger, 4 descriptors | 150,588 |
| `ModuleConfig` | Are blocks and handlers those of the file? | 2 names, all settings, orders of up to 4 entries, buffer of 3, room for 2 callbacks | 407,680 |
| `Callbacks` | Are references and the lock in order, and do threads run? | 5 callables of both languages and all roles, 2 of one name, 2 views, 1 thread | 697 |
| `FileBlock` | Does the bar show what the files say and the formats mean? | 4 kinds, 2 or 3 files and formats each, pieces of every length, buffers that grow twice | 5,249 |

Why the bounds are enough.

* *Two blocks* give the cases one block cannot: a request for one must not
  serve the other, a line may stop half-way, and the three configurations
  together have every interval of 0, 1, 2 and both kinds of handler. With
  `UINT32_MAX = 2` the counter wraps within three lines; the code has no other
  constant that depends on the width. The proofs cover all values.
* *Reading one click per call with two waiting* leaves clicks behind in stdin,
  as a full buffer of 4096 bytes does. One unread line makes the pipe full.
* *ClickStream*: events repeat every 11 tokens and buffers of 6, 7 and 25 tokens
  reach every offset; 25 holds more than two events. Three events are one
  before, one across, and one after a reload.
* *Sensors*: five features have a temperature without a value between others
  with one, and a feature that is no temperature; three lines per reading
  separate a click's step from the counter's. `SensorsProofs` covers all values.
* *Interfaces*: three names in an array of two overrun it; five entries are two
  interfaces with three addresses, one more than fits. The table persists, so
  any number of updates in a row is covered.
* *Devices*: two devices share a name, so that one can come back in the other's
  place between readdir and open, or between two reads. Four descriptors are as
  many as three devices need (the directory, two elements, one file): with one
  leaked the next load fails with no device to blame, which `FailsOnlyOverListed`
  would report. Any file of any device may fail at any step, and the process
  reloads without end.
* *Callbacks*: every pair that can meet in one module is there: two inline codes
  of one name (the second replaces the function the first callable still has), a
  function of a file taken by two callables, a native one. Two views are one that
  is kept and one that is passed. Further threads behave like the one: they only
  compete for the lock. Calls are not bounded.
* *FileBlock*: files longer, shorter and emptier than the last one, with names
  that begin with, end with and contain another; a string that starts with room
  for 2 words grows to 7 and 17 and more, as 15 bytes grow to 130 and 360. With
  4 for 1024 and 3 for 1000 the sizes are below, at and above the border of a
  unit and reach the third unit. Two levels of nesting are what the defaults use.
* *ModuleConfig*: a buffer of 3 cut from orders of 4, and 2 callbacks for 3
  entries, in the relation of the program's 20 and 12.

What the properties say is written above each of them in the modules. The ones
that carry the weight: `RefreshesAsPromised` and `StalenessBound` (requests,
counters and restarts never leave an old text on the bar), `StdoutWellFormed`
(one header and one array over all reloads), `NoClickOutlivesTick` (the order of
dispatch), `TimerStillExpired` (a read long after `poll()`), `DeliversAsPromised` (clicks
whole and without a gap, and one at most lost to a reload) and `NoClickLost`,
`RejectsOnlyCutStream` (the exact conditions under which the
process stops over its input), `NoWildPointer`, `AllShownBeforeFetch`,
`EveryReadingShown`, `ShowsTheList`, `OverrunOnlyWhenMore`, `HandlersFit`,
`FirstAsConfigured`, `BarAsOrdered`, `OneOwner`,
`FailsOnlyOverListed`, `ShowsEachNameOnce`, `CountsBalanced`, `LockHeld`, `ShowsTheFile` and
`PrintsAsMeant`.

### Fairness

* `EventLoop`: weak fairness of the process (the scheduler runs it; its only
  waits are `poll()` and a write to a full pipe, both disabled steps), of
  `TimerExpires` (the kernel), and of `SwaybarReads` (a swaybar that never reads
  stops the bar for good, as it should). Nothing is assumed of clicks, signals,
  hang-ups or the closing of a pipe.
* `Quiet`, the assumption of three of the liveness properties: whoever sends
  SIGUSR1 comes to rest. Without it a process that is reloaded before each tick
  never prints, and nothing in the code prevents that. `ReloadHonoured` does not
  need it.
* `periodic`, the assumption of two of them: with `--interval=0` the timer expires
  once (`utility.c:105`) and there is one line per start, so that a click after it
  is not shown. `ReloadHonoured` covers this timer as well: the request is looked
  at only after a round of callbacks (`poller.c:76`), so either the process starts
  again or it waits in `poll()` for ever (`[]Unwoken`), which the run reaches.
* `ClickStream`: the handler goes on while it can; it waits for nothing.
* `Sensors`: a line is printed again and again (`EventLoop`'s `TickShown`);
  `Calm` is the assumption that clicks on the block cease, because a click moves
  the iterator too.
* `Callbacks`: weak fairness of what the bar does by itself (loading, passing
  arguments, converting, leaving) and of the evaluation loop, which CPython
  interrupts regularly for those who wait; strong fairness of `ThreadTakes`,
  because the lock is free only now and then. Nothing is assumed of functions:
  one that never returns does not shut out the threads, and that is `ThreadRuns`.

## 4. The proofs

`EventLoopProofs` (six theorems) holds for any number of blocks, any width of
the counter, any nonempty set of configurations, any bounds of queues and
pipes, periodic and one-shot timers, and any set of faults. `ConstantsAssumption`
is all that is assumed: types, and that a read and a pipe hold at least one item.

The invariant is `IInv == TypeOK /\ PollInv /\ RequestInv /\ StreamInv /\
CounterInv`, one conjunct per concern, because none of the properties is
inductive alone:

* `PollInv`: which descriptors are registered at which place, stdin first, and
  that an expiration reported to the process is still there until it is
  dispatched. It gives `TimerStillExpired` and half of `NoClickOutlivesTick`:
  the timer is read only by the step that was reported an expiration.
* `RequestInv`: on a line, the blocks before `blk` have no requests left, since
  clicks are handled only in `dispatch`. The other half.
* `StreamInv`: what is printed and what is sent at every place, which is the
  state of the reader of the stream. `StdoutWellFormed` follows.
* `CounterInv`: the relation between `cycle_cnt` and `age` (`Counted`): the
  counter is what is left of the period, so when `age` comes to the period the
  counter comes to the interval; with an interval of 0 the period is the whole
  range of the counter. A request only lowers `age`. `StalenessBound` follows.

`ContractImplemented` shows that the initial states and every step of the loop
are those of `RefreshContract` or leave its variables alone; it uses
`CounterInv` for the guard of `ShowAgain` and `RequestInv` for restarts.

`SensorsProofs` (three theorems) holds for any number of features, any subsets
of temperatures and inputs, and any positive interval. Its invariant says that a
vector is empty or complete and never has a pointer into freed memory, that the
iterator is inside it or else the counter is due (which only the first line
needs), and that of the readings up to the iterator no more were left out since
the last fetch than there were additional updates. `PointersGood` then rests on
one lemma: `TemperaturePrinter::update` ends with good pointers whatever it
starts from (`AdvancedIsGood`). `SkipsCounted` is an action property. A line
makes up to three updates, so the last conjunct is carried through them one by
one (`Counted`): each passes one reading over or fetches, and of those passed
the line shows the last.

`DevicesProofs`, its first half (two theorems), holds for any finite set of devices, any names,
types and models, any exclusion and any number of descriptors. The invariant adds
to `OneOwner` which local variables hold a descriptor at which place (`Locals`):
without it nothing would keep `Opens` from overwriting one that is still open.
The lemmas say what opening and closing do to the set of used descriptors, what
pushing and reading do to the owned ones, and that moving closes nothing.

Its second half (four theorems besides the invariant) builds on the first and
says what the descriptors stand for. `DataInv` has four parts:

* `MachineInv`: a name is taken once, and what was listed is present or was
  unplugged;
* `NamesInv`: the devices of the vector have different names, which the load is
  done with, and none is a battery of the excluded model. `ShowsEachNameOnce`
  follows, whatever is plugged in during the load. This is what makes a pigeonhole argument work: there are never more
  descriptors open than names and one directory, so that `SomeFree` finds one for
  every `open` of the code, and running out of descriptors is no cause of failure;
* `SteadyInv`: as long as no listed device was unplugged, a name that is visited
  stands for the device listed under it, and those done with are in the vector
  exactly if they are to be shown (`ListedInv`); if the block failed, a listed
  one was unplugged or had a file that failed. `FailsOnlyOverListed` and
  `ShowsPresent` follow;
* `TextInv`: at which places which texts have been read; in particular that the
  first line after a load is never begun without an update, on which the
  uninitialised brightness of the backlight depends. It gives `PrintsWhatItRead`.

The assumption on `FdMax` (one more than the names) is what the last two need.

`ClickStreamProofs` (five theorems besides the invariants) holds for pieces of any
sizes, any number of events and of reloads. The stream is given by positions, so
the lemmas about it are arithmetic modulo the period (`Located`, `OffsetOf`,
`Tokens`: each position is in one event, at one of its places, and has that
token) and about the automaton that stands for json-c (`OneToken`: inside an
event the token that comes next leads to the next place; `CommaMissing`: without
its comma to an error). The invariant:

* `BufferInv`: the buffer holds the tokens from `i` to what was read, unchanged
  but for the first token ever read, and that one is passed before the parser
  sees any other;
* `ParserInv`: the parser is idle or in the event that began at `start`, at the
  place its state stands for; only after a dropped comma is it beside it;
* `ClicksInv`: what was delivered are events, in increasing order, all before
  what the parser works on. `ClicksIntact` follows (the runs check
  `DeliversAsPromised`, which says it of every step);
* `CleanInv`: after a clean start the parser is idle only between events, every
  event before the cursor was delivered, and the process stopped only over a
  dropped comma. `NoClickLost` and `RejectsOnlyCutStream` follow.

None of them is inductive alone: that the next `{` begins an event needs
`ParserInv` of the one before, that nothing is delivered twice needs that the
parser works behind the last delivery, and both need that blanking is over.

`ChannelImplemented` is the refinement of `ClickChannel`, step by step. It needs
`ChannelInv`, inductive relative to the invariant above: `InTurn` (after a clean
start an idle parser has every event behind the cursor delivered, and one inside
an event is in the very next) and `Stuck` (after any other start the cursor never
leaves the event the process started in). Delivering is then `HandOver`; at a
reload the parser is in the next event or in none (`LeftToSuccessor`), so what the
successor begins with is the next event or the one behind it.

`ModuleConfigProofs` (four theorems besides the invariant) holds for any finite
set of names, any settings and orders of any length. The assumptions about sizes
are those the program asserts at compile time (`Base.cc:127`, `:168`: the buffers
have room for every name). The invariant:

* `SettingsInv`: the settings of a name are those of the file before its first
  block is made, and what is left of them afterwards; its handler is registered
  from then on. This ties the deletions in the JSON object to the vector of blocks;
* `HandlersOnce`: a name is registered once. With the pigeonhole principle
  `HandlersFit` follows: 12 places are enough though nothing checks them;
* `FirstAsConfigured` and `OneCustom`, inductive with the others: whether a block
  is the first of its name is what decides whether the settings are still there;
* `ProgressInv`: the blocks made have increasing `Places` in the part of the
  order that is done, and every name there that is not disabled has one. When
  nothing is left to do this is `BarAsOrdered`.

`InterfacesProofs` (three theorems besides the invariant) holds for any names,
any sizes of the arrays and lists of any length. `ShowsTheList`, which every
entry of the list preserves, is not inductive without `SpareSlotsClean`: a slot
taken into use still has the name and flags of an earlier update, and only
because its statistics and addresses are empty does it show nothing of it.
`WantedFound` says that `operator[]` finds the slot of every interface seen so
far (so none gets a second one), and `LinksOnce` that the kernel lists one link of
a name (so statistics are not replaced). The lemmas on `Least` say what adding the
next position does to the first few members of a set of positions, which is how
both the addresses of a slot and the slots of the table grow.
`OverrunOnlyWhenMore` follows from counting: when the array is full, its slots
and the entry at hand are more interfaces than it has room for.

`CallbacksProofs` (three theorems) holds for any callables in any order, of any
language, role and module, and any finite set of views. There are two invariants.
`LockInv` adds to `LockHeld` whether the `GIL_scoped` of the moment has the
interpreter (`ScopeInv`: without it a release could give back a lock that is not
held, or keep one) and that the interpreter is started before the first callable
that needs it is called (`LoadInv`). `CountInv` says that each count is the sum of
its parts (`Balance`: callables, modules, temporaries, views kept, the tuple),
what the temporaries are at each place (`TempInv`), and that a callable that is
being loaded has no function yet (`FreshInv`), so that the reference it gets
replaces none. One lemma per operation shows which parts it changes and by how
much; `HoldersCounted` adds the parts up to the set of holders, from which
`CountsBalanced` follows, and since sums of sizes are not negative, `TypeOK`.

`FileReadProofs` (six theorems besides the invariant) holds for any files of
the form above, any names, any capacity to begin with and any growth, and pieces
of any sizes. Two arguments meet in it, one about texts and one about steps.

The texts. `FlattenSeq`, which makes a text of lines, is a recursive function of
the library; theorems that take a predicate are out of the prover's reach, so
induction is over sets of numbers (`Smallest`, `SetInduction`). The lemma `Layout`
is its result: every line stands whole and unchanged at a place of its own in the text,
in order, and every word of the text is in a line. From it `FileLined` gets which
separator is where. Then, for each search, where it can hit:

* `get_property`: an equals sign is that of a line (`EqualsOfLine`), so a name in
  front of one is the end of a key (`PropertyPlace`); with `KernelOrder` the first
  such key is the name itself, and the value ends where the line does
  (`GetPropertyShows`);
* `get_memusage`: an occurrence of a name lies within one key (numbers are no
  part of names); the first is that of the line, which a colon follows
  (`GetMemusageShows`). For `MemTotal`, the first key of all, `KernelOrder` is not
  needed (`TotalFound`), so the total is right also when other searches hang;
* `parse_loadavg`: the text has five parts at its four spaces, and the fourth of
  them two at its slash (`StatisticsShow`).

The steps. `TypeOK` and `ShowsTheFile` are not inductive. `IInv` adds:

* `Sizes`: the string is no longer than its capacity although `resize` and the
  reads change both; the array of the load block keeps a place for its end;
* `ReadSoFar`: what was read and what is left make the file, word by word, and
  what was read is where it belongs. Without it nothing would be known at the end
  of the file of a buffer that was grown and filled piece by piece;
* `HoldsFile`: after an update the buffer is the file and nothing of the one
  before it, though only the battery block clears it; for the load block its first
  `bytes` places;
* `TotalKept`: the total once found is that of every file, so keeping it is the
  same as reading it again.

`ReadTypeOK` and `ReadShowsTheFile` follow, the latter with the theorems about the
searches.

Model-checked only: every liveness property (fairness and ENABLED are out of the
prover's reach), among them that threads run (`Callbacks`); and `PrintsAsMeant`,
because what it is about are the recursive operators of `Formats`: formats nest to
any depth, and so does their meaning.

## 5. Where code and documents disagree

Each has a run that shows it.

1. `EventLoop_signal`: SIGUSR1 between the start, or a reload, and
   `swaystatus.cc:93` has its default effect and ends the bar; two signals in
   quick succession do it. `README.md:50` offers the signal without this.
2. `ClickStream_reload`: the first character read is blanked although after a
   reload it need not be the `[`. Between two events it is the `,`, which is why
   it mostly goes well; before the first event, or when a full buffer of the
   predecessor ended there, it is the `{` of an event or lies inside one, and the
   process stops, while `handle_click_events.cc:165` takes the case for handled.
3. `Interfaces_full`: "If it is full, then stop getting more"
   (`networking.cc:185`) is not what happens: the test never holds.

Noticed, and not (or not yet) the subject of a run: `buffer[len] = '\0'` is one
byte behind a full buffer (`handle_click_events.cc:118`); a buffer that begins
with the `,` inside an event stops the process (`RejectsOnlyCutStream` names
it); without any temperature the iterator is dereferenced at the end
(`NoWildPointer` excludes it); a click and a tick on one line skip a sensor,
where `README.md:232` has all of them shown (`AllShownBeforeFetch` counts them);
with `--interval=0` nothing but a click wakes the process after its first line,
so that a reload need not be carried out (`ReloadHonoured` says when); an
interval of 0 means 2^32 lines (`Period`); `README.md:156` says "dynlib" where
`Callback/Callable.cc:56` says "dylib"; `README.md:159-160` describes a search
path that no code sets; a size of exactly 1024 is not promoted
(`mem_size_t.cc:77`); temperatures are shown as 8-bit numbers; without
`excluded_model` a battery whose MODEL_NAME is empty is left out
(`Battery.cc:53`), where `README.md:239` has every battery printed; the
separator test of `BacklightPrinter.cc:62` is always true, so a space follows
the last backlight as well; `Backlight.cc:49` divides by a `max_brightness` it
does not look at.

Around the callables: the handler of a click gets a memory view where
`README.md:146` says `instance: str`, and the memory it shows is freed after the
call (`handle_click_events.cc:146`), also when the function kept the view;
an answer that is negative or does not fit is ignored but leaves its exception
pending, so that the next call fails for it (`python3.hpp:232`); `exit` destroys
the array of callbacks and with it Python objects without the lock, which
`python3.hpp:46` forbids; two embedded codes of one `module_name` share a
module, and the later one replaces the functions of the earlier; None is wrapped
without a reference (`python3.cc:217`), four times in all.

Around the text: `README.md:281` offers the unit `B`, which `mem_size_t.cc:14`
does not accept, so that the process stops (`rejected` in `FileBlock`, which one
format of the run reaches); kB of the kernel are taken for 1000 bytes
(`MemoryUsagePrinter.cc:70`) and shown in units of 1024;
`last_created_process_pid` ends with the newline of the file, inside a JSON
string; values, and backslashes in a format, are not escaped (`utility.c:65`),
so that a device name with a quotation mark breaks the line (`PrintsAsMeant` is
about texts without); a number of 20 digits is rejected by `readall_as_uintmax`,
whose comment counts it in (`utility.c:267`); the search of
`MemoryUsagePrinter.cc:53` starts again at the same place.

## 6. Not modelled

* *Volume, time*: one call of a library per update and nothing kept. Their part
  in the loop is that of any block in `EventLoop`, their text that of a word in
  `Formats`. The text of the sensors and backlight blocks is likewise theirs.
* *Widths and alignment of numbers*, and formats that cannot be parsed except for
  their unit: those of fmt, which throws as it does over a unit.
* *SubInterpreter, create_new_ref, str_view*, and reading the elements of a tuple:
  no part of the program uses them.
* `readall_as_uintmax`: one conversion; its failures are `FileFails` in `Devices`.
* CPython, json-c, libsensors, ALSA and fmt are external.
* `malloc_trim`, the backtrace on SIGABRT, `nice`: no effect on this state. The
  command line is reduced to whether `--interval` is 0.
* `test/` and the build.

## 7. Plan

Done: the models of section 2, in the order `RefreshContract`, `EventLoop`,
`ClickStream`, `ClickChannel`, `Sensors`, `Interfaces`, `ModuleConfig`, `Devices`,
`Callbacks`, `Formats`, `FileRead`, `FileBlock`, and the proofs of section 4. Every
invariant, action property and refinement of a passing run is proved except
`PrintsAsMeant`.

Next:

1. `EventLoop` with `ClickChannel` in place of its count of whole clicks: the
   composition implements `EventLoop`'s stdin.
