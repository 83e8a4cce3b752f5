------------------------------ MODULE Devices ------------------------------
(***************************************************************************)
(* The battery and the backlight block: a vector of devices found in a     *)
(* directory of /sys, each owning a descriptor that stays open from one    *)
(* line to the next, while devices are plugged in and out at any moment.   *)
(* Either block is one behaviour: kind tells which.                        *)
(*                                                                         *)
(* The kernel numbers descriptors from the lowest free one and numbers are *)
(* used again, so that a descriptor closed twice, or used after it was     *)
(* closed, is another one's. A file of a device that is gone can neither   *)
(* be opened nor read; one that comes back is another device, perhaps with *)
(* the same name. A file of a device that is there may still be one that   *)
(* cannot be opened, read or understood.                                   *)
(***************************************************************************)
EXTENDS Naturals, Sequences, FiniteSets

CONSTANTS
    Device,      \* devices that may ever be plugged in
    NameOf,      \* the name each has in the directory
    Batteries,   \* those of type Battery
    ModelOf,     \* property model_name of each
    Excluded,    \* excluded_model of the configuration
    FdMax        \* the process has descriptors 1..FdMax for this block

ASSUME DevicesAssumption ==
    /\ IsFiniteSet(Device)
    /\ DOMAIN NameOf = Device /\ DOMAIN ModelOf = Device
    /\ Batteries \subseteq Device
    /\ Device \cap {"none", "unread", "dir"} = {}
    /\ FdMax \in Nat /\ FdMax > Cardinality({NameOf[d] : d \in Device})

VARIABLES
    present,   \* devices plugged in
    gone,      \* devices that were
    faulty,    \* devices a file of which failed although they were there
    open,      \* the table of descriptors
    kind,      \* "battery" or "backlight"
    pc,        \* where the process is
    started,   \* a line was begun
    updates,   \* updates left to do for this line
    todo,      \* names readdir has not returned yet
    dir_fd,    \* descriptor of the directory
    name,      \* name of the device looked at
    fd,        \* descriptor of a file of it
    devices,   \* the vector: descriptor, and the device the data is of
    next,      \* next device to update
    listed     \* observer: devices that were there when the directory was read

machine == <<present, gone, faulty>>
vars == <<machine, open, kind, pc, started, updates, todo, dir_fd, name, fd,
          devices, next, listed>>

NoFd == 0
None == "none"
Unread == "unread"

Named(S) == {NameOf[d] : d \in S}

Init ==
    /\ present \in {S \in SUBSET Device : \A c, d \in S : NameOf[c] = NameOf[d] => c = d}
    /\ gone = {} /\ faulty = {}
    /\ open = [f \in 1..FdMax |-> None]
    /\ kind \in {"battery", "backlight"}
    /\ pc = "opendir" /\ started = FALSE /\ updates = 0
    /\ todo = {} /\ dir_fd = NoFd /\ name = None /\ fd = NoFd
    /\ devices = <<>> /\ next = 1
    /\ listed = {}

----------------------------------------------------------------------------
(* Descriptors and who owns them *)

Free == {f \in 1..FdMax : open[f] = None}

Opens(f, what) ==
    /\ f \in Free
    /\ \A g \in Free : f <= g
    /\ open' = [open EXCEPT ![f] = what]

Closed(fds) == [f \in 1..FdMax |-> IF f \in fds THEN None ELSE open[f]]

Owned(entries) == {entries[i].fd : i \in DOMAIN entries} \ {NoFd}

(* Fd(Fd&&): a descriptor has one owner, what was moved from has none; the *)
(* destructor of Fd closes what is left. Growing or shrinking the vector   *)
(* moves every element and destroys those that are left behind.            *)
Moved_ResetFirst(entry) == [entry EXCEPT !.fd = NoFd]
Moved(entry) == entry

LeftBehind_StillOwns(entry) == entry
LeftBehind(entry) == [entry EXCEPT !.fd = NoFd]
ClosedByMove(entries) == Owned([i \in DOMAIN entries |-> LeftBehind(entries[i])])

----------------------------------------------------------------------------
(* One line: Base::update_and_print *)

(* batteries.clear(), backlights.clear(): the elements are destroyed. *)
Cleared_Kept == devices
Cleared == <<>>

(* A reload is followed by an update; a request to update and the cycle    *)
(* counter make one more each. The counter is due on the first line.       *)
Updates_ReloadOnly(requests, due) ==
    Cardinality(requests \ {"reload"}) + (IF due THEN 1 ELSE 0)
Updates(requests, due) == Cardinality(requests) + (IF due THEN 1 ELSE 0)

Line(requests, due) ==
    /\ updates' = Updates(requests, due)
    /\ IF "reload" \in requests
       THEN /\ devices' = Cleared
            /\ open' = Closed(Owned(devices) \ Owned(devices'))
            /\ pc' = "opendir"
       ELSE /\ pc' = IF updates' > 0 THEN "update" ELSE "print"
            /\ UNCHANGED <<devices, open>>

BeginLine ==
    /\ pc = "idle"
    /\ \E requests \in SUBSET {"update", "reload"}, due \in BOOLEAN :
         /\ ~started => due
         /\ Line(requests, due)
    /\ started' = TRUE /\ next' = 1
    /\ UNCHANGED <<machine, kind, todo, dir_fd, name, fd, listed>>

(* The block is printed from the vector. *)
PrintBlock ==
    /\ pc = "print"
    /\ pc' = "idle"
    /\ UNCHANGED <<machine, open, kind, started, updates, todo, dir_fd, name, fd,
                   devices, next, listed>>

----------------------------------------------------------------------------
(* Loading: visit_all_subdirs and its two visitors *)

(* The first readdir takes the whole of the directory from the kernel. *)
OpenDir ==
    /\ pc = "opendir"
    /\ \E f \in Free : Opens(f, "dir") /\ dir_fd' = f
    /\ todo' = Named(present) /\ listed' = present
    /\ pc' = "visit"
    /\ UNCHANGED <<machine, kind, started, updates, name, fd, devices, next>>

(* The directory is there only as long as the kernel has the class. *)
OpenDirFails ==
    /\ pc = "opendir"
    /\ present = {} \/ Free = {}
    /\ pc' = IF Free = {} THEN "failed" ELSE "no_class"
    /\ UNCHANGED <<machine, open, kind, started, updates, todo, dir_fd, name, fd,
                   devices, next, listed>>

(* openat_checked on a file of the device that has the name now. *)
OpenFile(n, place) ==
    \E d \in present, f \in Free :
       /\ NameOf[d] = n
       /\ Opens(f, d)
       /\ fd' = f
       /\ pc' = place

(* err and errx over a device, or for want of a descriptor. *)
Stops(culprits) ==
    /\ pc' = "failed"
    /\ faulty' = faulty \cup culprits
    /\ UNCHANGED <<present, gone, open, kind, started, updates, todo, dir_fd, name,
                   fd, devices, next, listed>>

(* The device that had the name is not there, or its file cannot be opened.*)
OpenFails(n) ==
    \/ (n \notin Named(present) \/ Free = {}) /\ Stops({})
    \/ \E d \in present : NameOf[d] = n /\ Stops({d})

(* What is read of a device that is gone fails. Of one that is there it    *)
(* may: the read or the lseek, an empty type, text that is no number of at *)
(* most 19 digits (readall_as_uintmax), a largest brightness of 0.         *)
FileFails(f) == Stops({open[f]} \cap present)

(* A name readdir returned: its "type", or its "max_brightness". *)
Visit ==
    /\ pc = "visit"
    /\ \E n \in todo :
         /\ name' = n /\ todo' = todo \ {n}
         /\ OpenFile(n, "first")
    /\ UNCHANGED <<machine, kind, started, updates, dir_fd, devices, next, listed>>

VisitFails ==
    /\ pc = "visit"
    /\ \E n \in todo : OpenFails(n)

Readable(f) == open[f] \in present

(* The first file is read and closed. What is not a battery is left out.   *)
ReadFirst ==
    /\ pc = "first"
    /\ Readable(fd)
    /\ pc' = IF kind = "battery" /\ open[fd] \notin Batteries THEN "visit" ELSE "second"
    /\ open' = Closed({fd}) /\ fd' = NoFd
    /\ UNCHANGED <<machine, kind, started, updates, todo, dir_fd, name, devices,
                   next, listed>>

(* The "uevent" or the "brightness", which stays open. *)
OpenSecond ==
    /\ pc = "second"
    /\ OpenFile(name, "found")
    /\ UNCHANGED <<machine, kind, started, updates, todo, dir_fd, name, devices,
                   next, listed>>

OpenSecondFails ==
    /\ pc = "second"
    /\ OpenFails(name)

(* push_back, emplace_back: the new element takes the descriptor over from *)
(* the one made on the stack, and the vector may grow.                     *)
Push(text) ==
    LET new == [fd |-> fd, text |-> text]
    IN  /\ devices' = Append(devices, Moved(new))
        /\ open' = Closed(ClosedByMove(Append(devices, new)))

Wanted_Excluded(d) == ModelOf[d] = Excluded
Wanted(d) == ModelOf[d] # Excluded

(* A battery is read at once, and dropped when its model is excluded.      *)
MakeBattery ==
    /\ pc = "found"
    /\ kind = "battery"
    /\ Readable(fd)
    /\ IF Wanted(open[fd]) THEN Push(open[fd])
                           ELSE open' = Closed({fd}) /\ UNCHANGED devices
    /\ fd' = NoFd
    /\ pc' = "visit"
    /\ UNCHANGED <<machine, kind, started, updates, todo, dir_fd, name, next, listed>>

(* The brightness is not read before the first update. *)
MakeBacklight ==
    /\ pc = "found"
    /\ kind = "backlight"
    /\ Push(Unread)
    /\ fd' = NoFd
    /\ pc' = "visit"
    /\ UNCHANGED <<machine, kind, started, updates, todo, dir_fd, name, next, listed>>

ReadFails ==
    /\ pc = "first" \/ (pc = "found" /\ kind = "battery")
    /\ FileFails(fd)

(* closedir and shrink_to_fit. The constructor ends here, a reload goes on *)
(* with an update.                                                         *)
EndVisit ==
    /\ pc = "visit"
    /\ todo = {}
    /\ open' = Closed({dir_fd} \cup ClosedByMove(devices)) /\ dir_fd' = NoFd
    /\ name' = None
    /\ pc' = IF updates > 0 THEN "update" ELSE "idle"
    /\ UNCHANGED <<machine, kind, started, updates, todo, fd, devices, next, listed>>

----------------------------------------------------------------------------
(* Updating *)

UpdateDevice ==
    /\ pc = "update"
    /\ next \in DOMAIN devices
    /\ Readable(devices[next].fd)
    /\ devices' = [devices EXCEPT ![next].text = open[devices[next].fd]]
    /\ next' = next + 1
    /\ UNCHANGED <<machine, open, kind, pc, started, updates, todo, dir_fd, name, fd,
                   listed>>

UpdateFails ==
    /\ pc = "update"
    /\ next \in DOMAIN devices
    /\ FileFails(devices[next].fd)

EndUpdate ==
    /\ pc = "update"
    /\ next \notin DOMAIN devices
    /\ updates' = updates - 1
    /\ next' = 1
    /\ pc' = IF updates' > 0 THEN "update" ELSE "print"
    /\ UNCHANGED <<machine, open, kind, started, todo, dir_fd, name, fd, devices, listed>>

----------------------------------------------------------------------------
(* The computer *)

process == <<open, kind, pc, started, updates, todo, dir_fd, name, fd, devices,
             next, listed>>

Plug(d) ==
    /\ d \notin present \cup gone
    /\ NameOf[d] \notin Named(present)
    /\ present' = present \cup {d}
    /\ UNCHANGED <<gone, faulty, process>>

Unplug(d) ==
    /\ d \in present
    /\ present' = present \ {d}
    /\ gone' = gone \cup {d}
    /\ UNCHANGED <<faulty, process>>

Terminated == pc \in {"failed", "no_class"} /\ UNCHANGED vars

Load ==
    \/ OpenDir \/ OpenDirFails \/ Visit \/ VisitFails
    \/ ReadFirst \/ OpenSecond \/ OpenSecondFails \/ MakeBattery \/ MakeBacklight
    \/ ReadFails \/ EndVisit

Next ==
    \/ BeginLine \/ PrintBlock \/ Load
    \/ UpdateDevice \/ UpdateFails \/ EndUpdate
    \/ \E d \in Device : Plug(d) \/ Unplug(d)
    \/ Terminated

Spec == Init /\ [][Next]_vars

----------------------------------------------------------------------------
Entry == [fd : 1..FdMax, text : Device \cup {Unread}]

(* Type correctness. *)
TypeOK ==
    /\ present \subseteq Device /\ gone \subseteq Device \ present
    /\ faulty \subseteq Device
    /\ open \in [1..FdMax -> Device \cup {"dir", None}]
    /\ kind \in {"battery", "backlight"}
    /\ pc \in {"idle", "opendir", "visit", "first", "second", "found",
               "update", "print", "failed", "no_class"}
    /\ started \in BOOLEAN /\ updates \in 0..3
    /\ todo \subseteq Named(Device) /\ name \in Named(Device) \cup {None}
    /\ dir_fd \in 0..FdMax /\ fd \in 0..FdMax
    /\ devices \in Seq(Entry) /\ next \in 1..(Len(devices) + 1)
    /\ listed \subseteq Device

(* Every open descriptor has one owner: an element of the vector or a      *)
(* local variable of the load that is under way. No device skipped, no     *)
(* reload and no growing vector leaves one open or closes another's.       *)
OneOwner ==
    /\ {f \in 1..FdMax : open[f] # None}
          = Owned(devices) \cup ({dir_fd, fd} \ {NoFd})
    /\ \A i, j \in DOMAIN devices : devices[i].fd = devices[j].fd => i = j
    /\ Owned(devices) \cap {dir_fd, fd} = {}
    /\ fd = dir_fd => fd = NoFd

(* What is printed of a device was read from it, and through the descriptor*)
(* it owns now: never the uninitialised brightness, never what an earlier  *)
(* owner of the same number has left.                                      *)
PrintsWhatItRead ==
    pc = "print" => \A i \in DOMAIN devices : devices[i].text = open[devices[i].fd]

(* The process stops only over a device of the directory as it was listed *)
(* last: one unplugged since then, or one that is there and whose file     *)
(* failed. It never stops over a device that went before the last reload,  *)
(* nor over one that came under a name that was free, and it never runs    *)
(* out of descriptors (makeBattery, Backlight, visit_all_subdirs, reload). *)
FailsOnlyOverListed == pc = "failed" => listed \cap (gone \cup faulty) # {}

(* Whatever happens between the reading of the directory and the opening   *)
(* of the files, and although another device may have a name by then: no   *)
(* name is on the bar twice, and no battery of the excluded model is.      *)
ShowsEachNameOnce ==
    pc = "print" =>
       /\ \A i, j \in DOMAIN devices :
             NameOf[open[devices[i].fd]] = NameOf[open[devices[j].fd]] => i = j
       /\ kind = "battery" =>
             \A i \in DOMAIN devices : ModelOf[open[devices[i].fd]] # Excluded

(* As long as nothing was plugged in or out since the last load, each      *)
(* device to be shown is shown, once.                                      *)
ShowsPresent ==
    pc = "print" /\ listed = present =>
       LET shown == {open[devices[i].fd] : i \in DOMAIN devices}
       IN  /\ shown = IF kind = "backlight" THEN present
                      ELSE {d \in present \cap Batteries : ModelOf[d] # Excluded}
           /\ Cardinality(shown) = Len(devices)
=============================================================================
