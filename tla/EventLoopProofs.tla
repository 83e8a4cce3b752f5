-------------------------- MODULE EventLoopProofs --------------------------
(***************************************************************************)
(* Theorems about EventLoop for every number of blocks, every width of the *)
(* cycle counter and every set of configurations.                          *)
(***************************************************************************)
EXTENDS EventLoop, TLAPS, SequenceTheorems

----------------------------------------------------------------------------
(* Type correctness *)

LEMMA Succ32Type == \A n \in 0..UINT32_MAX : Succ32(n) \in 0..UINT32_MAX
  BY ConstantsAssumption DEF Succ32

LEMMA Pred32Type == \A n \in 0..UINT32_MAX : Pred32(n) \in 0..UINT32_MAX
  BY ConstantsAssumption DEF Pred32

LEMMA PeriodType == \A n \in 0..UINT32_MAX : Period(n) \in 1..(UINT32_MAX + 1)
  BY ConstantsAssumption DEF Period

LEMMA ExtendType == \A s, t : Extend(s, t) \in Stream
  BY DEF Extend, Stream

LEMMA ConfigTyped ==
    ASSUME TypeOK
    PROVE  /\ config.interval \in [Block -> 0..UINT32_MAX]
           /\ config.handled \in SUBSET Block
  BY ConstantsAssumption DEF TypeOK, ConfigType

LEMMA NoneWaiting ==
    <<>> \in Seq(Fd) /\ <<>> \in Seq(Block) /\ <<>> \in Seq(Event)
  BY EmptySeq

LEMMA FunctionIsSeq ==
    ASSUME NEW S, NEW n \in Nat, NEW f \in [1..n -> S]
    PROVE  f \in Seq(S) /\ Len(f) = n
  <1>1. f \in UNION {[1..m -> S] : m \in Nat}
    OBVIOUS
  <1>2. f \in Seq(S)
    BY <1>1, SeqDef
  <1>3. Len(f) \in Nat /\ DOMAIN f = 1..Len(f)
    BY <1>2, LenProperties
  <1> QED
    BY <1>2, <1>3

LEMMA TypeInit == Init => TypeOK
  <1> SUFFICES ASSUME Init PROVE TypeOK
    OBVIOUS
  <1> /\ 0 \in 0..UINT32_MAX
      /\ 1 \in 1..(NBlocks + 1)
    BY ConstantsAssumption
  <1>1. /\ fds \in Seq(Fd)
        /\ revents \in Seq(Event)
        /\ stdin \in Seq(Block)
    BY NoneWaiting DEF Init
  <1>2. /\ cycle_cnt \in [Block -> 0..UINT32_MAX]
        /\ requested_events \in [Block -> SUBSET Request]
        /\ age \in [Block -> Nat]
    BY DEF Init
  <1>3. unread \in 0..PipeMax /\ blk \in 1..(NBlocks + 1)
    BY ConstantsAssumption DEF Init
  <1> QED
    BY <1>1, <1>2, <1>3 DEF Init, TypeOK, PC, Stream

(* The step lemma: one step per action that writes to the state, the rest  *)
(* of the actions leave everything but the program counter alone.          *)
LEMMA TypeStep == TypeOK /\ [Next]_vars => TypeOK'
  <1> SUFFICES ASSUME TypeOK, [Next]_vars PROVE TypeOK'
    OBVIOUS
  <1> USE ConstantsAssumption DEF TypeOK, PC
  <1>1. CASE InstallHandlers
    BY <1>1 DEF InstallHandlers, kernel, shown
  <1>2. CASE MakeModules
    <2>1. /\ config' \in Configs
          /\ config'.interval \in [Block -> 0..UINT32_MAX]
      BY <1>2 DEF MakeModules, ConfigType
    <2>2. cycle_cnt' \in [Block -> 0..UINT32_MAX]
      BY <1>2, <2>1, Pred32Type DEF MakeModules
    <2>3. fds' \in Seq(Fd)
      BY <1>2 DEF MakeModules, Register, Fd
    <2> QED
      BY <1>2, <2>1, <2>2, <2>3 DEF MakeModules, AfterModules, kernel, shown
  <1>3. CASE ConfigFails
    BY <1>3 DEF ConfigFails, Exit, kernel, shown
  <1>4. CASE PrintHeader
    BY <1>4, ExtendType DEF PrintHeader, Flush, shown
  <1>5. CASE OpenArray
    BY <1>5, ExtendType DEF OpenArray, Flush, shown
  <1>6. CASE ArmTimer
    <2>1. fds' \in Seq(Fd)
      BY <1>6 DEF ArmTimer, Register, Fd
    <2> QED
      BY <1>6, <2>1 DEF ArmTimer, shown
  <1>7. CASE Poll
    <2>1. \A i \in 1..Len(fds) : Revents(fds[i]) \in Event
      BY DEF Revents, Event
    <2>2. revents' \in Seq(Event)
      <3>1. revents' \in [1..Len(fds) -> Event]
        BY <1>7, <2>1 DEF Poll, Polled
      <3>2. Len(fds) \in Nat
        BY LenProperties
      <3> QED
        BY <3>1, <3>2, FunctionIsSeq
    <2> QED
      BY <1>7, <2>2 DEF Poll, kernel, shown
  <1>8. ASSUME Dispatched PROVE revents' \in Seq(Event)
    <2>1. /\ Len(revents) \in Nat
          /\ revents \in [1..Len(revents) -> Event]
      BY LenProperties
    <2>2. {} \in Event
      BY DEF Event
    <2>3. revents' \in [1..Len(revents) -> Event]
      BY <1>8, <2>1, <2>2 DEF Dispatched
    <2> QED
      BY <2>1, <2>3, FunctionIsSeq
  <1>9. CASE IgnoreHangup
    BY <1>8, <1>9 DEF IgnoreHangup, Dispatching, kernel, shown
  <1>10. CASE StdinFails
    BY <1>10 DEF StdinFails, Exit, kernel, shown
  <1>11. CASE HandleClicks
    <2>1. stdin' \in Seq(Block)
      <3>1. ReadLen \in 0..Len(stdin)
        BY DEF ReadLen
      <3> QED
        BY <1>11, <3>1 DEF HandleClicks
    <2>2. requested_events' \in [Block -> SUBSET Request]
      <3>1. PICK returned \in [1..ReadLen -> SUBSET Request] :
              requested_events' = [b \in Block |->
                  requested_events[b] \cup RequestsOf(b, returned)]
        BY <1>11 DEF HandleClicks
      <3>2. \A b \in Block : RequestsOf(b, returned) \in SUBSET Request
        BY DEF RequestsOf
      <3> QED
        BY <3>1, <3>2
    <2> QED
      BY <1>8, <1>11, <2>1, <2>2 DEF HandleClicks, Dispatching, shown
  <1>12. CASE HandlerFails
    BY <1>12 DEF HandlerFails, Exit, kernel, shown
  <1>13. CASE BeginLine
    <2>1. 1 \in 1..(NBlocks + 1)
      OBVIOUS
    <2> QED
      BY <1>13, <2>1, ExtendType DEF BeginLine, kernel, shown
  <1>14. CASE UpdateAndPrint
    <2>1. blk \in Block /\ blk' \in 1..(NBlocks + 1)
      BY <1>14 DEF UpdateAndPrint, Block
    <2>2. cycle_cnt' \in [Block -> 0..UINT32_MAX]
      <3>1. Succ32(cycle_cnt[blk]) \in 0..UINT32_MAX /\ 0 \in 0..UINT32_MAX
        BY <2>1, Succ32Type
      <3> QED
        BY <1>14, <2>1, <3>1 DEF UpdateAndPrint
    <2>3. requested_events' \in [Block -> SUBSET Request]
      BY <1>14, <2>1 DEF UpdateAndPrint, Served
    <2>4. fetched' \subseteq Block /\ age' \in [Block -> Nat]
      BY <1>14, <2>1 DEF UpdateAndPrint
    <2>5. printed' \in Stream
      BY <1>14, ExtendType DEF UpdateAndPrint
    <2> QED
      BY <1>14, <2>1, <2>2, <2>3, <2>4, <2>5 DEF UpdateAndPrint, kernel
  <1>15. CASE UpdateFails
    BY <1>15 DEF UpdateFails, Exit, kernel, shown
  <1>16. CASE EndLine
    BY <1>16, ExtendType DEF EndLine, Flush, shown
  <1>17. CASE WriteFails
    BY <1>17 DEF WriteFails, Exit, kernel, shown
  <1>18. CASE ReadTimer
    BY <1>8, <1>18 DEF ReadTimer, Exit, shown
  <1>19. CASE PollAgain
    BY <1>19 DEF PollAgain, kernel, shown
  <1>20. CASE Exec
    <2> 0 \in 0..UINT32_MAX /\ 1 \in 1..(NBlocks + 1)
      OBVIOUS
    <2> QED
      BY <1>20, NoneWaiting DEF Exec
  <1>21. CASE ExecFails
    BY <1>21 DEF ExecFails, Exit, kernel, shown
  <1>22. CASE Environment
    <2>1. CASE Click
      BY <2>1 DEF Click, process, shown
    <2>2. CASE SwaybarReads
      BY <2>2 DEF SwaybarReads, process, shown
    <2>3. CASE HangUp
      BY <2>3 DEF HangUp, process, shown
    <2>4. CASE StdinErrors
      <3>1. stdin' \in Seq(Block)
        BY <2>4, NoneWaiting DEF StdinErrors
      <3> QED
        BY <2>4, <3>1 DEF StdinErrors, process, shown
    <2>5. CASE CloseStdout
      BY <2>5 DEF CloseStdout, process, shown
    <2>6. CASE TimerExpires
      BY <2>6 DEF TimerExpires, process, shown
    <2>7. CASE Signal
      BY <2>7 DEF Signal, kernel, shown
    <2> QED
      BY <1>22, <2>1, <2>2, <2>3, <2>4, <2>5, <2>6, <2>7 DEF Environment
  <1>23. CASE UNCHANGED vars
    BY <1>23 DEF vars, process, kernel, shown
  <1> QED
    BY <1>1, <1>2, <1>3, <1>4, <1>5, <1>6, <1>7, <1>9, <1>10, <1>11, <1>12,
       <1>13, <1>14, <1>15, <1>16, <1>17, <1>18, <1>19, <1>20, <1>21,
       <1>22, <1>23 DEF Next, Step, Terminated

(* The loop and the kernel objects keep their types: cycle_cnt stays a     *)
(* uint32_t, and the output is always a known prefix of the protocol.      *)
THEOREM TypeCorrect == Spec => []TypeOK
  BY TypeInit, TypeStep, PTL DEF Spec

----------------------------------------------------------------------------
(* The inductive invariant *)

(* The modules exist between their construction and the end of the process *)
(* image.                                                                  *)
Built == pc \in {"header", "open", "arm", "poll", "dispatch", "print", "drain"}
Looping == pc \in {"poll", "dispatch", "print", "drain"}

(* The counter of a fetched block is an upper bound of the age of its text *)
(* and below the interval; the counter of the others is one short of it.   *)
Counted(b) ==
    LET interval == config.interval[b]
    IN  IF b \in fetched
          THEN /\ age[b] <= cycle_cnt[b]
               /\ interval > 0 => cycle_cnt[b] < interval
          ELSE cycle_cnt[b] = Pred32(interval)

CounterInv ==
    /\ \A b \in fetched : age[b] < Period(config.interval[b])
    /\ pc \in {"start", "config"} => fetched = {} /\ age = [b \in Block |-> 0]
    /\ Built => \A b \in Block : Counted(b)
    /\ pc \in {"print", "drain"} => 1..(blk - 1) \subseteq fetched

(* Which descriptors are registered when, and that an expiration that was  *)
(* reported is still there as long as it is not dispatched.                *)
PollInv ==
    /\ pc \in {"start", "config"} => fds = <<>>
    /\ pc \in {"header", "open", "arm"} => Len(fds) = 1 /\ fds[1] = "stdin"
    /\ Looping => Len(fds) = 2 /\ fds[1] = "stdin" /\ fds[2] = "timer"
    /\ pc \in {"dispatch", "print", "drain"} => revents \in [1..2 -> Event]
    /\ pc = "dispatch" /\ revents[2] # {} => expired
    /\ pc \in {"print", "drain"} =>
           revents[1] = {} /\ revents[2] # {} /\ expired

RequestInv ==
    /\ pc \in {"print", "drain"} =>
           \A b \in Block : b < blk => requested_events[b] = {}
    /\ pc = "drain" => blk \notin Block
    /\ pc \in {"start", "config"} => \A b \in Block : requested_events[b] = {}

(* What is printed and what swaybar was sent, at every place. *)
StreamInv ==
    /\ printed # "malformed"
    /\ pc \in {"start", "config"} =>
           printed = sent /\ sent = IF is_reload THEN "array" ELSE "none"
    /\ pc = "header" => printed = "none" /\ sent = "none"
    /\ pc = "open" => printed = "header" /\ sent = "header"
    /\ pc \in {"arm", "poll", "dispatch", "drain"} =>
           printed = "array" /\ sent = "array"
    /\ pc = "print" => printed = "line" /\ sent = "array"

----------------------------------------------------------------------------
(* What the steps have in common *)

Failure ==
    \/ ConfigFails \/ StdinFails \/ HandlerFails \/ UpdateFails \/ WriteFails
    \/ ExecFails

Work ==
    \/ InstallHandlers \/ MakeModules \/ PrintHeader \/ OpenArray \/ ArmTimer
    \/ Poll \/ IgnoreHangup \/ HandleClicks
    \/ BeginLine \/ UpdateAndPrint \/ EndLine \/ ReadTimer \/ PollAgain \/ Exec

visible == <<is_reload, config, cycle_cnt, requested_events, fds, revents, blk,
             printed, sent, fetched, age>>

LEMMA FailureStep ==
    ASSUME Failure
    PROVE  pc' = "exited" /\ UNCHANGED <<visible, expired>>
  BY DEF Failure, ConfigFails, StdinFails, HandlerFails, UpdateFails, WriteFails,
         ExecFails, Exit, visible, kernel, shown

LEMMA EnvironmentStep ==
    ASSUME Environment
    PROVE  /\ UNCHANGED visible
           /\ expired => expired'
           /\ pc' \in {pc, "killed"}
  <1>1. CASE Signal
    BY <1>1 DEF Signal, visible, kernel, shown
  <1>2. CASE Click \/ SwaybarReads \/ HangUp \/ StdinErrors \/ CloseStdout
    BY <1>2 DEF Click, SwaybarReads, HangUp, StdinErrors, CloseStdout,
                visible, process, shown
  <1>3. CASE TimerExpires
    BY <1>3 DEF TimerExpires, visible, process, shown
  <1> QED
    BY <1>1, <1>2, <1>3 DEF Environment

(* A step does some work, stops the process, or is the environment's. *)
LEMMA StepKinds ==
    ASSUME [Next]_vars
    PROVE  \/ Work
           \/ pc' = "exited" /\ UNCHANGED <<visible, expired>>
           \/ /\ UNCHANGED visible
              /\ expired => expired'
              /\ pc' \in {pc, "killed"}
  <1>1. CASE Step
    BY <1>1, FailureStep DEF Step, Work, Failure
  <1>2. CASE Environment
    BY <1>2, EnvironmentStep
  <1>3. CASE UNCHANGED vars
    BY <1>3 DEF vars, process, kernel, shown, visible
  <1> QED
    BY <1>1, <1>2, <1>3 DEF Next, Terminated

----------------------------------------------------------------------------
(* Polling *)

LEMMA CurrentFacts ==
    ASSUME revents \in [1..2 -> Event], Pending # {}
    PROVE  Current = IF revents[1] # {} THEN 1 ELSE 2
  <1>1. Pending = {i \in {1, 2} : revents[i] # {}}
    BY DEF Pending
  <1>2. PICK i \in Pending : \A j \in Pending : i <= j
    BY <1>1
  <1>3. Current \in Pending /\ \A j \in Pending : Current <= j
    BY <1>2 DEF Current
  <1> QED
    BY <1>1, <1>3

LEMMA AppendSecond ==
    ASSUME NEW S, NEW s \in Seq(S), NEW e \in S, Len(s) = 1
    PROVE  Len(Append(s, e)) = 2 /\ Append(s, e)[1] = s[1] /\ Append(s, e)[2] = e
  <1>1. Append(s, e)[1] = s[1]
    BY AppendProperties
  <1>2. Append(s, e)[2] = e
    BY AppendProperties
  <1>3. Len(Append(s, e)) = 2
    OBVIOUS
  <1> QED
    BY <1>1, <1>2, <1>3, Zenon

LEMMA PollInit == Init => PollInv
  BY DEF Init, PollInv, Looping

LEMMA PollStep == TypeOK /\ PollInv /\ [Next]_vars => PollInv'
  <1> SUFFICES ASSUME TypeOK, PollInv, [Next]_vars PROVE PollInv'
    OBVIOUS
  <1> USE DEF PollInv, Looping
  <1>1. CASE pc' = "exited" /\ UNCHANGED <<visible, expired>>
    BY <1>1
  <1>2. CASE UNCHANGED visible /\ (expired => expired') /\ pc' \in {pc, "killed"}
    BY <1>2 DEF visible
  <1>3. CASE InstallHandlers \/ PrintHeader \/ OpenArray \/ PollAgain \/ Exec
    BY <1>3 DEF InstallHandlers, PrintHeader, OpenArray, PollAgain, RoundDone, Exec
  <1>4. CASE MakeModules
    BY <1>4 DEF MakeModules, AfterModules, Register
  <1>5. CASE ArmTimer
    <2>1. fds \in Seq(Fd) /\ Len(fds) = 1 /\ fds[1] = "stdin"
      BY <1>5 DEF ArmTimer, TypeOK
    <2>2. fds' = Append(fds, "timer")
      BY <1>5 DEF ArmTimer, Register
    <2>3. Len(fds') = 2 /\ fds'[1] = "stdin" /\ fds'[2] = "timer"
      <3>1. "timer" \in Fd
        BY DEF Fd
      <3> QED
        BY <2>1, <2>2, <3>1, AppendSecond
    <2> QED
      BY <1>5, <2>3 DEF ArmTimer
  <1>6. CASE Poll
    <2>1. Len(fds) = 2 /\ fds[1] = "stdin" /\ fds[2] = "timer"
      BY <1>6 DEF Poll
    <2>2. \A i \in 1..2 : Revents(fds[i]) \in Event
      BY DEF Revents, Event
    <2>3. revents' = [i \in 1..2 |-> Revents(fds[i])]
      BY <1>6, <2>1 DEF Poll, Polled
    <2>4. Revents("timer") # {} => expired
      BY DEF Revents
    <2> QED
      BY <1>6, <2>1, <2>2, <2>3, <2>4 DEF Poll, kernel
  <1>7. CASE IgnoreHangup \/ HandleClicks
    <2>1. /\ pc = "dispatch" /\ pc' = pc /\ UNCHANGED <<fds, expired>>
          /\ Pending # {} /\ fds[Current] = "stdin" /\ Dispatched
      BY <1>7 DEF IgnoreHangup, HandleClicks, Dispatching, kernel
    <2>2. Current = 1
      BY <2>1, CurrentFacts
    <2>3. revents' = [revents EXCEPT ![1] = {}]
      BY <2>1, <2>2 DEF Dispatched
    <2> QED
      BY <2>1, <2>3 DEF Event
  <1>8. CASE BeginLine
    <2>1. /\ pc = "dispatch" /\ pc' = "print" /\ UNCHANGED <<fds, revents, expired>>
          /\ Pending # {} /\ fds[Current] = "timer"
      BY <1>8 DEF BeginLine, Dispatching, kernel
    <2>2. Current = 2 /\ revents[1] = {}
      BY <2>1, CurrentFacts
    <2>3. revents[2] # {}
      BY <2>1, <2>2 DEF Pending
    <2> QED
      BY <2>1, <2>2, <2>3
  <1>9. CASE UpdateAndPrint \/ EndLine
    BY <1>9 DEF UpdateAndPrint, EndLine, kernel
  <1>10. CASE ReadTimer
    <2>1. Pending # {} /\ revents \in [1..2 -> Event]
      BY <1>10 DEF ReadTimer, Pending
    <2>2. Current = 2
      BY <1>10, <2>1, CurrentFacts DEF ReadTimer
    <2>3. revents' = [revents EXCEPT ![2] = {}]
      BY <1>10, <2>2 DEF ReadTimer, Dispatched
    <2> QED
      BY <1>10, <2>1, <2>3 DEF ReadTimer, Event
  <1> QED
    BY <1>1, <1>2, <1>3, <1>4, <1>5, <1>6, <1>7, <1>8, <1>9, <1>10, StepKinds
       DEF Work

----------------------------------------------------------------------------
(* Requests and output *)

LEMMA RequestInit == Init => RequestInv
  BY DEF Init, RequestInv

LEMMA RequestStep == TypeOK /\ RequestInv /\ [Next]_vars => RequestInv'
  <1> SUFFICES ASSUME TypeOK, RequestInv, [Next]_vars PROVE RequestInv'
    OBVIOUS
  <1> USE DEF RequestInv
  <1>1. CASE pc' = "exited" /\ UNCHANGED <<visible, expired>>
    BY <1>1
  <1>2. CASE UNCHANGED visible /\ (expired => expired') /\ pc' \in {pc, "killed"}
    BY <1>2 DEF visible
  <1>3. CASE InstallHandlers \/ MakeModules \/ PrintHeader \/ OpenArray
    BY <1>3 DEF InstallHandlers, MakeModules, AfterModules, PrintHeader, OpenArray
  <1>4. CASE ArmTimer \/ Poll \/ IgnoreHangup \/ HandleClicks
    BY <1>4 DEF ArmTimer, Poll, IgnoreHangup, HandleClicks, Dispatching
  <1>5. CASE ReadTimer \/ PollAgain \/ Exec
    BY <1>5 DEF ReadTimer, Exit, PollAgain, RoundDone, Exec
  <1>6. CASE BeginLine
    <2>1. pc' = "print" /\ blk' = 1
      BY <1>6 DEF BeginLine
    <2> QED
      BY <2>1, ConstantsAssumption DEF Block
  <1>7. CASE UpdateAndPrint
    <2>1. /\ pc = "print" /\ pc' = pc /\ blk \in Block /\ blk' = blk + 1
          /\ requested_events' = [requested_events EXCEPT ![blk] = {}]
      BY <1>7 DEF UpdateAndPrint, Served
    <2>2. \A b \in Block : b < blk' => requested_events'[b] = {}
      BY <2>1, ConstantsAssumption DEF Block, TypeOK
    <2> QED
      BY <2>1, <2>2
  <1>8. CASE EndLine
    BY <1>8 DEF EndLine
  <1> QED
    BY <1>1, <1>2, <1>3, <1>4, <1>5, <1>6, <1>7, <1>8, StepKinds DEF Work

LEMMA StreamInit == Init => StreamInv
  BY DEF Init, StreamInv

LEMMA StreamStep == TypeOK /\ StreamInv /\ [Next]_vars => StreamInv'
  <1> SUFFICES ASSUME TypeOK, StreamInv, [Next]_vars PROVE StreamInv'
    OBVIOUS
  <1> USE DEF StreamInv
  <1>1. CASE pc' = "exited" /\ UNCHANGED <<visible, expired>>
    BY <1>1 DEF visible
  <1>2. CASE UNCHANGED visible /\ (expired => expired') /\ pc' \in {pc, "killed"}
    BY <1>2 DEF visible
  <1>3. CASE InstallHandlers
    BY <1>3 DEF InstallHandlers, kernel
  <1>4. CASE MakeModules
    BY <1>4 DEF MakeModules, AfterModules, kernel, TypeOK
  <1>5. CASE PrintHeader
    BY <1>5 DEF PrintHeader, Flush, Extend
  <1>6. CASE OpenArray
    BY <1>6 DEF OpenArray, Flush, Extend
  <1>7. CASE ArmTimer \/ Poll \/ IgnoreHangup \/ HandleClicks
    BY <1>7 DEF ArmTimer, Poll, IgnoreHangup, HandleClicks, Dispatching, kernel
  <1>8. CASE BeginLine
    BY <1>8 DEF BeginLine, Dispatching, Extend, kernel
  <1>9. CASE UpdateAndPrint
    BY <1>9 DEF UpdateAndPrint, Extend, kernel
  <1>10. CASE EndLine
    BY <1>10 DEF EndLine, Flush, Extend
  <1>11. CASE ReadTimer \/ PollAgain
    BY <1>11 DEF ReadTimer, Exit, PollAgain, RoundDone, kernel
  <1>12. CASE Exec
    BY <1>12 DEF Exec, RoundDone
  <1> QED
    BY <1>1, <1>2, <1>3, <1>4, <1>5, <1>6, <1>7, <1>8, <1>9, <1>10, <1>11,
       <1>12, StepKinds DEF Work

----------------------------------------------------------------------------
(* The cycle counters *)

LEMMA CounterInit == Init => CounterInv
  BY DEF Init, CounterInv, Built

(* A line in which the counter does not come round lets the age grow by    *)
(* one, below the counter; one in which it does starts both again. A block *)
(* that is not fetched yet has its counter one short of the interval.      *)
LEMMA CountOneLine ==
    ASSUME NEW interval \in 0..UINT32_MAX, NEW count \in 0..UINT32_MAX
    PROVE  /\ count = Pred32(interval) => Succ32(count) = interval
           /\ Succ32(count) # interval /\ (interval > 0 => count < interval)
                => /\ Succ32(count) = count + 1
                   /\ interval > 0 => count + 1 < interval
                   /\ count + 1 < Period(interval)
  BY ConstantsAssumption DEF Pred32, Succ32, Period

LEMMA CounterStep == TypeOK /\ CounterInv /\ [Next]_vars => CounterInv'
  <1> SUFFICES ASSUME TypeOK, CounterInv, [Next]_vars PROVE CounterInv'
    OBVIOUS
  <1> USE DEF CounterInv, Built
  <1>1. CASE pc' = "exited" /\ UNCHANGED <<visible, expired>>
    BY <1>1 DEF visible
  <1>2. CASE UNCHANGED visible /\ (expired => expired') /\ pc' \in {pc, "killed"}
    BY <1>2 DEF visible, Counted
  <1>3. CASE InstallHandlers
    BY <1>3 DEF InstallHandlers, shown
  <1>4. CASE MakeModules
    <2>1. /\ pc' \in {"arm", "header"} /\ fetched = {} /\ UNCHANGED shown
          /\ cycle_cnt' = [b \in Block |-> Pred32(config'.interval[b])]
      BY <1>4 DEF MakeModules, AfterModules
    <2> QED
      BY <2>1 DEF shown, Counted
  <1>5. CASE PrintHeader \/ OpenArray \/ ArmTimer
    BY <1>5 DEF PrintHeader, OpenArray, ArmTimer, shown, Counted
  <1>6. CASE Poll \/ IgnoreHangup \/ HandleClicks
    BY <1>6 DEF Poll, IgnoreHangup, HandleClicks, Dispatching, shown, Counted
  <1>7. CASE BeginLine
    <2>1. pc = "dispatch" /\ blk' = 1
      BY <1>7 DEF BeginLine, Dispatching
    <2>2. 1..(blk' - 1) = {}
      BY <2>1
    <2> QED
      BY <1>7, <2>1, <2>2 DEF BeginLine, shown, Counted
  <1>8. CASE UpdateAndPrint
    <2> DEFINE interval == config.interval[blk]
               count    == cycle_cnt[blk]
               wrapped  == Succ32(count) = interval
               updated  == NeedsUpdate(requested_events[blk], wrapped)
    <2>1. /\ pc = "print" /\ pc' = pc /\ UNCHANGED config
          /\ blk \in Block /\ blk' = blk + 1
          /\ cycle_cnt' = [cycle_cnt EXCEPT ![blk] =
                              IF wrapped THEN 0 ELSE Succ32(count)]
          /\ age' = [age EXCEPT ![blk] = IF updated THEN 0 ELSE @ + 1]
          /\ fetched' = IF updated THEN fetched \cup {blk} ELSE fetched
      BY <1>8 DEF UpdateAndPrint
    <2>2. /\ interval \in 0..UINT32_MAX /\ count \in 0..UINT32_MAX
          /\ age[blk] \in Nat /\ fetched \subseteq Block
      BY <2>1, ConfigTyped DEF TypeOK
    <2>3. wrapped => updated
      BY DEF NeedsUpdate
    <2>4. blk \notin fetched => wrapped
      BY <2>1, <2>2, CountOneLine DEF Counted
    <2>5. blk \in fetched'
      BY <2>1, <2>3, <2>4
    <2>6. ASSUME NEW b \in Block, b = blk
          PROVE  age'[b] < Period(interval) /\ Counted(b)'
      <3>1. age'[b] = (IF updated THEN 0 ELSE age[blk] + 1)
        BY <2>1, <2>6 DEF TypeOK
      <3>2. cycle_cnt'[b] = (IF wrapped THEN 0 ELSE Succ32(count))
        BY <2>1, <2>6 DEF TypeOK
      <3>3. config'.interval[b] = interval /\ b \in fetched'
        BY <2>1, <2>5, <2>6
      <3>4. CASE wrapped
        <4>1. age'[b] = 0 /\ cycle_cnt'[b] = 0
          BY <2>3, <3>1, <3>2, <3>4
        <4>2. 0 < Period(interval)
          BY <2>2, PeriodType
        <4> HIDE DEF interval
        <4> QED
          BY <2>2, <3>3, <4>1, <4>2 DEF Counted
      <3>5. CASE ~wrapped
        <4>1. age[blk] <= count /\ (interval > 0 => count < interval)
          BY <2>1, <2>4, <3>5 DEF Counted
        <4>2. /\ Succ32(count) = count + 1 /\ count + 1 < Period(interval)
              /\ interval > 0 => count + 1 < interval
          BY <2>2, <3>5, <4>1, CountOneLine
        <4>3. cycle_cnt'[b] = count + 1 /\ age'[b] \in {0, age[blk] + 1}
          BY <3>1, <3>2, <3>5, <4>2
        <4>4. Period(interval) \in Nat
          BY <2>2, PeriodType
        <4> HIDE DEF interval, count
        <4> QED
          BY <2>2, <3>3, <4>1, <4>2, <4>3, <4>4 DEF Counted
      <3> QED
        BY <3>4, <3>5
    <2>7. \A b \in Block \ {blk} :
            /\ age'[b] = age[b] /\ cycle_cnt'[b] = cycle_cnt[b]
            /\ b \in fetched' <=> b \in fetched
      BY <2>1 DEF TypeOK
    <2>8. \A b \in fetched' : age'[b] < Period(config'.interval[b])
      BY <2>1, <2>2, <2>6, <2>7
    <2>9. \A b \in Block : Counted(b)'
      BY <2>1, <2>6, <2>7 DEF Counted
    <2>10. 1..(blk' - 1) \subseteq fetched'
      <3>1. 1..(blk' - 1) = 1..(blk - 1) \cup {blk}
        BY <2>1, ConstantsAssumption DEF Block
      <3> QED
        BY <2>1, <2>5, <3>1
    <2> QED
      BY <2>1, <2>8, <2>9, <2>10
  <1>9. CASE EndLine \/ ReadTimer \/ PollAgain
    BY <1>9 DEF EndLine, ReadTimer, Exit, PollAgain, RoundDone, shown, Counted
  <1>10. CASE Exec
    BY <1>10 DEF Exec
  <1> QED
    BY <1>1, <1>2, <1>3, <1>4, <1>5, <1>6, <1>7, <1>8, <1>9, <1>10, StepKinds
       DEF Work

----------------------------------------------------------------------------
(* The invariants of the runs, for every instance *)

IInv == TypeOK /\ PollInv /\ RequestInv /\ StreamInv /\ CounterInv

LEMMA Inductive == Spec => []IInv
  <1>1. Init => IInv
    BY TypeInit, PollInit, RequestInit, StreamInit, CounterInit DEF IInv
  <1>2. IInv /\ [Next]_vars => IInv'
    BY TypeStep, PollStep, RequestStep, StreamStep, CounterStep DEF IInv
  <1> QED
    BY <1>1, <1>2, PTL DEF Spec

(* No text is ever shown on as many lines as its update interval, whatever *)
(* the interleaving of ticks, clicks, signals and reloads, and for every   *)
(* interval including 0: Base::update_and_print.                           *)
THEOREM StalenessBounded == Spec => []StalenessBound
  <1>1. IInv => StalenessBound
    BY DEF IInv, CounterInv, StalenessBound
  <1> QED
    BY <1>1, Inductive, PTL

(* The clicks poll() reported along with a tick are dispatched before the  *)
(* line is printed, and the line serves every request.                     *)
THEOREM ClicksBeforeTick == Spec => []NoClickOutlivesTick
  <1>1. IInv => NoClickOutlivesTick
    <2> SUFFICES ASSUME IInv PROVE NoClickOutlivesTick
      OBVIOUS
    <2>1. pc \in {"print", "drain"} => \A i \in Pending : fds[i] # "stdin"
      <3> SUFFICES ASSUME pc \in {"print", "drain"}, NEW i \in Pending
                   PROVE  fds[i] # "stdin"
        OBVIOUS
      <3>1. /\ fds[2] = "timer" /\ revents[1] = {}
            /\ revents \in [1..2 -> Event]
        BY DEF IInv, PollInv, Looping
      <3> QED
        BY <3>1 DEF Pending
    <2>2. pc = "drain" => \A b \in Block : requested_events[b] = {}
      BY ConstantsAssumption DEF IInv, RequestInv, TypeOK, Block
    <2> QED
      BY <2>1, <2>2 DEF NoClickOutlivesTick
  <1> QED
    BY <1>1, Inductive, PTL

(* The read of the timer at the end of a line never fails. *)
THEOREM TimerNeverEmpty == Spec => []TimerStillExpired
  <1>1. IInv => TimerStillExpired
    BY DEF IInv, PollInv, TimerStillExpired
  <1> QED
    BY <1>1, Inductive, PTL

(* Across any number of reloads swaybar receives one well-formed stream.   *)
THEOREM StreamCorrect == Spec => []StdoutWellFormed
  <1>1. IInv => StdoutWellFormed
    BY DEF IInv, StreamInv, StdoutWellFormed, RoundDone
  <1> QED
    BY <1>1, Inductive, PTL

----------------------------------------------------------------------------
(* The loop implements the contract of the blocks *)

LEMMA ContractInit == Init => Contract!Init
  <1> SUFFICES ASSUME Init PROVE Contract!Init
    OBVIOUS
  <1>1. config.interval \in [Block -> 0..UINT32_MAX]
    BY ConstantsAssumption DEF Init, ConfigType
  <1> QED
    BY <1>1, PeriodType DEF Init, Contract!Init

LEMMA ContractStep == IInv /\ IInv' /\ [Next]_vars => [Contract!Next]_(Contract!vars)
  <1> SUFFICES ASSUME IInv, IInv', [Next]_vars PROVE [Contract!Next]_(Contract!vars)
    OBVIOUS
  <1> USE DEF Contract!vars
  <1>1. CASE UNCHANGED visible
    BY <1>1 DEF visible
  <1>2. CASE InstallHandlers \/ PrintHeader \/ OpenArray \/ ArmTimer \/ Poll
    BY <1>2 DEF InstallHandlers, PrintHeader, OpenArray, ArmTimer, Poll, shown
  <1>3. CASE IgnoreHangup \/ BeginLine \/ EndLine \/ ReadTimer \/ PollAgain
    BY <1>3 DEF IgnoreHangup, BeginLine, EndLine, ReadTimer, PollAgain, shown
  <1>4. ASSUME fetched' = {}, age' = [b \in Block |-> 0],
               \A b \in Block : requested_events'[b] = {}
        PROVE  Contract!Restart
    <2>1. config'.interval \in [Block -> 0..UINT32_MAX]
      BY ConstantsAssumption DEF IInv, TypeOK, ConfigType
    <2>2. [b \in Block |-> Period(config'.interval[b])]
            \in [Block -> 1..(UINT32_MAX + 1)]
      BY <2>1, PeriodType
    <2> QED
      BY <1>4, <2>2 DEF Contract!Restart
  <1>5. CASE Exec
    BY <1>4, <1>5 DEF Exec, Contract!Next
  <1>6. CASE MakeModules
    <2>1. /\ fetched' = {} /\ age' = [b \in Block |-> 0]
          /\ \A b \in Block : requested_events'[b] = {}
      BY <1>6 DEF MakeModules, shown, IInv, CounterInv, RequestInv
    <2> QED
      BY <1>4, <2>1 DEF Contract!Next
  <1>7. CASE HandleClicks
    <2>1. PICK returned \in [1..ReadLen -> SUBSET Request] :
            requested_events' = [b \in Block |->
                requested_events[b] \cup RequestsOf(b, returned)]
      BY <1>7 DEF HandleClicks
    <2> DEFINE S == {b \in Block : RequestsOf(b, returned) # {}}
    <2>2. {b \in Block : requested_events'[b] # {}}
            = {b \in Block : requested_events[b] # {}} \cup S
      BY <2>1
    <2>3. UNCHANGED <<config, fetched, age>>
      BY <1>7 DEF HandleClicks, shown
    <2>4. PICK T \in SUBSET Block : T = S
      OBVIOUS
    <2>5. Contract!Ask(T)
      BY <2>2, <2>3, <2>4 DEF Contract!Ask
    <2> QED
      BY <2>5 DEF Contract!Next
  <1>8. CASE UpdateAndPrint
    <2> DEFINE wrapped == Succ32(cycle_cnt[blk]) = config.interval[blk]
               updated == NeedsUpdate(requested_events[blk], wrapped)
               asked   == {b \in Block : requested_events[b] # {}}
    <2>1. /\ UNCHANGED config /\ blk \in Block
          /\ requested_events' = [requested_events EXCEPT ![blk] = {}]
          /\ age' = [age EXCEPT ![blk] = IF updated THEN 0 ELSE @ + 1]
          /\ fetched' = IF updated THEN fetched \cup {blk} ELSE fetched
      BY <1>8 DEF UpdateAndPrint, Served
    <2>2. asked' = asked \ {blk}
      BY <2>1 DEF IInv, TypeOK
    <2>3. CASE updated
      <3>1. PICK b \in Block : b = blk
        BY <2>1
      <3>2. /\ fetched' = fetched \cup {b} /\ age' = [age EXCEPT ![b] = 0]
            /\ asked' = asked \ {b}
        BY <2>1, <2>2, <2>3, <3>1
      <3>3. Contract!ShowNew(b)
        BY <2>1, <3>2 DEF Contract!ShowNew
      <3> QED
        BY <3>3 DEF Contract!Next
    <2>4. CASE ~updated
      <3>1. blk \notin asked /\ asked' = asked
        BY <2>2, <2>4 DEF NeedsUpdate
      <3>2. fetched' = fetched /\ age' = [age EXCEPT ![blk] = @ + 1]
        BY <2>1, <2>4
      <3>3. blk \in fetched
        <4>1. 1..(blk' - 1) \subseteq fetched' /\ blk' = blk + 1
          BY <1>8 DEF UpdateAndPrint, IInv, CounterInv
        <4> QED
          BY <2>1, <3>2, <4>1, ConstantsAssumption DEF Block
      <3>4. age[blk] + 1 < Period(config.interval[blk])
        <4>1. age'[blk] = age[blk] + 1
          BY <2>1, <3>2 DEF IInv, TypeOK
        <4> QED
          BY <2>1, <3>2, <3>3, <4>1 DEF IInv, CounterInv
      <3>5. Contract!ShowAgain(blk)
        <4>1. [b \in Block |-> Period(config.interval[b])][blk]
                = Period(config.interval[blk])
          BY <2>1
        <4> QED
          BY <2>1, <3>1, <3>2, <3>3, <3>4, <4>1 DEF Contract!ShowAgain
      <3> QED
        BY <2>1, <3>5 DEF Contract!Next
    <2> QED
      BY <2>3, <2>4
  <1>9. CASE pc' = "exited" /\ UNCHANGED <<visible, expired>>
    BY <1>1, <1>9
  <1> QED
    BY <1>1, <1>2, <1>3, <1>5, <1>6, <1>7, <1>8, <1>9, StepKinds DEF Work

(* Every behaviour of the loop is one the contract allows: a block that    *)
(* was asked to update or reload is fetched anew before it is shown again, *)
(* and none is shown too often, across every reload and configuration.     *)
THEOREM ContractImplemented == Spec => RefreshesAsPromised
  BY ContractInit, ContractStep, Inductive, PTL
     DEF Spec, RefreshesAsPromised, Contract!Spec

=============================================================================
