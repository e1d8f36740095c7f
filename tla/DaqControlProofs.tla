--------------------------- MODULE DaqControlProofs ---------------------------
(***************************************************************************)
(* Proofs about the control of the local DAQ, for any kinds of scans, any  *)
(* depths, any waiting time, any number of tasks and of calls that throw.  *)
(***************************************************************************)
EXTENDS DaqControl, SequenceTheorems, TLAPS

-----------------------------------------------------------------------------
(* The inductive invariant.                                                *)

(* A task that found the DAQ at rest, none of whose waits has failed, with *)
(* a DAQ that is still in working order.                                   *)
Sound == fresh /\ confirmed /\ daqState # "Failed"

(* Which steps the tasks consist of.                                       *)
StepsOfTask ==
  /\ step \in {"subdir", "restore"} => kind \in PipelineScans
  /\ step \in {"loop", "pulse"} => kind \in Scans
  /\ step = "await" => awaited \in Commands

(* While a change is under way, its command is the first of the orders; a  *)
(* DAQ that has failed has none.                                           *)
OrdersFit ==
  /\ daqState = "INDEFINITE" => orders # <<>>
  /\ daqState = "Failed" => orders = <<>>

(* A wait is over as soon as the DAQ has done what it was told: until then *)
(* the command that is waited for is the only one it has.                  *)
Ordering ==
  \/ /\ orders = <<>>
     /\ daqState = Target(awaited)
  \/ /\ orders = <<awaited>>
     /\ \/ daqState = "INDEFINITE"
        \/ awaited = "Configure" /\ daqState = "Halted"
        \/ awaited = "Enable" /\ daqState = "Ready"
        \/ awaited = "Halt" /\ daqState = "Enabled"
        \/ awaited = "Halt" /\ daqState = "Halted" /\ kind \notin Scans

(* How far a sound task has brought the DAQ.                               *)
DaqFollows ==
  Sound =>
    /\ step \in {"subdir", "loop", "runtype", "configure", "restore"} => AtRest
    /\ step = "enable" => orders = <<>> /\ daqState = "Ready"
    /\ step = "pulse" => orders = <<>> /\ daqState = "Enabled"
    /\ step = "halt" => /\ orders = <<>>
                        /\ \/ daqState = "Enabled"
                           \/ daqState = "Halted" /\ kind \notin Scans
    /\ step = "await" => Ordering

(* A sound task's parameters have become those of the run.                 *)
RunFollows ==
  /\ step = "configure" => params.type = RunType
  /\ Sound /\ step = "await" /\ awaited = "Configure" =>
       /\ params.type = RunType
       /\ daqState # "Halted" => run = params
  /\ /\ fresh /\ confirmed
     /\ step \in {"enable", "pulse"} \/ (step = "await" /\ awaited = "Enable")
     => run = params /\ run.type = RunType

(* The directory is the task's, from its first run on.                     *)
PathFollows ==
  /\ kind \in PipelineScans /\ step \notin {"idle", "subdir"} => params.path = Subdir
  /\ throws = 0 /\ (step \in {"idle", "subdir"} \/ kind \notin PipelineScans) =>
       params.path = Raw

IInv ==
  TypeOK /\ StepsOfTask /\ OrdersFit /\ DaqFollows /\ RunFollows /\ PathFollows /\ TrueIfInTime

-----------------------------------------------------------------------------
(* Lemmas about the orders.                                                *)

(* The only order there is comes first, and none is left behind it.        *)
LEMMA OneOrder ==
  ASSUME NEW c
  PROVE  Head(<<c>>) = c /\ Tail(<<c>>) = <<>> /\ <<c>> # <<>> /\ Append(<<>>, c) = <<c>>
  OBVIOUS

(* Orders that are appended or taken away leave a sequence of commands.    *)
LEMMA OrdersType ==
  ASSUME NEW s \in Seq(Commands)
  PROVE  /\ \A c \in Commands : Append(s, c) \in Seq(Commands) /\ Append(s, c) # <<>>
         /\ s # <<>> => Head(s) \in Commands /\ Tail(s) \in Seq(Commands)
  BY AppendProperties, HeadTailProperties

(* The state that waitForDAQToExecute expects is the one that the DAQ goes *)
(* to.                                                                     *)
LEMMA ExpectsTarget ==
  ASSUME NEW c \in Commands
  PROVE  /\ Expected(c) = Target(c)
         /\ Target(c) \in {"Ready", "Enabled", "Halted"}
         /\ Target(c) \in GoodStates \ {"INDEFINITE"}
  BY DEF Expected, Target, Commands, GoodStates

(* Names of runs and directories are proper.                               *)
LEMMA NamesType ==
  ASSUME TypeOK
  PROVE  Subdir \in Paths /\ Raw \in Paths /\ RunType \in Types
<1>1. tasks \in Nat /\ depth \in Nat
  BY DaqAssumption DEF TypeOK
<1>2. Subdir \in Paths /\ Raw \in Paths
  BY <1>1 DEF Subdir, Raw, Paths
<1>3. RunType \in Types
  <2>1. CASE kind \in PipelineScans
    BY <1>1, <2>1 DEF RunType, Types
  <2>2. CASE kind \in DelayScans
    BY <1>1, <2>2, DaqAssumption DEF RunType, Types
  <2>3. CASE kind \notin PipelineScans \cup DelayScans
    BY <1>1, <2>3 DEF RunType, Types
  <2> QED
    BY <2>1, <2>2, <2>3
<1> QED
  BY <1>2, <1>3

-----------------------------------------------------------------------------
(* The initial states have the invariant.                                  *)
LEMMA InitInv == Init => IInv
<1> SUFFICES ASSUME Init PROVE IInv
  OBVIOUS
<1> USE DEF Init
<1>1. <<"Monitor", 0>> \in Types /\ Raw \in Paths
  BY DEF Types, Paths, Raw
<1>2. TypeOK
  <2>1. <<>> \in Seq(Commands)
    BY EmptySeq
  <2>2. params \in [type : Types, path : Paths] /\ run \in [type : Types, path : Paths]
    BY <1>1
  <2>3. daqState \in GoodStates \cup {"Failed"} /\ step \in Steps /\ kind \in Kinds
    BY DEF GoodStates, Steps, Kinds
  <2>4. tasks \in 0 .. MaxTasks /\ waited \in 0 .. Seconds /\ throws \in 0 .. MaxThrows
    BY DaqAssumption
  <2> QED
    BY <2>1, <2>2, <2>3, <2>4 DEF TypeOK
<1>3. StepsOfTask /\ OrdersFit /\ DaqFollows /\ RunFollows /\ PathFollows /\ TrueIfInTime
  BY DEF StepsOfTask, OrdersFit, DaqFollows, RunFollows, PathFollows, TrueIfInTime, Sound
<1> QED
  BY <1>2, <1>3 DEF IInv

-----------------------------------------------------------------------------
(* The steps of the DAQ.                                                   *)

(* What a step of the DAQ leaves as it is.                                 *)
LEMMA DaqInv ==
  ASSUME IInv, Daq
  PROVE  IInv'
<1> USE DEF IInv
<1>0. /\ UNCHANGED <<kind, tasks, last, depth, awaited, waited, step, throws>>
      /\ UNCHANGED <<fresh, confirmed, late, params>>
  BY DEF Daq, DaqWorks, Ignore, Begin, Complete, BreakDown,
         controlVars, taskVars, waitVars, ghostVars
<1>1. UNCHANGED <<Subdir, RunType>>
  BY <1>0 DEF Subdir, RunType
<1>2. StepsOfTask' /\ PathFollows'
  BY <1>0, <1>1 DEF StepsOfTask, PathFollows
<1>3. CASE Ignore
  <2>1. TypeOK' /\ OrdersFit'
    BY <1>0, <1>3, OrdersType DEF Ignore, TypeOK, OrdersFit
  <2>2. DaqFollows'
    <3> SUFFICES ASSUME Sound', step # "idle" PROVE DaqFollows'
      BY <1>0 DEF DaqFollows
    <3>1. Sound /\ step = "await"
      BY <1>0, <1>3, <2>1 DEF Ignore, Sound, DaqFollows, AtRest, TypeOK, Steps
    <3>2. orders = <<awaited>> /\ awaited = "Halt" /\ daqState = "Halted"
      BY <1>3, <3>1, OneOrder DEF Ignore, DaqFollows, Ordering, Fits
    <3> QED
      BY <1>0, <1>3, <3>1, <3>2, OneOrder DEF Ignore, DaqFollows, Ordering, Target
  <2>3. RunFollows' /\ TrueIfInTime'
    BY <1>0, <1>1, <1>3 DEF Ignore, RunFollows, TrueIfInTime, Sound
  <2> QED
    BY <1>2, <2>1, <2>2, <2>3
<1>4. CASE Begin
  <2>1. TypeOK' /\ OrdersFit'
    BY <1>0, <1>4 DEF Begin, TypeOK, OrdersFit, GoodStates
  <2>2. daqState # "Failed"
    BY <1>4 DEF Begin, Fits
  <2>3. Sound' => Sound /\ step \in {"idle", "await"} /\ (step = "await" => orders = <<awaited>>)
    BY <1>0, <1>4, <2>2 DEF Begin, Sound, DaqFollows, AtRest, TypeOK, Steps, Ordering
  <2>4. DaqFollows'
    BY <1>0, <1>4, <2>3 DEF Begin, DaqFollows, Ordering
  <2>5. RunFollows'
    <3>1. fresh /\ confirmed => Sound
      BY <2>2 DEF Sound
    <3>2. CASE fresh /\ confirmed /\ step = "await"
      BY <1>0, <1>1, <1>4, <2>2, <2>3, <3>1, <3>2, OneOrder DEF Begin, RunFollows, Sound
    <3>3. CASE ~ (fresh /\ confirmed /\ step = "await")
      <4>1. fresh' /\ confirmed' => step' = "idle"
        BY <1>0, <1>4, <2>2, <2>3, <3>1, <3>3 DEF Begin, Sound
      <4> QED
        BY <1>0, <1>1, <4>1, <3>3 DEF RunFollows, Sound
    <3> QED
      BY <3>2, <3>3
  <2>6. TrueIfInTime'
    BY <1>0, <1>4, <2>2 DEF TrueIfInTime
  <2> QED
    BY <1>2, <2>1, <2>4, <2>5, <2>6
<1>5. CASE Complete
  <2>0. orders # <<>> /\ Head(orders) \in Commands
    BY <1>5, OrdersType DEF Complete, OrdersFit, TypeOK
  <2>1. TypeOK' /\ OrdersFit'
    BY <1>0, <1>5, <2>0, OrdersType, ExpectsTarget DEF Complete, TypeOK, OrdersFit, GoodStates
  <2>2. Sound' => Sound /\ step \in {"idle", "await"} /\ (step = "await" => orders = <<awaited>>)
    BY <1>0, <1>5, <2>0 DEF Complete, Sound, DaqFollows, AtRest, TypeOK, Steps, Ordering
  <2>3. DaqFollows'
    BY <1>0, <1>5, <2>2, OneOrder DEF Complete, DaqFollows, Ordering
  <2>4. RunFollows' /\ TrueIfInTime'
    BY <1>0, <1>1, <1>5 DEF Complete, RunFollows, TrueIfInTime, Sound
  <2> QED
    BY <1>2, <2>1, <2>3, <2>4
<1>6. CASE BreakDown
  <2>1. <<>> \in Seq(Commands)
    OBVIOUS
  <2>2. TypeOK' /\ OrdersFit'
    BY <1>0, <1>6, <2>1 DEF BreakDown, TypeOK, OrdersFit
  <2>3. DaqFollows' /\ RunFollows' /\ TrueIfInTime'
    BY <1>0, <1>1, <1>6 DEF BreakDown, DaqFollows, RunFollows, TrueIfInTime, Sound
  <2> QED
    BY <1>2, <2>2, <2>3
<1> QED
  BY <1>3, <1>4, <1>5, <1>6 DEF Daq, DaqWorks

-----------------------------------------------------------------------------
(* The steps of a task.                                                    *)

(* A call that throws ends the task; one that returns leads to the next.   *)
LEMMA ThrowEnds ==
  ASSUME TypeOK, Throw
  PROVE  step' = "idle" /\ throws' \in 1 .. MaxThrows
  BY DaqAssumption DEF Throw, TypeOK

(* A new task.                                                             *)
LEMMA BeginTaskInv ==
  ASSUME IInv, NEW k \in Kinds, NEW from \in Nat, NEW to \in Nat,
         NEW first \in {"subdir", "loop", "runtype", "halt"},
         first = "subdir" => k \in PipelineScans,
         first = "loop" => k \in DelayScans,
         first \in {"runtype", "halt"} => k = Script,
         BeginTask(k, from, to, first)
  PROVE  IInv'
<1> USE DEF IInv, BeginTask, GoTo, daqVars, waitVars
<1>0. tasks' \in 0 .. MaxTasks /\ AtRest \in BOOLEAN
  BY DaqAssumption DEF TypeOK, AtRest
<1>1. TypeOK' /\ StepsOfTask' /\ OrdersFit'
  <2>1. TypeOK'
    BY <1>0 DEF TypeOK, Steps
  <2>2. StepsOfTask' /\ OrdersFit'
    BY DEF StepsOfTask, OrdersFit, Scans
  <2> QED
    BY <2>1, <2>2
<1>2. DaqFollows' /\ RunFollows' /\ TrueIfInTime'
  BY DaqAssumption DEF DaqFollows, RunFollows, TrueIfInTime, Sound, AtRest, Scans
<1>3. PathFollows'
  BY DaqAssumption DEF PathFollows
<1> QED
  BY <1>1, <1>2, <1>3

(* setDAQOutSubdir, before and after the loop.                             *)
LEMMA SubdirInv ==
  ASSUME IInv, SetSubdir \/ RestoreSubdir
  PROVE  IInv'
<1> USE DEF IInv, SetSubdir, RestoreSubdir, Returns, GoTo
<1>0. /\ UNCHANGED <<daqState, orders, run, kind, tasks, last, depth, awaited, waited>>
      /\ UNCHANGED <<fresh, confirmed, late>>
      /\ UNCHANGED <<Subdir, RunType>>
  BY DEF taskVars, waitVars, ghostVars, Subdir, RunType
<1>1. \/ step' = "idle" /\ throws' \in 1 .. MaxThrows
      \/ step = "subdir" /\ step' = "loop" /\ throws' = throws
      \/ step = "restore" /\ step' = "idle" /\ throws' = throws
  BY ThrowEnds
<1>2. /\ step \in {"subdir", "restore"}
      /\ step = "subdir" => params'.path = Subdir
      /\ step = "restore" => params'.path = Raw
  <2>1. params \in [type : Types, path : Paths]
    BY DEF TypeOK
  <2> QED
    BY <2>1
<1>3. TypeOK'
  BY <1>0, <1>1, NamesType, DaqAssumption DEF TypeOK, Steps
<1>4. StepsOfTask' /\ OrdersFit'
  BY <1>0, <1>1, <1>2 DEF StepsOfTask, OrdersFit, Scans
<1>5. DaqFollows' /\ RunFollows' /\ TrueIfInTime'
  BY <1>0, <1>1, <1>2 DEF DaqFollows, RunFollows, TrueIfInTime, Sound, AtRest
<1>6. PathFollows'
  BY <1>0, <1>1, <1>2 DEF PathFollows, StepsOfTask
<1> QED
  BY <1>3, <1>4, <1>5, <1>6

(* The loop over the depths, and the end of the pulses.                    *)
LEMMA LoopInv ==
  ASSUME IInv, NextDepth \/ EndLoop \/ Pulsed
  PROVE  IInv'
<1> USE DEF IInv, NextDepth, EndLoop, Pulsed, GoTo
<1>0. /\ UNCHANGED <<daqState, orders, run, params, kind, tasks, last, depth, awaited, waited>>
      /\ UNCHANGED <<fresh, confirmed, late, throws>>
      /\ UNCHANGED <<Subdir, RunType>>
  BY DEF daqVars, taskVars, waitVars, ghostVars, Subdir, RunType
<1>1. \/ step = "loop" /\ step' = "runtype"
      \/ step = "loop" /\ step' = "idle" /\ kind \notin PipelineScans
      \/ step = "loop" /\ step' = "restore" /\ kind \in PipelineScans
      \/ step = "pulse" /\ step' = "halt"
  BY DEF AfterLoop
<1>2. TypeOK' /\ StepsOfTask' /\ OrdersFit'
  BY <1>0, <1>1 DEF TypeOK, Steps, StepsOfTask, OrdersFit
<1>3. DaqFollows' /\ RunFollows' /\ TrueIfInTime'
  BY <1>0, <1>1 DEF DaqFollows, RunFollows, TrueIfInTime, Sound, AtRest
<1>4. PathFollows'
  BY <1>0, <1>1 DEF PathFollows
<1> QED
  BY <1>2, <1>3, <1>4

(* The parameters of startDAQ.                                             *)
LEMMA RunTypeInv ==
  ASSUME IInv, SetRunType
  PROVE  IInv'
<1> USE DEF IInv, SetRunType, Returns, GoTo
<1>0. /\ UNCHANGED <<daqState, orders, run, kind, tasks, last, depth, awaited, waited>>
      /\ UNCHANGED <<fresh, confirmed, late>>
      /\ UNCHANGED <<Subdir, RunType>>
  BY DEF taskVars, waitVars, ghostVars, Subdir, RunType
<1>1. \/ step' = "idle" /\ throws' \in 1 .. MaxThrows
      \/ step' = "configure" /\ throws' = throws
  BY ThrowEnds
<1>2. params'.type = RunType /\ params'.path = params.path
  BY DEF TypeOK
<1>3. TypeOK'
  BY <1>0, <1>1, NamesType, DaqAssumption DEF TypeOK, Steps
<1>4. StepsOfTask' /\ OrdersFit'
  BY <1>0, <1>1 DEF StepsOfTask, OrdersFit
<1>5. DaqFollows' /\ RunFollows' /\ TrueIfInTime'
  BY <1>0, <1>1, <1>2 DEF DaqFollows, RunFollows, TrueIfInTime, Sound, AtRest
<1>6. PathFollows'
  BY <1>0, <1>1, <1>2 DEF PathFollows
<1> QED
  BY <1>3, <1>4, <1>5, <1>6

(* A command is sent.                                                      *)
LEMMA SendInv ==
  ASSUME IInv, Configure \/ Enable \/ Halt
  PROVE  IInv'
<1> USE DEF IInv, Returns, GoTo
<1>1. PICK c \in Commands :
        /\ Send(c)
        /\ \/ c = "Configure" /\ step = "configure"
           \/ c = "Enable" /\ step = "enable"
           \/ c = "Halt" /\ step = "halt"
  BY DEF Configure, Enable, Halt, Commands
<1>0. /\ UNCHANGED <<daqState, params, run, kind, tasks, last, depth>>
      /\ UNCHANGED <<fresh, confirmed, late>>
      /\ UNCHANGED <<Subdir, RunType>>
  BY <1>1 DEF Send, taskVars, ghostVars, Subdir, RunType
<1>2. \/ step' = "idle" /\ throws' \in 1 .. MaxThrows
      \/ step' = "await" /\ throws' = throws
  BY <1>1, ThrowEnds DEF Send
<1>3. /\ orders' \in Seq(Commands)
      /\ daqState = "Failed" => orders' = orders
      /\ daqState # "Failed" => orders' # <<>>
      /\ daqState # "Failed" /\ orders = <<>> => orders' = <<c>>
  BY <1>1, OrdersType, OneOrder DEF Send, Ordered, TypeOK
<1>4. awaited' = c /\ waited' = 0
  BY <1>1 DEF Send
<1>5. TypeOK' /\ StepsOfTask' /\ OrdersFit'
  BY <1>0, <1>2, <1>3, <1>4, DaqAssumption DEF TypeOK, Steps, StepsOfTask, OrdersFit
<1>6. DaqFollows'
  BY <1>0, <1>1, <1>2, <1>3, <1>4 DEF DaqFollows, Sound, AtRest, Ordering
<1>7. RunFollows' /\ TrueIfInTime'
  BY <1>0, <1>1, <1>2, <1>4 DEF RunFollows, DaqFollows, TrueIfInTime, Sound, AtRest
<1>8. PathFollows'
  BY <1>0, <1>1, <1>2 DEF PathFollows
<1> QED
  BY <1>5, <1>6, <1>7, <1>8

(* A poll: the wait is over, or it goes on.                                *)
LEMMA PollInv ==
  ASSUME IInv, Poll
  PROVE  IInv'
<1> USE DEF IInv
<1>0. /\ UNCHANGED <<daqState, orders, params, run, kind, tasks, last, awaited, fresh, throws>>
      /\ UNCHANGED Subdir
      /\ step = "await"
  BY DEF Poll, PollTrue, PollFailed, PollNotYet, Return, GoTo, daqVars, taskVars, Subdir
<1>1. /\ awaited \in Commands
      /\ Expected(awaited) = Target(awaited)
      /\ Target(awaited) \in GoodStates \ {"INDEFINITE"}
  BY <1>0, ExpectsTarget DEF StepsOfTask
<1>2. ASSUME Return, late' \in BOOLEAN, waited' = waited,
             \/ confirmed' = confirmed /\ daqState = Target(awaited)
             \/ confirmed' = FALSE /\ (fresh /\ confirmed => late' \/ daqState = "Failed"),
             late => late'
      PROVE  IInv'
  <2>1. /\ awaited = "Configure" => step' = "enable" /\ depth' = depth
        /\ awaited = "Enable" => step' \in {"pulse", "idle"} /\ depth' = depth
        /\ awaited = "Halt" => step' \in {"loop", "idle"} /\ depth' \in {depth, depth + 1}
        /\ kind \in Scans => step' # "idle"
        /\ step' \in {"loop", "pulse"} => kind \in Scans
        /\ step' \in {"enable", "pulse", "loop", "idle"}
    BY <1>0, <1>1, <1>2 DEF Return, GoTo, AfterWait, Commands
  <2>2. TypeOK' /\ StepsOfTask' /\ OrdersFit'
    <3>1. depth' \in Nat
      BY <1>1, <2>1 DEF TypeOK, Commands
    <3>2. step' \in Steps /\ confirmed' \in BOOLEAN
      BY <1>2, <2>1 DEF TypeOK, Steps
    <3>3. TypeOK'
      BY <1>0, <1>2, <3>1, <3>2 DEF TypeOK
    <3> QED
      BY <1>0, <2>1, <3>3 DEF StepsOfTask, OrdersFit
  <2>3. DaqFollows'
    <3> SUFFICES ASSUME Sound' PROVE DaqFollows'
      BY DEF DaqFollows
    <3>1. Sound /\ daqState = Target(awaited) /\ Ordering
      BY <1>0, <1>2 DEF Sound, DaqFollows
    <3>2. orders = <<>> \/ kind \notin Scans
      BY <1>1, <3>1 DEF Ordering, Target, Commands
    <3> QED
      BY <1>0, <1>1, <2>1, <3>1, <3>2 DEF DaqFollows, Sound, AtRest, Ordering, Target, Commands
  <2>4. RunFollows'
    <3>1. awaited # "Halt" => UNCHANGED RunType
      BY <1>0, <1>1, <2>1 DEF RunType, Commands
    <3>2. CASE confirmed' = confirmed /\ daqState = Target(awaited)
      BY <1>0, <1>1, <2>1, <3>1, <3>2 DEF RunFollows, Sound, Target, Commands
    <3>3. CASE confirmed' = FALSE
      BY <1>0, <1>1, <2>1, <3>3 DEF RunFollows, Sound, Commands
    <3> QED
      BY <1>2, <3>2, <3>3
  <2>5. PathFollows' /\ TrueIfInTime'
    BY <1>0, <1>1, <1>2, <2>1 DEF PathFollows, TrueIfInTime, Scans, Commands, TypeOK
  <2> QED
    BY <2>2, <2>3, <2>4, <2>5
<1>3. CASE PollTrue
  BY <1>1, <1>2, <1>3 DEF PollTrue, TypeOK
<1>4. CASE PollFailed
  <2>1. daqState = "Failed"
    BY <1>4 DEF PollFailed, TypeOK
  <2> QED
    BY <1>2, <1>4, <2>1 DEF PollFailed, TypeOK
<1>5. CASE PollNotYet
  <2>1. late' \in BOOLEAN /\ (late => late')
    BY <1>5 DEF PollNotYet, TypeOK
  <2>2. CASE LastPoll(waited)
    <3>1. waited = Seconds
      BY <2>2, DaqAssumption DEF LastPoll, TypeOK
    <3>2. fresh /\ confirmed => orders # <<>>
      BY <1>0, <1>1, <1>5 DEF PollNotYet, DaqFollows, Sound, Ordering, GoodStates
    <3>3. Return /\ confirmed' = FALSE /\ waited' = waited
      BY <1>5, <2>2 DEF PollNotYet
    <3>4. fresh /\ confirmed => late'
      BY <1>5, <3>1, <3>2 DEF PollNotYet
    <3> QED
      BY <1>2, <2>1, <3>3, <3>4
  <2>3. CASE ~ LastPoll(waited)
    <3>1. UNCHANGED <<step, throws, depth, confirmed>> /\ waited' \in 0 .. Seconds
      BY <1>5, <2>3, DaqAssumption DEF PollNotYet, LastPoll, OneMore, TypeOK
    <3>2. TypeOK' /\ StepsOfTask' /\ OrdersFit'
      BY <1>0, <2>1, <3>1 DEF TypeOK, StepsOfTask, OrdersFit
    <3>3. DaqFollows' /\ RunFollows' /\ PathFollows'
      BY <1>0, <3>1 DEF DaqFollows, RunFollows, PathFollows, Sound, AtRest, Ordering, RunType
    <3>4. TrueIfInTime'
      BY <1>0, <2>1, <3>1 DEF TrueIfInTime
    <3> QED
      BY <3>2, <3>3, <3>4
  <2> QED
    BY <2>2, <2>3
<1> QED
  BY <1>3, <1>4, <1>5 DEF Poll

(* A message is lost and the task ends.                                    *)
LEMMA LoseMessageInv ==
  ASSUME IInv, LoseMessage
  PROVE  IInv'
<1> USE DEF IInv
<1>0. /\ UNCHANGED <<daqState, orders, params, run, kind, tasks, last, depth, awaited, waited>>
      /\ UNCHANGED <<fresh, confirmed, late>>
      /\ UNCHANGED <<Subdir, RunType>>
      /\ step' = "idle" /\ throws' \in 1 .. MaxThrows
  BY ThrowEnds DEF LoseMessage, daqVars, taskVars, waitVars, ghostVars, Subdir, RunType
<1>1. TypeOK' /\ StepsOfTask' /\ OrdersFit' /\ PathFollows'
  BY <1>0, DaqAssumption DEF TypeOK, StepsOfTask, OrdersFit, PathFollows, Steps
<1>2. DaqFollows' /\ RunFollows' /\ TrueIfInTime'
  BY <1>0 DEF DaqFollows, RunFollows, TrueIfInTime
<1> QED
  BY <1>1, <1>2

-----------------------------------------------------------------------------
(* Every step preserves the invariant.                                     *)
LEMMA StepInv == IInv /\ [Next]_vars => IInv'
<1> SUFFICES ASSUME IInv, [Next]_vars PROVE IInv'
  OBVIOUS
<1>1. CASE BeginScan
  <2>1. PICK from \in Depths, to \in Depths :
          \/ \E k \in PipelineScans : BeginTask(k, from, to, "subdir")
          \/ \E k \in DelayScans    : BeginTask(k, from, to, "loop")
    BY <1>1 DEF BeginScan
  <2>2. from \in Nat /\ to \in Nat
    BY DaqAssumption
  <2> QED
    BY <2>1, <2>2, BeginTaskInv DEF Kinds, Scans
<1>2. CASE BEGIN_DAQ
  BY <1>2, BeginTaskInv DEF BEGIN_DAQ, Kinds
<1>3. CASE END_DAQ
  BY <1>3, BeginTaskInv DEF END_DAQ, Kinds
<1>4. CASE Work
  BY <1>4, SubdirInv, LoopInv, RunTypeInv, SendInv, PollInv, LoseMessageInv DEF Work
<1>5. CASE Daq
  BY <1>5, DaqInv
<1>6. CASE UNCHANGED vars
  BY <1>6 DEF vars, daqVars, controlVars, taskVars, waitVars, ghostVars, IInv, TypeOK,
     StepsOfTask, OrdersFit, DaqFollows, RunFollows, PathFollows, TrueIfInTime,
     Sound, AtRest, Ordering, RunType, Subdir
<1> QED
  BY <1>1, <1>2, <1>3, <1>4, <1>5, <1>6 DEF Next

(* The invariant holds of every behaviour.                                 *)
LEMMA AlwaysInv == Spec => []IInv
  BY InitInv, StepInv, PTL DEF Spec

-----------------------------------------------------------------------------
(* The state of the control and of the DAQ has its type.                   *)
THEOREM ControlTypeCorrect == Spec => []TypeOK
<1>1. IInv => TypeOK
  BY DEF IInv
<1> QED
  BY <1>1, AlwaysInv, PTL

(* A scan whose waits have all been answered with true, on a DAQ that was  *)
(* at rest, pulses into a run of its own name on an enabled DAQ            *)
(* (Manager::startDAQ, and the loops of the scans in Buttons.cc).          *)
THEOREM PulsesTaken == Spec => []PulsesAreTaken
<1>1. IInv => PulsesAreTaken
  <2> SUFFICES ASSUME IInv, step = "pulse", fresh, confirmed
               PROVE  /\ orders = <<>>
                      /\ daqState \in {"Enabled", "Failed"}
                      /\ run.type = RunType
    BY DEF PulsesAreTaken
  <2>1. CASE daqState = "Failed"
    BY <2>1 DEF IInv, OrdersFit, RunFollows
  <2>2. CASE daqState # "Failed"
    BY <2>2 DEF IInv, DaqFollows, RunFollows, Sound
  <2> QED
    BY <2>1, <2>2
<1> QED
  BY <1>1, AlwaysInv, PTL

(* In a task that found the DAQ at rest, waitForDAQToExecute answers false *)
(* only if the DAQ was too slow or has failed.                             *)
THEOREM TrueInTime == Spec => []TrueIfInTime
<1>1. IInv => TrueIfInTime
  BY DEF IInv
<1> QED
  BY <1>1, AlwaysInv, PTL

(* Runs go to the directory of their scan, the others to the common one,   *)
(* unless a call has thrown (Manager::setDAQOutSubdir).                    *)
THEOREM RunsInTheirDirectory == Spec => []RunsGoToTheirDirectory
<1>1. IInv => RunsGoToTheirDirectory
  <2> SUFFICES ASSUME IInv PROVE RunsGoToTheirDirectory
    OBVIOUS
  <2>1. step \in {"configure", "pulse"} /\ (kind \in PipelineScans \/ throws = 0) =>
          params.path = Subdir
    BY DEF IInv, PathFollows, Subdir
  <2>2. step = "pulse" /\ fresh /\ confirmed => run = params
    BY DEF IInv, RunFollows
  <2>3. step = "idle" /\ throws = 0 => params.path = Raw
    BY DEF IInv, PathFollows
  <2> QED
    BY <2>1, <2>2, <2>3 DEF RunsGoToTheirDirectory
<1> QED
  BY <1>1, AlwaysInv, PTL
=============================================================================
