------------------------------ MODULE DaqControl ------------------------------
(***************************************************************************)
(* Manager::startDAQ, stopDAQ and setDAQOutSubdir (Manager.cc), which wait *)
(* for the local DAQ by polling it once a second, and their callers in     *)
(* Buttons.cc: the scans of pipeline depths and of delays, and the script  *)
(* commands BEGIN_DAQ and END_DAQ.                                         *)
(*                                                                         *)
(* The callers do not look at the answers of the waits.  A SOAP call that  *)
(* throws ends the task at once, whether the DAQ has got the message or    *)
(* not.                                                                    *)
(***************************************************************************)
EXTENDS LocalDaq

CONSTANTS
  PipelineScans,  \* PipelineDepthScan_Pulses, PipelineDepthScan_Cosmics
  DelayScans,     \* TmbDavDelayScan, L1aDelayScan
  Script,         \* ExecuteVMEDSL
  Seconds,        \* how long waitForDAQToExecute waits
  Depths,         \* what may be typed for From and To
  MaxTasks,       \* bound on the buttons pressed and script lines run
  MaxThrows       \* bound on the calls that throw

ASSUME DaqAssumption ==
  /\ PipelineScans \cap DelayScans = {}
  /\ Script \notin PipelineScans \cup DelayScans
  /\ Seconds \in Nat
  /\ Depths \subseteq Nat
  /\ MaxTasks \in Nat /\ MaxThrows \in Nat

VARIABLES
  kind,       \* the task: a scan or the script
  tasks,      \* tasks begun so far: the date in a directory's name
  depth,      \* iDepth, idelay
  last,       \* toDepth, todelay
  step,       \* the next call to make
  awaited,    \* the command waitForDAQToExecute waits for, or has last waited for
  waited,     \* its i
  throws,     \* calls that have thrown
  fresh,      \* ghost: the DAQ was at rest when the task began
  confirmed,  \* ghost: all waits of the task have returned true
  late        \* ghost: in one of them the DAQ was not done in time

taskVars    == <<kind, tasks, last>>
waitVars    == <<awaited, waited>>
ghostVars   == <<fresh, confirmed, late>>
controlVars == <<taskVars, depth, waitVars, step, throws, ghostVars>>
vars == <<daqVars, controlVars>>

Scans == PipelineScans \cup DelayScans
Kinds == Scans \cup {Script}
Raw   == <<"raw", 0>>

Steps == {"idle", "subdir", "loop", "runtype", "configure", "enable", "await",
          "pulse", "halt", "restore"}

(* The directory a task's runs are to go to, and the name of their type.   *)
Subdir == IF kind \in PipelineScans THEN <<"PDScan", tasks>> ELSE Raw

RunType ==
  CASE kind \in PipelineScans -> <<"Pipeline", depth>>
    [] kind \in DelayScans    -> <<kind, depth>>
    [] OTHER                  -> <<"DDU_ODMB_UCSB", 0>>

Types == ({"Monitor", "DDU_ODMB_UCSB", "Pipeline"} \cup DelayScans) \X Nat
Paths == {"raw", "PDScan"} \X Nat

TypeOK ==
  /\ daqState \in GoodStates \cup {"Failed"}
  /\ orders \in Seq(Commands)
  /\ params \in [type : Types, path : Paths]
  /\ run \in [type : Types, path : Paths]
  /\ kind \in Kinds
  /\ tasks \in 0 .. MaxTasks
  /\ depth \in Nat /\ last \in Nat
  /\ step \in Steps
  /\ awaited \in Commands \cup {"none"}
  /\ waited \in 0 .. Seconds
  /\ throws \in 0 .. MaxThrows
  /\ fresh \in BOOLEAN /\ confirmed \in BOOLEAN /\ late \in BOOLEAN

Init ==
  /\ daqState \in {"Halted", "Ready", "Enabled", "Failed"}
  /\ orders = <<>>
  /\ params = [type |-> <<"Monitor", 0>>, path |-> Raw]
  /\ run = params
  /\ kind = Script /\ tasks = 0
  /\ depth = 0 /\ last = 0
  /\ step = "idle"
  /\ awaited = "none" /\ waited = 0
  /\ throws = 0
  /\ fresh = FALSE /\ confirmed = FALSE /\ late = FALSE

-----------------------------------------------------------------------------
(* A call returns or throws; one that throws ends the task.                *)
Throw ==
  /\ throws < MaxThrows
  /\ throws' = throws + 1
  /\ step' = "idle"

GoTo(next) == step' = next /\ UNCHANGED throws

Returns(next) == GoTo(next) \/ Throw

(* The call throws and the message is lost.                                *)
LoseMessage ==
  /\ step \in Steps \ {"idle", "loop", "pulse"}
  /\ Throw
  /\ UNCHANGED <<daqVars, taskVars, depth, waitVars, ghostVars>>

-----------------------------------------------------------------------------
(* A button is pressed, or the script comes to its next line.              *)
BeginTask(k, from, to, first) ==
  /\ step = "idle" /\ tasks < MaxTasks
  /\ kind' = k /\ tasks' = tasks + 1
  /\ depth' = from /\ last' = to
  /\ GoTo(first)
  /\ fresh' = AtRest /\ confirmed' = TRUE /\ late' = FALSE
  /\ UNCHANGED <<daqVars, waitVars>>

BeginScan ==
  \E from, to \in Depths :
    \/ \E k \in PipelineScans : BeginTask(k, from, to, "subdir")
    \/ \E k \in DelayScans    : BeginTask(k, from, to, "loop")

BEGIN_DAQ == BeginTask(Script, 0, 0, "runtype")

END_DAQ == BeginTask(Script, 0, 0, "halt")

(* setDAQOutSubdir(subdir), before the loop over the depths.               *)
SetSubdir ==
  /\ step = "subdir"
  /\ params' = [params EXCEPT !.path = Subdir]
  /\ Returns("loop")
  /\ UNCHANGED <<daqState, orders, run, taskVars, depth, waitVars, ghostVars>>

(* The loop goes on: the boards get the next depth, the CCB its resets.    *)
NextDepth ==
  /\ step = "loop" /\ depth <= last
  /\ GoTo("runtype")
  /\ UNCHANGED <<daqVars, taskVars, depth, waitVars, ghostVars>>

(* Mutant of AfterLoop: the directory is not put back.                     *)
AfterLoopLeaving == "idle"

AfterLoop == IF kind \in PipelineScans THEN "restore" ELSE "idle"

EndLoop ==
  /\ step = "loop" /\ depth > last
  /\ GoTo(AfterLoop)
  /\ UNCHANGED <<daqVars, taskVars, depth, waitVars, ghostVars>>

(* setDAQOutSubdir("") at the end.                                         *)
RestoreSubdir ==
  /\ step = "restore"
  /\ params' = [params EXCEPT !.path = Raw]
  /\ Returns("idle")
  /\ UNCHANGED <<daqState, orders, run, taskVars, depth, waitVars, ghostVars>>

-----------------------------------------------------------------------------
(* startDAQ(runtype): the parameters, then Configure, then Enable.         *)
SetRunType ==
  /\ step = "runtype"
  /\ params' = [params EXCEPT !.type = RunType]
  /\ Returns("configure")
  /\ UNCHANGED <<daqState, orders, run, taskVars, depth, waitVars, ghostVars>>

(* Mutant of Expected: Enable is taken for done once the DAQ is ready.     *)
ExpectedReady(command) == IF command = "Halt" THEN "Halted" ELSE "Ready"

(* The state that waitForDAQToExecute expects; as Target, but the code's.  *)
Expected(command) ==
  CASE command = "Configure" -> "Ready"
    [] command = "Enable"    -> "Enabled"
    [] OTHER                 -> "Halted"

(* Mutant of Ordered: nothing is sent if the DAQ is in the state already.  *)
OrderedIfNeeded(command) ==
  IF daqState = Expected(command) THEN orders ELSE Append(orders, command)

Ordered(command) == Append(orders, command)

(* sendCommand; a DAQ that has failed does nothing any more.               *)
Send(command) ==
  /\ orders' = IF daqState = "Failed" THEN orders ELSE Ordered(command)
  /\ awaited' = command /\ waited' = 0
  /\ Returns("await")
  /\ UNCHANGED <<daqState, params, run, taskVars, depth, ghostVars>>

Configure == step = "configure" /\ Send("Configure")

Enable == step = "enable" /\ Send("Enable")

(* stopDAQ.                                                                *)
Halt == step = "halt" /\ Send("Halt")

-----------------------------------------------------------------------------
(* Mutant of LastPoll: one poll too few.                                   *)
GivesUpEarly(i) == i + 1 >= Seconds

(* No poll follows the one that finds i seconds gone.                      *)
LastPoll(i) == i + 1 > Seconds

(* Mutant of OneMore: the wait does not count.                             *)
NoneMore(i) == i

OneMore(i) == i + 1

(* The caller goes on after the wait, whatever the answer was.             *)
AfterWait ==
  CASE awaited = "Configure"                  -> "enable"
    [] awaited = "Enable" /\ kind \in Scans   -> "pulse"
    [] awaited = "Halt"   /\ kind \in Scans   -> "loop"
    [] OTHER                                  -> "idle"

(* ++iDepth, once the DAQ has been stopped.                                *)
Return ==
  /\ GoTo(AfterWait)
  /\ depth' = IF AfterWait = "loop" THEN depth + 1 ELSE depth

PollTrue ==
  /\ daqState = Expected(awaited)
  /\ Return
  /\ UNCHANGED <<waited, confirmed, late>>

PollFailed ==
  /\ daqState \notin GoodStates
  /\ Return
  /\ confirmed' = FALSE
  /\ UNCHANGED <<waited, late>>

PollNotYet ==
  /\ daqState \in GoodStates \ {Expected(awaited)}
  /\ late' = (late \/ (waited = Seconds /\ orders # <<>>))
  /\ \/ LastPoll(waited) /\ Return /\ confirmed' = FALSE /\ UNCHANGED waited
     \/ /\ ~ LastPoll(waited)
        /\ waited' = OneMore(waited)
        /\ UNCHANGED <<step, throws, depth, confirmed>>

(* One round of waitForDAQToExecute.                                       *)
Poll ==
  /\ step = "await"
  /\ PollTrue \/ PollFailed \/ PollNotYet
  /\ UNCHANGED <<daqVars, taskVars, awaited, fresh>>

(* The last pulse has been sent, or the second of cosmics is over.         *)
Pulsed ==
  /\ step = "pulse"
  /\ GoTo("halt")
  /\ UNCHANGED <<daqVars, taskVars, depth, waitVars, ghostVars>>

-----------------------------------------------------------------------------
(* The steps of a task that was begun.                                     *)
Work ==
  \/ SetSubdir \/ NextDepth \/ EndLoop \/ RestoreSubdir
  \/ SetRunType \/ Configure \/ Enable \/ Pulsed \/ Halt
  \/ Poll
  \/ LoseMessage

Daq == (DaqWorks \/ BreakDown) /\ UNCHANGED controlVars

Next == BeginScan \/ BEGIN_DAQ \/ END_DAQ \/ Work \/ Daq

Spec == Init /\ [][Next]_vars

(* The caller runs on, and so does a DAQ that has not failed.              *)
FairSpec == Spec /\ WF_vars(Work) /\ WF_vars(DaqWorks /\ UNCHANGED controlVars)

-----------------------------------------------------------------------------
(* While a scan sends its pulses, the DAQ is enabled and will stay so, in  *)
(* a run that is named after the depth the boards are set to; provided     *)
(* that it was at rest when the scan began and that every wait so far has  *)
(* returned true.  The scans themselves do not look (Buttons.cc 738-751):  *)
(* after a wait that timed out they pulse nevertheless.                    *)
PulsesAreTaken ==
  step = "pulse" /\ fresh /\ confirmed =>
    /\ orders = <<>>
    /\ daqState \in {"Enabled", "Failed"}
    /\ run.type = RunType

(* The runs of a pipeline scan go to its own directory, all others to the  *)
(* common one, unless a call has thrown: then the directory of the scan    *)
(* that was cut short stays set for whatever comes next.                   *)
RunsGoToTheirDirectory ==
  /\ step = "configure" /\ (kind \in PipelineScans \/ throws = 0) => params.path = Subdir
  /\ step = "pulse" /\ fresh /\ confirmed /\ (kind \in PipelineScans \/ throws = 0) =>
       run.path = Subdir
  /\ step = "idle" /\ throws = 0 => params.path = Raw

(* waitForDAQToExecute returns true if the DAQ gets into the expected      *)
(* state in time ("Poll, and return TRUE if and only if DAQ gets into the  *)
(* expected state before timeout"): in a task that found the DAQ at rest,  *)
(* a wait only fails because the DAQ was too slow or broke down.           *)
TrueIfInTime == fresh /\ step # "idle" /\ ~ confirmed => late \/ daqState = "Failed"

(* Every task ends, however slow or broken the DAQ is.                     *)
TaskEnds == (step # "idle") ~> (step = "idle")

(* However late its commands were carried out, once the last task was one  *)
(* that ends with stopDAQ, the DAQ comes to rest in the end.               *)
ComesToRest ==
  (step = "idle" /\ throws = 0 /\ tasks > 0 /\ awaited = "Halt")
    ~> (daqState \in {"Halted", "Failed"} \/ step # "idle")
=============================================================================
