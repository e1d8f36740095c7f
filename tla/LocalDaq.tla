------------------------------- MODULE LocalDaq -------------------------------
(***************************************************************************)
(* The local DAQ that Manager.cc drives by SOAP: what src/ takes for       *)
(* granted about the applications emu::daq::manager and emu::daq::rui,     *)
(* which are not part of it.  A command is accepted at once and carried    *)
(* out later, one after the other; while its parts change over, daqState   *)
(* reads INDEFINITE; a command that does not fit the state has no effect;  *)
(* and the DAQ may break down at any time, for good.                       *)
(***************************************************************************)
EXTENDS Naturals, Sequences

VARIABLES
  daqState,  \* what getParameters("daqState") answers
  orders,    \* the commands accepted and not carried out yet
  params,    \* runType and pathToRUIDataOutFile, as last set
  run        \* the parameters with which it was last configured

daqVars == <<daqState, orders, params, run>>

Commands == {"Configure", "Enable", "Halt"}

(* The states that mean that the DAQ is in working order; "Failed" stands  *)
(* for all the others.                                                     *)
GoodStates == {"Halted", "Ready", "Enabled", "INDEFINITE"}

Fits(command) ==
  \/ command = "Configure" /\ daqState = "Halted"
  \/ command = "Enable"    /\ daqState = "Ready"
  \/ command = "Halt"      /\ daqState \in {"Ready", "Enabled"}

(* The state that a command leads to.                                      *)
Target(command) ==
  CASE command = "Configure" -> "Ready"
    [] command = "Enable"    -> "Enabled"
    [] OTHER                 -> "Halted"

Ignore ==
  /\ orders # <<>> /\ daqState # "INDEFINITE" /\ ~ Fits(Head(orders))
  /\ orders' = Tail(orders)
  /\ UNCHANGED <<daqState, params, run>>

Begin ==
  /\ orders # <<>> /\ Fits(Head(orders))
  /\ daqState' = "INDEFINITE"
  /\ run' = IF Head(orders) = "Configure" THEN params ELSE run
  /\ UNCHANGED <<orders, params>>

Complete ==
  /\ daqState = "INDEFINITE"
  /\ daqState' = Target(Head(orders))
  /\ orders' = Tail(orders)
  /\ UNCHANGED <<params, run>>

BreakDown ==
  /\ daqState # "Failed"
  /\ daqState' = "Failed"
  /\ orders' = <<>>
  /\ UNCHANGED <<params, run>>

DaqWorks == Ignore \/ Begin \/ Complete

(* Nothing is under way.                                                   *)
AtRest == daqState = "Halted" /\ orders = <<>>
=============================================================================
