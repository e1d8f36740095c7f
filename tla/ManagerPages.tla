---------------------------- MODULE ManagerPages ----------------------------
(***************************************************************************)
(* Manager, the server: it builds its groups of buttons when the page is   *)
(* first asked for, shows each button with a number, and finds the button  *)
(* that a request means from the number it sends back. A page stays in the *)
(* browser for as long as the operator likes, also when the server has     *)
(* ended and been started again. MasterTest performs the tests of a group. *)
(***************************************************************************)
EXTENDS TestBench

VARIABLES firstTime,   \* firstUse: the static variable
          groups_,     \* names of the groups built so far
          pressed      \* ghost: the button of this request, as its page showed it

managerVars == <<firstTime, groups_, pressed>>

(***************************************************************************)
(* The groups, in the order in which firstUse puts buttons into them.      *)
(***************************************************************************)
Groups == <<"", "Production Tests", "ODMB75 Production Tests">>

groupActions ==
    << <<"ChangeSlotNumber", "ExecuteVMEDSL", "ReadODMBVitals", "ResetRegisters",
         "ReprogramDCFEB", "SYSMON", "HardReset", "LoadMCSviaBPI">>,
       <<"ChangeSlotNumber", "SetDCFEBMode", "MasterTest", "LVMBtest", "LVMB5test",
         "LVMBcheck", "LVMB904", "VoltageCurrentTest", "DCFEBJTAGcontrol", "DCFEBFiber",
         "DCFEBPulses", "CCBReg", "OTMBPRBSTest", "DiscreteLogicTest", "DDUPRBSTest",
         "PCPRBSTest", "MCSBackAndForthBPI", "SPIcheck", "ClockChipTest", "HardReset",
         "ReprogramDCFEB", "LVMBtest_dos">>,
       <<"ChangeSlotNumber", "SetDCFEBMode", "HardReset", "ReprogramDCFEB",
         "DiscreteLogicTest", "ClockChipTest", "VoltageCurrentTest", "SPIcheck", "CCBReg",
         "OTMBPRBSTest", "LVMBtest", "LVMB5test", "DCFEBJTAGcontrol", "DCFEBPulses">> >>

\* Numbers of groups and of their buttons start at 0.
Buttons == {b \in (0..2) \X (0..21) : b[2] < Len(groupActions[b[1] + 1])}
Named(b) == groupActions[b[1] + 1][b[2] + 1]

\* The number in the form of button i of group g, and what the callbacks
\* make of it. Mutant of that: buttons are counted from 1.
action_to_call(b, ngroups) == b[2] * ngroups + b[1]
DecodedFromOne(number, ngroups) == <<number % ngroups, (number \div ngroups) - 1>>
Decoded(number, ngroups) == <<number % ngroups, number \div ngroups>>

(***************************************************************************)
(* MasterTest: the tests with a number for a quick round and one for high  *)
(* statistics (100 or 5000, 0 or 10, ...: none, some and many). It goes    *)
(* through the group that currentActionVector_ points to, which is the one *)
(* that firstUse put a button into last. The text box may hold h, d, cfg.  *)
(***************************************************************************)
short_arg ==
    [LVMBtest |-> 1, DCFEBJTAGcontrol |-> 0, DCFEBFiber |-> 1, DCFEBPulses |-> 1, CCBReg |-> 1,
     DDUPRBSTest |-> 1, PCPRBSTest |-> 1, OTMBPRBSTest |-> 1, MCSBackAndForthBPI |-> 0,
     DiscreteLogicTest |-> 1]
long_arg ==
    [LVMBtest |-> 2, DCFEBJTAGcontrol |-> 1, DCFEBFiber |-> 2, DCFEBPulses |-> 2, CCBReg |-> 2,
     DDUPRBSTest |-> 2, PCPRBSTest |-> 2, OTMBPRBSTest |-> 2, MCSBackAndForthBPI |-> 1,
     DiscreteLogicTest |-> 2]

currentActionVector_ == groupActions[Len(groups_)]

Modes == SUBSET {"h", "d", "cfg"}

Arguments(mode) == IF mode \cap {"h", "d"} # {} THEN long_arg ELSE short_arg

Chosen(test, mode) ==
    /\ test \in DOMAIN short_arg
    /\ "cfg" \notin mode
    /\ "d" \in mode => test \in {"DCFEBJTAGcontrol", "DCFEBFiber"}

Defaults == Call("cfg defaults", 0)

MasterTest(mode) ==
    LET v == currentActionVector_
        calls == AfterSteps(LAMBDA done, i: IF Chosen(v[i], mode)
                                            THEN Append(done, Call(v[i], Arguments(mode)[v[i]]))
                                            ELSE done,
                            <<>>, Len(v))
    IN IF mode \cap {"h", "cfg"} # {} THEN Append(calls, Defaults) ELSE calls

\* Its last part, which also stores what it writes.
Defaults_respond ==
    /\ Perform("cfg defaults")
    /\ board' = [board EXCEPT !.cfg = [KILL |-> "all", DELAYS |-> "default"],
                              !.prom = [KILL |-> "all", DELAYS |-> "default"]]
    /\ UNCHANGED is_xdcfeb
    /\ Done("silent", 0, FALSE)

(***************************************************************************)
(* Requests. The server is busy with one at a time.                        *)
(***************************************************************************)
Idle == todo = <<>> /\ last = NoReport

\* The page: firstTime is cleared before the file is read, so that a file
\* that cannot be parsed is not read again, and the groups are never built.
defaultWebPage ==
    /\ Idle
    /\ firstTime' = FALSE
    /\ \/ firstTime /\ groups_' = Groups
       \/ UNCHANGED groups_
    /\ UNCHANGED <<pressed, benchVars>>

\* The server ends; it is started again by hand.
Restarted ==
    /\ firstTime' = TRUE /\ groups_' = <<>>
    /\ is_xdcfeb' = TRUE
    /\ todo' = <<>> /\ last' = NoReport /\ pressed' = <<>>
    /\ UNCHANGED <<faults, odmb, kind, board>>

\* The two pages of production tests begin with the first button of the log,
\* which is built with the groups: asked for before, they end the server.
\* Afterwards they only show what there is.
ProductionTests == Idle /\ groups_ = <<>> /\ Restarted

\* A page always shows the numbers of all three groups. Without groups, the
\* division that is to find the group ends the server.
groupActionsCallback(b, n, mode) ==
    LET found == Decoded(action_to_call(b, Len(Groups)), Len(groups_))
    IN /\ Idle
       /\ \/ /\ groups_ = <<>>
             /\ Restarted
          \/ /\ groups_ # <<>>
             /\ todo' = IF Named(found) = "MasterTest" THEN MasterTest(mode)
                        ELSE <<Call(Named(found), n)>>
             /\ pressed' = b
             /\ UNCHANGED <<faults, odmb, kind, board, is_xdcfeb, last, firstTime, groups_>>

\* The report has been added to the page.
backToMainPage ==
    /\ todo = <<>> /\ (last # NoReport \/ pressed # <<>>)
    /\ last' = NoReport /\ pressed' = <<>>
    /\ UNCHANGED <<faults, odmb, kind, board, is_xdcfeb, todo, firstTime, groups_>>
=============================================================================
