------------------------------- MODULE Bench -------------------------------
(***************************************************************************)
(* The test stand: an operator at the pages of Manager, the production     *)
(* tests of Buttons.cc, and the board under test. The board has one fault  *)
(* or none; single readings may be wrong by accident as well. A session    *)
(* bounds what the operator does, not for how long.                        *)
(***************************************************************************)
EXTENDS LvmbTests, DcfebTests, LinkTests, PromTests, ManagerPages, Functions

CONSTANT Sessions   \* bound: records of tests, and what they are tried with: faults, boards,
                    \* and contents of the file that SPIcheck writes

ASSUME SessionAssumption ==
    \A s \in Sessions : s.odmbs \subseteq Odmbs /\ s.kinds \subseteq Kinds /\ s.files \subseteq Files

VARIABLE session

vars == <<benchVars, managerVars, session>>

Init ==
    /\ session \in Sessions
    /\ faults \in {{}} \cup {{f} : f \in session.faults}
    /\ odmb \in session.odmbs
    /\ kind \in session.kinds
    /\ board = NewBoard(NewSpi)
    /\ is_xdcfeb = TRUE
    /\ todo = <<>> /\ last = NoReport
    /\ firstTime = TRUE /\ groups_ = <<>> /\ pressed = <<>>

Press ==
    \E b \in Buttons, n \in 0..MaxRepeats, mode \in Modes :
        /\ Named(b) \in session.tests
        /\ IF Named(b) = "MasterTest" THEN n = 0 ELSE mode = {}
        /\ groupActionsCallback(b, n, mode)

LvmbTest ==
    \/ LVMBtest_respond
    \/ LVMB5test_respond
    \/ LVMB904_respond
    \/ VoltageCurrentTest_respond
    \/ Show
    \/ LVMBtest_dos_respond

DcfebTest ==
    \/ DCFEBJTAGcontrol_respond
    \/ DCFEBFiber_respond
    \/ DCFEBPulses_respond
    \/ ReprogramDCFEB_respond
    \/ SetDCFEBMode_respond

LinkTest ==
    \/ PCPRBSTest_respond
    \/ DDUPRBSTest_respond
    \/ OTMBPRBSTest_respond
    \/ ClockChipTest_respond
    \/ CCBReg_respond
    \/ DiscreteLogicTest_respond
    \/ ResetRegisters_respond

PromTest ==
    \/ SPIcheck_respond(session.files)
    \/ MCSBackAndForthBPI_respond
    \/ HardReset_respond
    \/ LoadMCSviaBPI_respond
    \/ Defaults_respond

Next ==
    \/ (LvmbTest \/ DcfebTest \/ LinkTest \/ PromTest) /\ UNCHANGED <<managerVars, session>>
    \/ Dies /\ Restarted /\ UNCHANGED session
    \/ (defaultWebPage \/ ProductionTests \/ Press \/ backToMainPage) /\ UNCHANGED session

Spec == Init /\ [][Next]_vars

(***************************************************************************)
(* Types.                                                                  *)
(***************************************************************************)
Spi ==
    [on: BOOLEAN, queue: Seq(Commands \cup Files), half: BOOLEAN,
     addr: {"none", "FF0000", "other"}, sel: 0..1, fifo: Seq(SpiWords), timer: {"zero", "short", "long"}, runs: BOOLEAN,
     shown: {"none", "default", "FB", "0B"}, vcfg: {"FB", "0B"}, locked: BOOLEAN,
     vlocked: BOOLEAN, rom: [0..1 -> Contents]]

\* The state of the board and of the server has its type; commands that wait
\* or words that were left over do not pile up from one SPIcheck to the next.
BenchTypeOK ==
    /\ board \in Boards(Spi)
    /\ Len(board.spi.queue) <= 4 /\ Len(board.spi.fifo) <= 4
    /\ is_xdcfeb \in BOOLEAN /\ firstTime \in BOOLEAN
    /\ groups_ \in {<<>>, Groups}
    /\ pressed \in Buttons \cup {<<>>}
    /\ last.says \in Verdicts /\ last.trials \in Nat /\ last.glitch \in BOOLEAN
    /\ \A i \in DOMAIN todo : todo[i].n \in 0..MaxRepeats

(***************************************************************************)
(* What a verdict is worth.                                                *)
(***************************************************************************)
\* The faults that a test is there to find.
Concerns(test) ==
    CASE test = "LVMBtest" -> ({"dead", "supply"} \X Range(LVMB.adcs))
                              \cup ({"stays on", "stays off"} \X Range(LVMB.pon))
      [] test = "LVMB5test" -> ({"dead", "supply"} \X Range(LVMB5.adcs))
                               \cup ({"stays on", "stays off"} \X Range(LVMB5.pon))
      [] test = "LVMB904" -> ({"dead", "supply"} \X (0..6)) \cup ({"stuck on"} \X Dcfebs)
      [] test = "VoltageCurrentTest" -> {"voltage"} \X (1..5)
      [] test = "DCFEBJTAGcontrol" -> {"mask"} \X Dcfebs
      [] test = "DCFEBFiber" -> {"no pulse", "no resync", "packets", "crc"} \X Dcfebs
      [] test = "DCFEBPulses" -> {"no pulse"} \X Dcfebs
      [] test = "PCPRBSTest" -> {<<"link", 1>>}
      [] test = "DDUPRBSTest" -> {<<"link", 2>>}
      [] test = "OTMBPRBSTest" -> {<<"link", 3>>}
      [] test = "ClockChipTest" -> {<<"clock chip", 0>>}
      [] test = "CCBReg" -> ({"ccb line"} \X ((0..10) \ {3})) \cup ({"ccb data", "ccb command"} \X {0})
      [] test = "DiscreteLogicTest" -> {<<"user code", 0>>}
      [] test = "SPIcheck" -> ({"spi"} \X (Commands \cup {"Enable", "Disable", "Reset FSM"}))
                              \cup ({"cfg"} \X CfgRegs)
                              \cup ({"cfg load", "cfg save", "soft reset"} \X {0})
      [] test = "MCSBackAndForthBPI" -> {<<"bpi", 0>>}
      [] OTHER -> {}

\* The tests assume the wrong kind of DCFEB.
WrongKind == is_xdcfeb # (kind = "xDCFEB")

\* The faults that a test, as it is written, may not see. DCFEBJTAGcontrol
\* passes an input exactly when as many reads fail as there are repetitions,
\* and so passes a bad mask if every input that is read has one. LVMB904 takes
\* every xDCFEB that does not answer for connected, so that one that stays on
\* is what it likes to see. In DCFEBFiber, as many repetitions as the packet
\* counter has values show a lost packet as a turn of the counter, and a
\* register that is not there may read as the number asked for.
Misses(test) ==
    CASE test = "LVMBtest" -> {<<"dead", LVMB.adcs[1]>>}
      [] test = "LVMB5test" -> {<<"dead", LVMB5.adcs[1]>>}
      [] test = "LVMB904" -> {<<"dead", 0>>}
                             \cup (IF is_xdcfeb \/ WrongKind THEN {"stuck on"} \X Dcfebs ELSE {})
                             \cup (IF last.n = 0 THEN {"dead", "supply"} \X (0..6) ELSE {})
      [] test = "DCFEBJTAGcontrol" -> {"mask"} \X Dcfebs
      [] test = "DCFEBFiber" ->
           ({"no resync"} \X (IF WrongKind /\ last.n = WordRange - 1 THEN Dcfebs ELSE Dcfebs \ {LastDcfeb}))
           \cup (IF last.n >= PacketRange THEN {"packets", "crc"} \X Dcfebs ELSE {})
      [] test = "DCFEBPulses" -> {"no pulse"} \X Dcfebs
      [] test = "SPIcheck" -> {"spi"} \X {"NoOp", "Select 0", "Timer reset"}
      [] OTHER -> {}

\* PASSED is right: a test that has tried something, and whose readings were
\* right, has missed none of the faults that it is there to find, but for
\* those that are known to escape it.
PassedMeansGood ==
    last.says = "PASSED" /\ last.trials > 0 /\ ~last.glitch =>
        faults \cap Concerns(last.test) \subseteq Misses(last.test)

\* What the tests rely on and leave to each other.
Prepared(b) == b.power /\ b.fw # "none" /\ Clean(b.spi)

\* Requests that a good board can satisfy. LVMB904 takes every xDCFEB for
\* connected that does not answer; DCFEBJTAGcontrol takes end-start for the
\* number of a repetition's shifts, so that no board passes if it has any;
\* DCFEBFiber does not reset the counters before its first input, and
\* DCFEBPulses leaves them; SPIcheck never erases what it has written to
\* PROM 1, which must hold nothing yet or what the file still holds.
Sensible(test, n) ==
    CASE test \in {"LVMBtest", "LVMB5test"} -> n > 0
      [] test = "LVMB904" -> ~is_xdcfeb
      [] test = "DCFEBJTAGcontrol" -> ~WrongKind /\ n = 0
      [] test = "DCFEBFiber" ->
           ~WrongKind /\ n \in 1..WordRange - 1 /\ \A d \in Dcfebs : board.l1a[d] = 0
      [] test = "DCFEBPulses" -> ~WrongKind /\ n < CounterRange
      [] test = "OTMBPRBSTest" -> n \in 1..WordRange - 1
      [] test = "SPIcheck" -> odmb = "ODMB7" /\ \A file \in session.files : board.spi.rom[1] \in {"erased", file}
      [] OTHER -> TRUE

\* No test fails a good board, or leaves it so that a later one would: as
\* long as requests are sensible and readings right, a board without a fault
\* passes all tests, in whatever order and however often they are made.
GoodBoardsPass ==
    [][/\ todo # <<>> /\ todo' = Tail(todo)
       /\ faults = {} /\ ~last'.glitch
       /\ Prepared(board) /\ Sensible(Head(todo).test, N)
       => last'.says # "NOT PASSED" /\ Prepared(board')]_vars

(***************************************************************************)
(* What the tests leave behind, and what a button does.                    *)
(***************************************************************************)
\* Wherever an error ends SPIcheck, its test values have been taken out of
\* the PROM again: no later soft reset loads them.
TestValuesAreRemoved ==
    \A r \in CfgRegs : board.prom[r] \notin {"test", "test - 1"}

\* Every test leaves the JTAG chain with no scan open, whatever kind of
\* DCFEB it has assumed, so that the next test's header is understood.
ScansAreClosed == board.jtag.at = "idle"

\* The number a page has sent stands for the button that the page has shown,
\* also if the server has been started again in between.
PressedIsPerformed ==
    [][pressed = <<>> /\ pressed' # <<>> =>
         \/ Named(pressed') = "MasterTest"
         \/ Len(todo') = 1 /\ Head(todo').test = Named(pressed')]_vars
=============================================================================
