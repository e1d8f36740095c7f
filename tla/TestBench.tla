----------------------------- MODULE TestBench -----------------------------
(***************************************************************************)
(* What the production tests of Buttons.cc share. A request to the server  *)
(* asks for one test, or, through MasterTest, for several, which run one   *)
(* after the other to their ends: nothing interleaves with a test, but     *)
(* each finds the board, and the static variables of Manager, as the ones  *)
(* before it have left them.                                               *)
(*                                                                         *)
(* The board is external. It is modelled as far as the tests tell its      *)
(* states apart, and may have a fault from the start, which is a pair of   *)
(* what is wrong and a number (of an ADC, an input, a command).            *)
(***************************************************************************)
EXTENDS Integers, Sequences, FiniteSets, VmeJtag

CONSTANTS Dcfebs,        \* inputs of the ODMB, in the order of the loops
          CounterRange,  \* values of the 12 bits of a counter that are read at once
          WordRange,     \* values of a 16-bit word of VME
          MaxRepeats     \* bound: the greatest number asked for

ASSUME BenchAssumption ==
    /\ Dcfebs \in SUBSET (Nat \ {0}) /\ IsFiniteSet(Dcfebs) /\ Dcfebs # {}
    /\ CounterRange \in Nat \ {0} /\ WordRange \in Nat \ {0}
    /\ MaxRepeats \in Nat /\ MaxRepeats >= 2   \* MasterTest asks for up to 2

VARIABLES faults,     \* what is wrong with the board, for ever
          odmb,       \* which board it is
          kind,       \* the DCFEBs it is connected to
          board,      \* its state, see Boards
          is_xdcfeb,  \* Manager: the kind that the tests assume
          todo,       \* tests still to be made in this request
          last        \* the last report, see Reports

benchVars == <<faults, odmb, kind, board, is_xdcfeb, todo, last>>

LastDcfeb == CHOOSE d \in Dcfebs : \A e \in Dcfebs : e <= d

(***************************************************************************)
(* KILL, the inputs that are ignored, and one of the other configuration   *)
(* registers; the values stand for those that some code writes.            *)
(***************************************************************************)
CfgRegs == {"KILL", "DELAYS"}
CfgValues == {"own", "none", "all but the last", "all", "default", "test", "test - 1"}
Configurations == [CfgRegs -> CfgValues]

(***************************************************************************)
(* power: of the DCFEBs; l1a: their counters of L1A's since the last       *)
(* resync; jtag: the chain; cfg and prom: configuration registers and what *)
(* the PROM holds for them; fw and eprom: the firmware that runs and that  *)
(* is stored; spi: see PromTests.                                          *)
(***************************************************************************)
Firmware == {"own", "1", "2", "none"}

Boards(spis) ==
    [power: BOOLEAN, l1a: [Dcfebs -> 0..WordRange - 1], jtag: Chain,
     cfg: Configurations, prom: Configurations, fw: Firmware, eprom: Firmware,
     spi: spis]

Odmbs == {"ODMB", "ODMB7"}

Own == [r \in CfgRegs |-> "own"]

NewBoard(spi) ==
    [power |-> TRUE, l1a |-> [d \in Dcfebs |-> 0], jtag |-> Reset,
     cfg |-> Own, prom |-> Own, fw |-> "own", eprom |-> "own", spi |-> spi]

Faulty(what, no) == <<what, no>> \in faults

(***************************************************************************)
(* A report: the test and the number asked for, the verdict shown, and, as *)
(* ghosts, how many trials the verdict rests on and whether the board gave *)
(* a wrong answer that no permanent fault explains.                        *)
(***************************************************************************)
Verdicts == {"PASSED", "NOT PASSED", "silent"}

Report(test, n, says, trials, glitch) ==
    [test |-> test, n |-> n, says |-> says, trials |-> trials, glitch |-> glitch]

NoReport == Report("none", 0, "silent", 0, FALSE)

Call(test, n) == [test |-> test, n |-> n]

\* The next call of the request is this test; n is the number it is given.
Perform(test) == todo # <<>> /\ Head(todo).test = test
N == Head(todo).n

Verdict(passed) == IF passed THEN "PASSED" ELSE "NOT PASSED"

Done(says, trials, glitch) ==
    /\ last' = Report(Head(todo).test, N, says, trials, glitch)
    /\ todo' = Tail(todo)
    /\ UNCHANGED <<faults, odmb, kind>>

(***************************************************************************)
(* What the FPGA's of the DCFEBs do (external).                            *)
(***************************************************************************)
Powered(d, power) == power \/ Faulty("stuck on", d)
Present(d, power) == Powered(d, power) /\ ~Faulty("absent", d)

\* The DONE bits, register 0x3120.
DoneBits == {d \in Dcfebs : Present(d, board.power)}

\* n L1A's to all, and "DCFEB resync--reset all counters".
Triggered(l1a, n) ==
    [d \in Dcfebs |-> IF d \in DoneBits /\ ~Faulty("no pulse", d)
                      THEN (l1a[d] + n) % WordRange ELSE l1a[d]]
Resynced(l1a) == [d \in Dcfebs |-> IF Faulty("no resync", d) THEN l1a[d] ELSE 0]

\* Bound: a reading is wrong by accident only on a board without a fault.
Accidents(readings) == IF faults = {} THEN readings ELSE {}

\* One of the values for each input.
EachOneOf(inputs, Values(_)) ==
    {f \in [inputs -> UNION {Values(d) : d \in inputs}] : \A d \in inputs : f[d] \in Values(d)}

\* A register that is not there reads as zeros or ones.
Junk(range) == {0, range - 1}

\* What JTAGRead makes of the L1A counter of an input: so many of its bits.
ReadCounter(chain, d, count, range) ==
    IF d \in DoneBits /\ chain.at = "idle" /\ chain.out = "L1A"
    THEN {count % range} ELSE Junk(range)
=============================================================================
