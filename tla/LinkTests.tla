----------------------------- MODULE LinkTests -----------------------------
(***************************************************************************)
(* The tests of the links and registers of the ODMB: PCPRBSTest,           *)
(* DDUPRBSTest, OTMBPRBSTest, ClockChipTest, CCBReg, DiscreteLogicTest,    *)
(* and the button ResetRegisters.                                          *)
(***************************************************************************)
EXTENDS TestBench

(***************************************************************************)
(* A PRBS test sends as many sequences as the 16-bit word says into which  *)
(* the number is put, and reads the number of errors.                      *)
(***************************************************************************)
Sent(n) == n % WordRange

BitErrors(link, sent) == IF Faulty("link", link) /\ sent > 0 THEN 1..2 ELSE {0}

PRBSTest(test, link) ==
    /\ Perform(test)
    /\ UNCHANGED <<board, is_xdcfeb>>
    /\ \E num_errors \in BitErrors(link, Sent(N)) :
         Done(Verdict(num_errors = 0), Sent(N), FALSE)

PCPRBSTest_respond == PRBSTest("PCPRBSTest", 1)
DDUPRBSTest_respond == PRBSTest("DDUPRBSTest", 2)

\* The first sequence of the OTMB is never matched and gives 100 errors.
OTMBErrors == 100

Matches(sent) ==
    CASE sent = 0 -> {0}
      [] sent > 0 /\ Faulty("link", 3) -> 0..sent - 1
      [] OTHER -> {sent - 1}

OTMBPRBSTest_respond ==
    /\ Perform("OTMBPRBSTest")
    /\ UNCHANGED <<board, is_xdcfeb>>
    /\ \E num_matches \in Matches(Sent(N)), extra \in BitErrors(3, Sent(N)) :
         LET num_errors == IF Sent(N) = 0 THEN 0 ELSE OTMBErrors + extra
         IN Done(Verdict(num_errors = OTMBErrors /\ N > 0 /\ num_matches = N - 1),
                 Sent(N), FALSE)

(***************************************************************************)
(* ClockChipTest resets the chip and reads its two identifications n       *)
(* times; a loop counts as failed if it, or any loop before it, has read a *)
(* wrong one.                                                              *)
(***************************************************************************)
BadLoops(n) ==
    IF Faulty("clock chip", 0) THEN (SUBSET (1..n)) \ {{}} ELSE {{}}

\* Mutant of fail_number: each loop forgets the error of the one before.
LastFails(bad, n) == IF n \in bad THEN 1 ELSE 0

fail_number(bad, n) == Cardinality({i \in 1..n : \E j \in bad : j <= i})

ClockChipTest_respond ==
    /\ Perform("ClockChipTest")
    /\ UNCHANGED <<board, is_xdcfeb>>
    /\ \E bad \in IF N = 0 THEN {{}} ELSE BadLoops(N) :
         Done(Verdict(fail_number(bad, N) = 0), N, FALSE)

(***************************************************************************)
(* CCBReg. The CCB toggles lines that the ODMB shows as bits of a register *)
(* (addr_pulses and other_bits; bit 3 is masked): a reading must differ    *)
(* from the one before in exactly these. A read that failed gives BAAD; it *)
(* is counted and what is compared with it as well. A line may be stuck.   *)
(***************************************************************************)
other_bits == <<{4}, {5}, {7}, {1, 2, 6, 7}, {0}, {4, 10}, {4, 9}, {4, 8}>>
Toggled(k) == other_bits[((k - 1) % Len(other_bits)) + 1]

BAAD == {0, 2, 5, 7, 9, 11}

\* The register after k pulses, and what is read if the glitch is then.
Other(k) ==
    {b \in 0..10 : /\ ~Faulty("ccb line", b)
                   /\ Cardinality({i \in 1..k : b \in Toggled(i)}) % 2 = 1}
ReadOther(k, glitch) == IF k = glitch THEN BAAD ELSE Other(k)

Differences(s, t) == (s \ t) \cup (t \ s)

GoodPulse(k, glitch) ==
    /\ k # glitch
    /\ Differences(ReadOther(k, glitch), ReadOther(k - 1, glitch)) = Toggled(k)

\* The first reading is made before the first pulse; -1 is no glitch.
CCBReg_respond ==
    LET pulses == N * Len(other_bits)
    IN /\ Perform("CCBReg")
       /\ UNCHANGED <<board, is_xdcfeb>>
       /\ \E glitch \in {-1} \cup Accidents(0..pulses) :
            Done(Verdict(/\ \A k \in 1..pulses : GoodPulse(k, glitch)
                         /\ N > 0 => ~\E reg \in {"ccb data", "ccb command"} : Faulty(reg, 0)),
                 N, glitch # -1)

(***************************************************************************)
(* DiscreteLogicTest works the TAP of the ODMB bit by bit (bit 0 of a      *)
(* write is TMS, bit 1 TDI), wherever the test before has left it. What    *)
(* the TAP does is external (IEEE 1149.1; the IR column is never left by   *)
(* the pause).                                                             *)
(***************************************************************************)
TapStates == {"Reset", "Idle", "SelectDR", "CaptureDR", "ShiftDR", "Exit1DR", "UpdateDR",
              "SelectIR", "CaptureIR", "ShiftIR", "Exit1IR", "UpdateIR"}

TapNext(at, tms) ==
    CASE at = "Reset" -> IF tms THEN "Reset" ELSE "Idle"
      [] at \in {"Idle", "UpdateDR", "UpdateIR"} -> IF tms THEN "SelectDR" ELSE "Idle"
      [] at = "SelectDR" -> IF tms THEN "SelectIR" ELSE "CaptureDR"
      [] at \in {"CaptureDR", "ShiftDR"} -> IF tms THEN "Exit1DR" ELSE "ShiftDR"
      [] at = "SelectIR" -> IF tms THEN "Reset" ELSE "CaptureIR"
      [] at \in {"CaptureIR", "ShiftIR"} -> IF tms THEN "Exit1IR" ELSE "ShiftIR"
      [] at = "Exit1DR" -> "UpdateDR"
      [] OTHER -> "UpdateIR"

\* Leading ones, the instruction, and up to Capture-DR.
InstructionBits(odmb7) ==
    IF odmb7 THEN <<0, 0, 2, 0, 0, 2, 0, 1>>
    ELSE <<0, 0, 0, 0, 0, 2, 0, 0, 2, 2, 2, 3>>
TapWrites(odmb7) ==
    <<1, 1, 1, 1, 1, 0, 1, 1>> \o InstructionBits(odmb7) \o <<1, 0, 1, 0>>

TapClock(tap, word) ==
    [at |-> TapNext(tap.at, word % 2 = 1),
     ir |-> IF tap.at = "ShiftIR" THEN Append(tap.ir, word \div 2)
            ELSE IF tap.at = "CaptureIR" THEN <<>> ELSE tap.ir]

\* UserCode (3C8) in ten bits, or IDCODE (09) in six, the last one first.
Selects(odmb7) ==
    \A start \in TapStates :
        AfterSteps(LAMBDA tap, i: TapClock(tap, TapWrites(odmb7)[i]),
                   [at |-> start, ir |-> <<>>], Len(TapWrites(odmb7)))
          = [at |-> "CaptureDR",
             ir |-> IF odmb7 THEN <<1, 0, 0, 1, 0, 0>>
                    ELSE <<0, 0, 0, 1, 0, 0, 1, 1, 1, 1>>]

\* A bit above 1 ends the test, without a verdict on the other repetitions.
DiscreteLogicTest_respond ==
    /\ Perform("DiscreteLogicTest")
    /\ UNCHANGED <<board, is_xdcfeb>>
    /\ \/ /\ board.fw = "none"
          /\ Done("NOT PASSED", 0, FALSE)
       \/ /\ board.fw # "none"
          /\ \E nFails \in IF N > 0 /\ (Faulty("user code", 0) \/ ~Selects(odmb = "ODMB7"))
                           THEN 1..N ELSE {0} :
               Done(Verdict(nFails = 0), N, FALSE)

\* The button "Soft reset (ODMB)" writes a reset into a register and then
\* back what it has read there before.
ResetRegisters_respond ==
    /\ Perform("ResetRegisters")
    /\ UNCHANGED <<board, is_xdcfeb>>
    /\ Done("silent", 0, FALSE)
=============================================================================
