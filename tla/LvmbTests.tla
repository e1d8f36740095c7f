----------------------------- MODULE LvmbTests -----------------------------
(***************************************************************************)
(* The tests of the low-voltage monitoring board (LVMB): LVMBtest,         *)
(* LVMB5test and LVMB904, VoltageCurrentTest, and the pages that only show *)
(* readings. An ADC is dead (it reads 65535, 160 V), has a supply outside  *)
(* its tolerance, or a channel that cannot be switched (off or on).        *)
(* The voltages expected are those of the text box: readings are reduced   *)
(* to right and wrong, where a reading is wrong if its difference to the   *)
(* expected voltage exceeds the tolerance.                                 *)
(***************************************************************************)
EXTENDS TestBench

CONSTANT MaxNoise   \* bound: readings of a test that are wrong by accident

\* ADC_number_vec, pon_test_adc_vec and the width of the verdict of each test.
LVMB == [adcs |-> <<0, 4, 1, 5, 3, 6, 2>>, pon |-> <<3, 6, 4, 5, 4, 5, 3, 6>>]
LVMB5 == [adcs |-> <<0, 0, 1, 1>>, pon |-> <<2, 2, 3, 3, 4, 4>>]

(***************************************************************************)
(* 1) On and off. A dead first ADC is "not connected", and counts twice,   *)
(* once for each mode, so that the exit for three is never taken; any      *)
(* other dead ADC reads 160 V and fails.                                   *)
(***************************************************************************)
PowerReading(adc, on) ==
    CASE Faulty("dead", adc) -> "160 V"
      [] ~Faulty("dead", adc) /\ Faulty("stays off", adc) -> "off"
      [] ~Faulty("dead", adc) /\ Faulty("stays on", adc) -> "on"
      [] OTHER -> IF on THEN "on" ELSE "off"

NotConnected(lvmb) == PowerReading(lvmb.pon[1], TRUE) = "160 V"

FailsOnOff(lvmb) ==
    \E i \in DOMAIN lvmb.pon, on \in BOOLEAN :
        /\ ~(i = 1 /\ PowerReading(lvmb.pon[i], on) = "160 V")
        /\ PowerReading(lvmb.pon[i], on) # IF on THEN "on" ELSE "off"

\* The DCFEBs lose power and what they have counted, and have power again.
SwitchedOffAndOn == [board EXCEPT !.power = TRUE, !.l1a = [d \in Dcfebs |-> 0]]

(***************************************************************************)
(* 2) Readings. In every repetition, 65535 from the first ADC ends it;     *)
(* what is read before that is counted, each reading in two ranges.        *)
(***************************************************************************)
Read(adcs, n) == IF Faulty("dead", adcs[1]) THEN 0 ELSE 2 * n * Len(adcs)

\* Entries of the histograms that are outside the tolerance. The loop over
\* positions sums the histogram of an ADC as often as the ADC is listed.
Positions(adcs, a) == {i \in DOMAIN adcs : adcs[i] = a}
WrongEntries(adcs, n) ==
    LET wrong == {i \in DOMAIN adcs : Faulty("supply", adcs[i]) \/ Faulty("dead", adcs[i])}
    IN 2 * n * Cardinality({p \in wrong \X DOMAIN adcs : p[2] \in Positions(adcs, adcs[p[1]])})

Tolerated(fail, n, pins) == 100 * fail < 2 * n * pins

LvmbRespond(lvmb) ==
    /\ board' = SwitchedOffAndOn
    /\ UNCHANGED is_xdcfeb
    /\ IF NotConnected(lvmb) \/ FailsOnOff(lvmb)
       THEN Done("NOT PASSED", 1, FALSE)
       ELSE LET read == Read(lvmb.adcs, N)
            IN \E noise \in {0} \cup Accidents(IF read = 0 THEN {} ELSE 1..MaxNoise) :
                 LET fail == IF read = 0 THEN 0
                             ELSE WrongEntries(lvmb.adcs, N)
                                  + noise * Cardinality(Positions(lvmb.adcs, lvmb.adcs[1]))
                 IN Done(Verdict(Tolerated(fail, N, Len(lvmb.adcs))),
                         2 * Len(lvmb.pon) + read, noise > 0)

LVMBtest_respond == Perform("LVMBtest") /\ LvmbRespond(LVMB)
LVMB5test_respond == Perform("LVMB5test") /\ LvmbRespond(LVMB5)

(***************************************************************************)
(* LVMB904 switches the DCFEBs off, looks for any that still answers, and  *)
(* returns if one does; only then are they switched on again. A DCFEB has  *)
(* answered if the upper half of its UserCode is DCFE; with xDCFEBs, if it *)
(* is not.                                                                 *)
(***************************************************************************)
Connected904(chain) ==
    {d \in Dcfebs :
        LET dcfe == Present(d, FALSE) /\ chain.at = "idle" /\ chain.out = "high half"
        IN IF is_xdcfeb THEN ~dcfe ELSE dcfe}

LVMB904_respond ==
    LET chain == Scan(kind, board.jtag, ReadUserCode(is_xdcfeb))
        adcs == <<0, 1, 2, 3, 4, 5, 6>>
        off == [board EXCEPT !.power = FALSE, !.l1a = [d \in Dcfebs |-> 0], !.jtag = chain]
        read == Read(adcs, N) \div 2
    IN /\ Perform("LVMB904")
       /\ UNCHANGED is_xdcfeb
       /\ \/ /\ Connected904(chain) # {}
             /\ board' = off
             /\ Done("NOT PASSED", 1, FALSE)
          \/ /\ Connected904(chain) = {}
             /\ board' = [off EXCEPT !.power = TRUE]
             /\ Done(Verdict(read = 0 \/ WrongEntries(adcs, N) = 0),
                     Cardinality(Dcfebs) + read, FALSE)

(***************************************************************************)
(* VoltageCurrentTest reads every channel once and remembers any that is   *)
(* outside its range; the currents and the temperature are only shown.     *)
(***************************************************************************)
VoltageCurrentTest_respond ==
    /\ Perform("VoltageCurrentTest")
    /\ UNCHANGED <<board, is_xdcfeb>>
    /\ Done(Verdict(\A adc \in 1..5 : ~Faulty("voltage", adc)), 5 * 8, FALSE)

\* SYSMON, LVMBcheck, BurnInODMBs, the vitals: readings that are shown.
Shows == {"SYSMON", "LVMBcheck", "ReadODMBVitals"}

Show ==
    /\ todo # <<>> /\ Head(todo).test \in Shows
    /\ UNCHANGED <<board, is_xdcfeb>>
    /\ Done("silent", 0, FALSE)

\* LVMBtest_dos shows a tenth of its progress: below 10 repetitions the tenth
\* is 0, and the division by it ends the server.
Dies == Perform("LVMBtest_dos") /\ N \in 1..9

LVMBtest_dos_respond ==
    /\ Perform("LVMBtest_dos") /\ ~Dies
    /\ UNCHANGED <<board, is_xdcfeb>>
    /\ Done("silent", 0, FALSE)
=============================================================================
