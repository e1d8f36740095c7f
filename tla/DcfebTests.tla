---------------------------- MODULE DcfebTests -----------------------------
(***************************************************************************)
(* The tests of the DCFEBs: DCFEBJTAGcontrol, DCFEBFiber and DCFEBPulses.  *)
(* An input may have no board, one that misses pulses, cannot be resynced, *)
(* sends bad packets or loses bits of its ADC mask.                        *)
(***************************************************************************)
EXTENDS TestBench

CONSTANTS MaskValues,    \* end - start + 1: values shifted through the mask
          PacketRange    \* values of the 16-bit packet counters of the ODMB

ASSUME DcfebAssumption == MaskValues \in Nat \ {0} /\ PacketRange \in Nat /\ PacketRange > 2

(***************************************************************************)
(* DCFEBJTAGcontrol. The chain is reset for each input, its UserCode read, *)
(* and for those that answer with DCFE every value is shifted through the  *)
(* ADC mask, repeatNumber times: what comes out must be the value before,  *)
(* which the first has none of. Errors is the formula of the verdict, in   *)
(* unsigned arithmetic, which only matters for being 0.                    *)
(***************************************************************************)
MaskScan(chain) ==
    Scan(kind, chain, JTAGShift("Select", "ADC mask", 8, is_xdcfeb)
                      \o JTAGShift("Value", "zeros", 12, is_xdcfeb))

UserCodeRead(d) ==
    /\ d \in DoneBits
    /\ Scan(kind, Reset, ReadUserCode(is_xdcfeb)).out = "high half"

\* How many reads may fail: none of a good mask, but all if the chain does
\* not give access to it.
FailedReads(d, n) ==
    CASE n > 0 /\ Faulty("mask", d) -> 1..n * (MaskValues - 1)
      [] n > 0 /\ MaskScan(Reset).out # "ADC mask" -> {n * (MaskValues - 1)}
      [] OTHER -> {0}

Errors(n, shifts, reads) == 2 * n * (MaskValues - 1) - shifts - reads

DCFEBJTAGcontrol_respond ==
    LET read == {d \in Dcfebs : UserCodeRead(d)}
        scanned == Scan(kind, Reset, ReadUserCode(is_xdcfeb))
    IN /\ Perform("DCFEBJTAGcontrol")
       /\ UNCHANGED is_xdcfeb
       /\ board' = [board EXCEPT !.jtag =
                       IF N > 0 /\ LastDcfeb \in read THEN MaskScan(scanned) ELSE scanned]
       /\ \E failed \in EachOneOf(read, LAMBDA d: FailedReads(d, N)) :
            Done(Verdict(/\ read # {}
                         /\ \A d \in read :
                              Errors(N, N * MaskValues, N * (MaskValues - 1) - failed[d]) = 0),
                 Cardinality(read) * N * (MaskValues - 1), FALSE)

(***************************************************************************)
(* DCFEBFiber, for one input after the other: all others are killed, n     *)
(* packets are asked for, and the DCFEBs are resynced. The counter of the  *)
(* ODMB has 16 bits; nCntRst counts how often it showed 0.                 *)
(***************************************************************************)
\* The packets that arrive, of those asked for.
Arrivals(d, n) ==
    CASE Faulty("no pulse", d) -> {{}}
      [] ~Faulty("no pulse", d) /\ Faulty("packets", d) /\ n > 0 -> (SUBSET (1..n)) \ {1..n}
      [] OTHER -> {1..n}

GoodCRCs(d, packets) ==
    IF Faulty("crc", d) /\ packets # {} THEN 0..Cardinality(packets) - 1
    ELSE {Cardinality(packets)}

nCntRst(packets, n) ==
    Cardinality({p \in 2..n : Cardinality(packets \cap 1..p) % PacketRange = 0})

Shown(count, packets, n) == (count % PacketRange) + nCntRst(packets, n) * PacketRange

\* The counters of the DCFEBs, input by input: what each had counted when it
\* was its turn, and what the last one showed after its resync. Of what is
\* read from them, n_l1a_match_before and n_l1a_match_after only keep the
\* last input's.
Resyncs(l1a, n) ==
    LET Turn(r, d) ==
            LET counted == Triggered(r.l1a, n)
                resynced == Resynced(counted)
            IN [l1a |-> resynced, counts |-> [r.counts EXCEPT ![d] = counted[d]],
                after |-> resynced[d]]
    IN AfterSteps(LAMBDA r, d: IF d \in DoneBits THEN Turn(r, d) ELSE r,
                  [l1a |-> l1a, counts |-> l1a, after |-> 0], LastDcfeb)

\* The packet read carries the count of its DCFEB; an empty FIFO gives any word.
L1AofPacket(packets, count) == IF packets = {} THEN Junk(CounterRange) ELSE {count}

\* The soft reset loads the configuration registers from the PROM.
SoftReset == [board EXCEPT !.cfg = board.prom]

DCFEBFiber_respond ==
    LET chain == Scan(kind, board.jtag, JTAGRead("L1A", 16, is_xdcfeb)
                                        \o JTAGRead("L1A", 16, is_xdcfeb))
        resyncs == Resyncs(board.l1a, N)
        last_input == CHOOSE d \in DoneBits : \A e \in DoneBits : e <= d
    IN /\ Perform("DCFEBFiber")
       /\ UNCHANGED is_xdcfeb
       /\ \/ /\ DoneBits = {}
             /\ board' = SoftReset
             /\ Done("NOT PASSED", 0, FALSE)
          \/ /\ DoneBits # {}
             /\ board' = [SoftReset EXCEPT !.cfg["KILL"] = "all but the last",
                                           !.l1a = resyncs.l1a, !.jtag = chain]
             /\ \E packets \in EachOneOf(DoneBits, LAMBDA d: Arrivals(d, N)) :
                \E crcs \in EachOneOf(DoneBits, LAMBDA d: GoodCRCs(d, packets[d])),
                   L1A_cnt \in EachOneOf(DoneBits,
                                 LAMBDA d: L1AofPacket(packets[d], resyncs.counts[d])),
                   before \in ReadCounter(chain, last_input, resyncs.counts[last_input], WordRange),
                   after \in ReadCounter(chain, last_input, resyncs.after, WordRange) :
                  Done(Verdict(/\ \A d \in DoneBits :
                                    /\ Shown(crcs[d], packets[d], N)
                                         = Shown(Cardinality(packets[d]), packets[d], N)
                                    /\ Shown(Cardinality(packets[d]), packets[d], N) = N
                                    /\ L1A_cnt[d] = N /\ L1A_cnt[d] = before
                               /\ after = 0),
                       N * Cardinality(DoneBits), FALSE)

(***************************************************************************)
(* DCFEBPulses sends n pulses of each kind to all inputs at once and reads *)
(* the counters: a signal fails if no input has counted it right.          *)
(***************************************************************************)
Pulsed == Triggered(Resynced(board.l1a), N)

\* The other counters start at 0 and count as L1A does.
Pulses(d) == IF Faulty("no pulse", d) THEN 0 ELSE N

DCFEBPulses_respond ==
    LET killed_none == [board EXCEPT !.cfg["KILL"] = "none"]
        chain == Scan(kind, board.jtag, JTAGRead("L1A", 12, is_xdcfeb))
        pulsed == Pulsed
    IN /\ Perform("DCFEBPulses")
       /\ UNCHANGED is_xdcfeb
       /\ \/ /\ DoneBits = {}
             /\ board' = [killed_none EXCEPT !.l1a = Resynced(board.l1a)]
             /\ Done("NOT PASSED", 0, FALSE)
          \/ /\ DoneBits # {}
             /\ board' = [killed_none EXCEPT !.l1a = pulsed, !.jtag = chain]
             /\ \E l1as \in EachOneOf(DoneBits, LAMBDA d: ReadCounter(chain, d, pulsed[d], CounterRange)),
                   others \in EachOneOf(DoneBits, LAMBDA d: ReadCounter(chain, d, Pulses(d), CounterRange)) :
                  Done(Verdict(/\ \E d \in DoneBits : l1as[d] = N
                               /\ \E d \in DoneBits : others[d] = N),
                       N * Cardinality(DoneBits), FALSE)

(***************************************************************************)
(* Buttons: reprogram the DCFEBs, and choose the kind that is assumed. The *)
(* page shows the kind that is set, so that its form always names one.     *)
(***************************************************************************)
ReprogramDCFEB_respond ==
    /\ Perform("ReprogramDCFEB")
    /\ board' = [board EXCEPT !.l1a = [d \in Dcfebs |-> 0]]
    /\ UNCHANGED is_xdcfeb
    /\ Done("silent", 0, FALSE)

\* N is the option chosen: 1 for DCFEB.
SetDCFEBMode_respond ==
    /\ Perform("SetDCFEBMode")
    /\ is_xdcfeb' = (N = 0)
    /\ UNCHANGED board
    /\ Done("silent", 0, FALSE)
=============================================================================
