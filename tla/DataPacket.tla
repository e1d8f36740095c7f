------------------------------ MODULE DataPacket ------------------------------
(***************************************************************************)
(* Packet::DataPacket of utils/: where the parts of an event are, found by *)
(* the markers in its words, whether its numbers agree, and what is shown  *)
(* of it. A packet is a sequence of 16-bit words; an index counts from 0,  *)
(* as in the code, and a part is the words from start up to, but without,  *)
(* end. The object keeps what it has worked out until it gets new data.    *)
(* Left out: colours, layout, and the values of what is unpacked and of    *)
(* the CRC, but not that their loops may run out of the packet.            *)
(***************************************************************************)
EXTENDS Integers, FiniteSets, SequencesExt

CONSTANTS SampleWords,  \* words of one time sample of a DCFEB: 100
          Samples,      \* time samples of a DCFEB: 8
          IndexMod      \* an index is an unsigned int: 2^32

ASSUME DataPacketAssumption ==
    /\ SampleWords \in Nat /\ SampleWords >= 4
    /\ Samples \in Nat \ {0}
    /\ IndexMod \in Nat \ {0}

At(p, i) == p[i + 1]
Low(w, bits) == w % 2^bits
Bit(w, b) == (w \div 2^b) % 2 = 1

\* The words from..to of p begin with the hexadecimal digit c.
InRange(p, from, to, c) == \A i \in from..to : At(p, i) \div 4096 = c

Span(start, end) == [start |-> start, end |-> end]
Length(span) == span.end - span.start

(***************************************************************************)
(* The markers. The DDU's trailer is the last that looks like one; the     *)
(* trailer of an ODMB is looked for from the end of its header on, as is   *)
(* the header of the next one. If the last has none, it is empty.          *)
(***************************************************************************)
FindDDUHeader(p) ==
    LET marks == {i \in 0..Len(p) - 12 :
                    At(p, i + 5) = \h8000 /\ At(p, i + 6) = 1 /\ At(p, i + 7) = \h8000}
    IN IF marks = {} THEN Span(0, 0) ELSE Span(Min(marks), Min(marks) + 12)

FindDDUTrailer(p) ==
    LET marks == {i \in 0..Len(p) - 12 :
                    /\ At(p, i) = \h8000 /\ At(p, i + 1) = \h8000
                    /\ At(p, i + 2) = \hFFFF /\ At(p, i + 3) = \h8000}
    IN IF marks = {} THEN Span(Len(p), Len(p)) ELSE Span(Max(marks), Max(marks) + 12)

ODMBHeaders(p, low, high) ==
    {i \in low..high - 8 : InRange(p, i, i + 3, 9) /\ InRange(p, i + 4, i + 6, 10)}
ODMBTrailers(p, low, high) ==
    {i \in low..high - 8 : InRange(p, i, i + 3, 15) /\ InRange(p, i + 4, i + 6, 14)}

FindAllODMBHeadersAndTrailers(p) ==
    LET high == FindDDUTrailer(p).start
        after[low \in 0..Len(p)] ==
            LET headers == ODMBHeaders(p, low, high)
                end == Min(headers) + 8
                trailers == ODMBTrailers(p, end, high)
            IN CASE headers = {} -> <<>>
                 [] headers # {} /\ trailers = {} ->
                      <<[header |-> Span(end - 8, end), trailer |-> Span(high, high)]>>
                 [] OTHER ->
                      <<[header |-> Span(end - 8, end),
                         trailer |-> Span(Min(trailers), Min(trailers) + 8)]>> \o after[end]
    IN after[FindDDUHeader(p).end]

(***************************************************************************)
(* ALCT and OTMB: each begins and ends with a run of D words; the last run *)
(* of the ALCT and the first of the OTMB may be one. Dummy data is a run   *)
(* of D words and one of B words.                                          *)
(***************************************************************************)
FindRunInRange(p, left, right, c) ==
    LET starts == {i \in left..right - 3 : InRange(p, i, i + 2, c)}
        ends == {i \in Min(starts) + 3..right - 1 : At(p, i) \div 4096 # c}
    IN CASE starts = {} -> Span(left, left)
         [] starts # {} /\ ends = {} -> Span(Min(starts), right)
         [] OTHER -> Span(Min(starts), Min(ends))

SplitALCTandOTMB(p, run) ==
    LET marks(w) == {i \in run.start..run.end - 1 : At(p, i) = w}
    IN CASE marks(\hDB0C) # {} -> Min(marks(\hDB0C))
         [] marks(\hDB0C) = {} /\ marks(\hDB0A) # {} -> Min(marks(\hDB0A))
         [] OTHER -> run.start + (Length(run) + 1) \div 2

FindALCTandOTMBData(p, low, high) ==
    LET run1 == FindRunInRange(p, low, high, 13)
        run2 == FindRunInRange(p, run1.end, high, 13)
        run3 == FindRunInRange(p, run2.end, high, 13)
        dummy == FindRunInRange(p, run1.end, high, 11)
        split == SplitALCTandOTMB(p, run2)
    IN CASE Length(run3) > 0 ->
              [alct |-> Span(run1.start, split), otmb |-> Span(split, run3.end)]
         [] Length(run3) = 0 /\ Length(run2) > 0 ->
              [alct |-> Span(run1.start, run2.end), otmb |-> Span(run2.end, run2.end)]
         [] OTHER ->
              [alct |-> run1,
               otmb |-> IF Length(dummy) > 0 THEN dummy ELSE Span(run1.end, run1.end)]

(***************************************************************************)
(* The DCFEBs: a time sample ends with two 7 words and 7FFF (or what gives *)
(* 7FFF with the word before them), the next cannot end sooner than after  *)
(* SampleWords, and a DCFEB begins as many before the end of its first.    *)
(***************************************************************************)
IsSampleEnd(p, i) ==
    LET w == At(p, i)
        v == At(p, i - 3)
    IN /\ InRange(p, i - 2, i - 1, 7)
       /\ w = \h7FFF \/ (Low(v, 15) + Low(w, 15) = \h7FFF /\ Bit(v, 15) = Bit(w, 15))

SampleEnds(p, low, high) ==
    LET after[i \in Nat] ==
            LET ends == {k \in i..high - 1 : IsSampleEnd(p, k)}
            IN IF ends = {} THEN <<>> ELSE <<Min(ends) + 1>> \o after[Min(ends) + SampleWords]
    IN after[low + 3]

FindDCFEBData(p, low, high) ==
    LET ends == SampleEnds(p, low, high)
    IN [dcfebs |-> [k \in 1..Len(ends) \div Samples |->
                      Span((ends[Samples * (k - 1) + 1] - SampleWords) % IndexMod,
                           ends[Samples * k])],
        l1as |-> {Low(At(p, ends[k] - 2) \div 64, 6) : k \in DOMAIN ends}]

Parse(p) ==
    LET found == FindAllODMBHeadersAndTrailers(p)
        trigger(i) == FindALCTandOTMBData(p, found[i].header.end, found[i].trailer.start)
        dcfebs(i) == FindDCFEBData(p, trigger(i).otmb.end, found[i].trailer.start)
    IN [ddu_header |-> FindDDUHeader(p), ddu_trailer |-> FindDDUTrailer(p),
        odmbs |-> [i \in DOMAIN found |-> found[i] @@ trigger(i) @@ dcfebs(i)]]

\* Unpack ends the program: it goes through the words of each whole DCFEB of
\* an ODMB, up to one that has not as many, and one may begin before the packet.
UnpackRunsOut(p, found) ==
    \E i \in DOMAIN found.odmbs :
      LET dcfebs == found.odmbs[i].dcfebs
      IN \E k \in DOMAIN dcfebs :
           /\ \A j \in 1..k : Length(dcfebs[j]) % IndexMod = Samples * SampleWords
           /\ At(p, dcfebs[k].end - 1) = \h7FFF
           /\ dcfebs[k].start > dcfebs[k].end

(***************************************************************************)
(* The parts in the order in which they are compared and shown, each with  *)
(* the bit of the print mask that it depends on. The number of a DCFEB is  *)
(* the next one of those that the header says are there, or that of "?".   *)
(***************************************************************************)
\* Mutant: bit 0 of the header is taken for a DCFEB 0.
GetValidDCFEBsFrom0(p, odmb) ==
    SelectSeq(<<0, 1, 2, 3, 4, 5, 6>>, LAMBDA d: Bit(At(p, odmb.header.start + 2), d))

GetValidDCFEBs(p, odmb) ==
    SelectSeq(<<1, 2, 3, 4, 5, 6, 7>>, LAMBDA d: Bit(At(p, odmb.header.start + 2), d - 1))

Part(shown, number, span) == [shown |-> shown, number |-> number] @@ span

PartsOfODMB(p, odmb) ==
    LET valid == GetValidDCFEBs(p, odmb)
        number(k) == IF k \in DOMAIN valid THEN valid[k] ELSE 63
    IN <<Part("ODMB", 0, odmb.header), Part("ALCT+OTMB", 0, odmb.alct),
         Part("ALCT+OTMB", 0, odmb.otmb)>>
       \o [k \in DOMAIN odmb.dcfebs |-> Part("DCFEB", number(k), odmb.dcfebs[k])]
       \o <<Part("ODMB", 0, odmb.trailer)>>

Parts(p, found) ==
    <<Part("DDU", 0, found.ddu_header)>>
    \o FlattenSeq([i \in DOMAIN found.odmbs |-> PartsOfODMB(p, found.odmbs[i])])
    \o <<Part("DDU", 0, found.ddu_trailer)>>

\* Where the parts leave a gap or overlap: the ends of the packet count.
Neighbours(p, found) ==
    LET parts == Parts(p, found)
        ends == <<0>> \o [i \in DOMAIN parts |-> parts[i].end]
        starts == [i \in DOMAIN parts |-> parts[i].start] \o <<Len(p)>>
    IN [i \in DOMAIN ends |-> Span(ends[i], starts[i])]

HasUncategorizedWords(p, found) ==
    \E i \in DOMAIN Neighbours(p, found) :
        LET gap == Neighbours(p, found)[i] IN gap.start # gap.end

HasEmptyODMB(found) ==
    \E i \in DOMAIN found.odmbs :
        LET odmb == found.odmbs[i]
        IN Length(odmb.alct) = 0 /\ Length(odmb.otmb) = 0 /\ odmb.dcfebs = <<>>

Uncategorized(gap) == Part("uncategorized", 0, gap)

\* What is printed, of the parts in the mask.
Printed(p, found, mask) ==
    LET parts == Parts(p, found)
        gaps == Neighbours(p, found)
        both == FlattenSeq([i \in DOMAIN parts |-> <<Uncategorized(gaps[i]), parts[i]>>])
                \o <<Uncategorized(gaps[Len(gaps)])>>
    IN SelectSeq(both, LAMBDA part: /\ part.shown \in mask
                                    /\ part.start < part.end /\ part.end <= Len(p))

\* To print the DDU's parts ends the program after a packet of less than 16
\* words, of which all has been shown by then: the CRC is that of the words up
\* to the 16th last, and their number is unsigned.
PrintCRCRunsOut(p, mask) == "DDU" \in mask /\ Len(p) < 16

(***************************************************************************)
(* The numbers of the trigger (L1A) and of the crossing (BXN), as pairs of *)
(* the kind of board, in the order of ComponentType, and the number. All   *)
(* must agree with the least number of the first kind that is there.       *)
(***************************************************************************)
kDDU == 0
kODMB == 1
kALCT == 2
kOTMB == 3
kDCFEB == 4

\* The number w of a part, if the part is long enough to have it.
Number(kind, w, has) == IF has THEN {<<kind, w>>} ELSE {}

GetL1As(p, found) ==
    LET h == found.ddu_header.start
        of(odmb) ==
            LET o == odmb.header.start
            IN Number(kODMB, Low(At(p, o + 1), 12) * 2^12 + Low(At(p, o), 12), TRUE)
               \cup Number(kALCT, Low(At(p, odmb.alct.start + 2), 12), Length(odmb.alct) >= 3)
               \cup Number(kOTMB, Low(At(p, odmb.otmb.start + 2), 12), Length(odmb.otmb) >= 3)
               \cup {<<kDCFEB, n>> : n \in odmb.l1as}
    IN Number(kDDU, Low(At(p, h + 3), 8) * 2^16 + At(p, h + 2), Length(found.ddu_header) > 0)
       \cup UNION {of(found.odmbs[i]) : i \in DOMAIN found.odmbs}

GetBXNs(p, found) ==
    LET h == found.ddu_header.start
        of(odmb) ==
            Number(kODMB, Low(At(p, odmb.header.start + 3), 12), TRUE)
            \cup Number(kALCT, Low(At(p, odmb.alct.start + 1), 12), Length(odmb.alct) >= 2)
            \cup Number(kOTMB, Low(At(p, odmb.otmb.start + 1), 12), Length(odmb.otmb) >= 2)
    IN Number(kDDU, At(p, h + 1) \div 16, Length(found.ddu_header) > 0)
       \cup UNION {of(found.odmbs[i]) : i \in DOMAIN found.odmbs}

\* The kinds that disagree, those of the DDU under the ODMB's. A number has
\* as many bits as its kind has in width.
Mismatches(numbers, width) ==
    LET first == Min({x[1] : x \in numbers})
        to_match == Min({x[2] : x \in {y \in numbers : y[1] = first}})
    IN {Max({kODMB, x[1]}) : x \in {y \in numbers : y[2] # Low(to_match, width[y[1]])}}

L1AWidth == [kind \in kDDU..kDCFEB |-> <<24, 24, 12, 12, 6>>[kind + 1]]
BXNWidth == [kind \in kDDU..kDCFEB |-> 12]

\* The two halves of the status in the DDU's trailer.
GetDDUStatus(p, found) ==
    IF Length(found.ddu_trailer) = 0 THEN <<0, 0>>
    ELSE <<At(p, found.ddu_trailer.start + 7), At(p, found.ddu_trailer.start + 6)>>

GetDMBType(p, found) ==
    [i \in DOMAIN found.odmbs |-> Bit(At(p, found.odmbs[i].header.start + 2), 9)]

(***************************************************************************)
(* The object: its data, and what it has worked out about them so far.     *)
(***************************************************************************)
NewDataPacket ==
    [full_packet |-> <<>>, parsed |-> FALSE, found |-> Parse(<<>>),
     checked_l1as |-> FALSE, l1as |-> {}, checked_bxns |-> FALSE, bxns |-> {}]

\* Mutant: the verdict on the numbers is kept.
SetDataKeepsChecks(o, p) == [o EXCEPT !.full_packet = p, !.parsed = FALSE]

SetData(o, p) ==
    [o EXCEPT !.full_packet = p, !.parsed = FALSE, !.checked_l1as = FALSE, !.checked_bxns = FALSE]

Parsed(o) == IF o.parsed THEN o ELSE [o EXCEPT !.parsed = TRUE, !.found = Parse(o.full_packet)]

CheckedL1As(o) ==
    IF o.checked_l1as THEN o
    ELSE LET l1as == GetL1As(o.full_packet, o.found)
         IN [o EXCEPT !.checked_l1as = TRUE,
                      !.l1as = IF l1as = {} THEN {} ELSE Mismatches(l1as, L1AWidth)]

CheckedBXNs(o) ==
    IF o.checked_bxns THEN o
    ELSE LET bxns == GetBXNs(o.full_packet, o.found)
         IN [o EXCEPT !.checked_bxns = TRUE,
                      !.bxns = IF bxns = {} THEN {} ELSE Mismatches(bxns, BXNWidth)]

\* After GetPacketType has been called, and its answer.
Checked(o) == CheckedL1As(CheckedBXNs(Parsed(o)))

GetPacketType(o) ==
    [uncategorized |-> HasUncategorizedWords(o.full_packet, o.found),
     empty |-> HasEmptyODMB(o.found), bxn |-> o.bxns, l1a |-> o.l1as,
     status |-> GetDDUStatus(o.full_packet, o.found)]
=============================================================================
