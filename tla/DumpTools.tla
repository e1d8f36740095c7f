------------------------------ MODULE DumpTools ------------------------------
(***************************************************************************)
(* The two programs of utils/: add_ddu_hdr, which makes a file of the PC   *)
(* channel look like one of a DDU, and parseddu, which reads either. Words *)
(* may have been lost in an event before it was written.                   *)
(***************************************************************************)
EXTENDS RawFile

CONSTANTS
    PCFiles,  \* sequences of events, as an ODMB has written them,
    DDUFiles, \* and a DDU
    Numbers,  \* what may be given with -s and -e
    Modes,    \* of parseddu: "print", "analysis", "count"
    Masks,    \* what -p may choose
    MaxWords, \* add_ddu_hdr leaves out longer packets: 10000
    NoEntry   \* the last entry if none is asked for: the largest unsigned int

ASSUME DumpToolsAssumption ==
    Numbers \subseteq Nat /\ MaxWords \in Nat /\ NoEntry \in Nat /\ NoEntry > 0

\* The bits of the print mask.
AllParts == {"uncategorized", "DCFEB", "ALCT+OTMB", "ODMB", "DDU"}

VARIABLES
    events,       \* ghost: the events of the file, each with its words, the parts
                  \* it was made of, whether it still is whole, whether at least its
                  \* trailer is (closed), the kinds of board in it, and the kinds
                  \* whose numbers were not those of the first (l1a, bxn)
    added,        \* whether add_ddu_hdr has run
    mode, start_entry, end_entry, mask,  \* the options of parseddu
    phase,        \* "adding", "skipping", "reading", "done" or "aborted"
    file, pos,    \* the file that is read
    packet, entry,
    out,          \* the file that is written
    data_packet,
    report,       \* what is recorded of each entry, or printed
    total         \* the count at the end

options == <<events, added, mode, start_entry, end_entry, mask>>
vars == <<options, phase, file, pos, packet, entry, out, data_packet, report, total>>

Words(es) == FlattenSeq([i \in DOMAIN es |-> es[i].words])

\* The options -s and -e: both, one or none, in any order.
FirstAndLast(s, e) ==
    IF s = 0 /\ e = 0 THEN <<1, NoEntry>>
    ELSE LET given == {s, e} \ {0} IN <<Min(given), Max(given)>>

Init ==
    /\ \/ events \in PCFiles /\ added \in BOOLEAN
       \/ events \in DDUFiles /\ added = FALSE
    /\ mode \in Modes
    /\ mask \in IF mode = "print" THEN Masks ELSE {AllParts}
    /\ \E s, e \in Numbers :
          /\ start_entry = FirstAndLast(s, e)[1]
          /\ end_entry = FirstAndLast(s, e)[2]
    /\ phase = IF added THEN "adding" ELSE "skipping"
    /\ file = Words(events) /\ pos = 0
    /\ packet = <<>> /\ entry = 1
    /\ out = <<>>
    /\ data_packet = NewDataPacket
    /\ report = <<>> /\ total = 0

(***************************************************************************)
(* add_ddu_hdr. The buffer has MaxWords, header and trailer included: with *)
(* a packet that just does not fit, what is behind it is overwritten, and  *)
(* the program may end for it, or not.                                     *)
(***************************************************************************)
AddHeader ==
    /\ phase = "adding"
    /\ LET found == FindStartOfPacket("add_ddu_hdr", file, pos)
           whole == GetRestOfPacket("add_ddu_hdr", file, found.pos, found.packet)
       IN /\ found.how = "found"
          /\ packet' = whole.packet /\ pos' = whole.pos
          /\ \/ /\ whole.how # "aborted"
                /\ out' = IF Len(packet') >= MaxWords THEN out ELSE out \o AddDDUHeader(packet')
                /\ UNCHANGED phase
             \/ /\ \/ whole.how = "aborted"
                   \/ Len(packet') < MaxWords /\ Len(packet') + 24 > MaxWords
                /\ phase' = "aborted"
                /\ UNCHANGED out
    /\ UNCHANGED <<options, file, entry, data_packet, report, total>>

\* Its end; parseddu is given the file it has written.
CloseOutput ==
    /\ phase = "adding"
    /\ FindStartOfPacket("add_ddu_hdr", file, pos).how = "none"
    /\ phase' = "skipping"
    /\ file' = out /\ pos' = 0 /\ packet' = <<>>
    /\ UNCHANGED <<options, entry, out, data_packet, report, total>>

(***************************************************************************)
(* parseddu.                                                               *)
(***************************************************************************)
Skip ==
    /\ phase = "skipping"
    /\ LET next == FindStartOfNextPacket("parseddu", file, pos, packet)
       IN \/ /\ mode = "count" \/ entry >= start_entry
             /\ phase' = "reading"
             /\ UNCHANGED <<pos, packet, entry>>
          \/ /\ mode # "count" /\ entry < start_entry
             /\ packet' = next.packet /\ pos' = next.pos
             /\ phase' = CASE next.how = "found" -> phase
                           [] next.how = "none" -> "reading"
                           [] OTHER -> "aborted"
             /\ entry' = IF next.how = "found" THEN entry + 1 ELSE entry
    /\ UNCHANGED <<options, file, out, data_packet, report, total>>

\* What becomes of a packet: a record of its type, its parts on the page, or
\* nothing but a number.
Recorded(o) ==
    CASE mode = "analysis" -> [type |-> GetPacketType(o), dmbs |-> GetDMBType(o.full_packet, o.found)]
      [] mode = "print" -> [shown |-> Printed(o.full_packet, o.found, mask)]
      [] OTHER -> [counted |-> TRUE]

InLoop == phase = "reading" /\ (mode = "count" \/ entry <= end_entry)

\* The next packet, read to its end and parsed.
NextPacket ==
    LET next == FindStartOfNextPacket("parseddu", file, pos, packet)
        whole == GetRestOfPacket("parseddu", file, next.pos, next.packet)
    IN IF next.how # "found" THEN next
       ELSE IF mode # "count" /\ UnpackRunsOut(whole.packet, Parse(whole.packet))
       THEN [whole EXCEPT !.how = "aborted"]
       ELSE whole

Take ==
    /\ InLoop
    /\ LET next == NextPacket
       IN /\ next.how = "found"
          /\ packet' = next.packet /\ pos' = next.pos
    /\ data_packet' = IF mode = "count" THEN data_packet ELSE Checked(SetData(data_packet, packet'))
    /\ report' = Append(report, [entry |-> entry, packet |-> packet'] @@ Recorded(data_packet'))
    /\ phase' = IF mode = "print" /\ PrintCRCRunsOut(packet', mask) THEN "aborted" ELSE phase
    /\ entry' = entry + 1
    /\ UNCHANGED <<options, file, out, total>>

\* The records are written after the last packet: a program that has ended
\* for a packet does not write them.
TakeBroken ==
    /\ InLoop
    /\ NextPacket.how = "aborted"
    /\ phase' = "aborted"
    /\ report' = IF mode = "print" THEN report ELSE <<>>
    /\ UNCHANGED <<options, file, pos, packet, entry, out, data_packet, total>>

\* The number of packets is a difference: if the file has fewer than those to
\* skip, it is that of unsigned ints.
Finish ==
    /\ phase = "reading"
    /\ InLoop => NextPacket.how = "none"
    /\ phase' = "done"
    /\ total' = IF mode = "analysis" THEN (entry - start_entry) % IndexMod ELSE Len(report)
    /\ UNCHANGED <<options, file, pos, packet, entry, out, data_packet, report>>

Next == AddHeader \/ CloseOutput \/ Skip \/ Take \/ TakeBroken \/ Finish

Spec == Init /\ [][Next]_vars

(***************************************************************************)
(* What was written, and what is expected of it.                           *)
(***************************************************************************)
Expected(e) == IF added THEN AddDDUHeader(e.words) ELSE e.words

\* An event with all its words, after one that has its end, that is not too
\* long for the buffer of add_ddu_hdr.
Undamaged(i) ==
    /\ events[i].whole
    /\ i > 1 => events[i - 1].closed
    /\ added => Len(events[i].words) < MaxWords

Packets == [i \in DOMAIN report |-> report[i].packet]
Entries == [i \in DOMAIN report |-> report[i].entry]

(***************************************************************************)
(* parseddu finds the events that were written, in order, each under its   *)
(* number and with its own words, whether or not add_ddu_hdr has put       *)
(* headers around them, and does not end before it, unless add_ddu_hdr's   *)
(* buffer overran. Lost words do not spread: if it gets to the end of the  *)
(* file, at most the event after a damaged one is lost with it.            *)
(***************************************************************************)
FoundAsWritten ==
    LET undamaged == \A i \in DOMAIN events : Undamaged(i)
        overrun == added /\ \E i \in DOMAIN events : Len(events[i].words) + 24 > MaxWords
    IN /\ undamaged /\ phase = "aborted" => overrun
       /\ phase = "done" =>
            /\ undamaged =>
                 LET first == IF mode = "count" THEN 1 ELSE start_entry
                     last == IF mode = "count" THEN Len(events) ELSE Min({end_entry, Len(events)})
                 IN Packets = [i \in 1..Max({0, last + 1 - first}) |-> Expected(events[first + i - 1])]
            /\ mode # "count" => Entries = [i \in DOMAIN report |-> start_entry + i - 1]
            /\ mode = "count" \/ (start_entry = 1 /\ end_entry = NoEntry) =>
                 LET expected == SelectSeq([i \in DOMAIN events |-> i], Undamaged)
                 IN \E at \in [DOMAIN expected -> DOMAIN report] :
                      /\ \A i \in DOMAIN expected : Packets[at[i]] = Expected(events[expected[i]])
                      /\ \A i, j \in DOMAIN expected : i < j => at[i] < at[j]

\* Every word of the packet is in exactly one of its parts.
Tiled(p) ==
    LET parts == Parts(p, Parse(p))
    IN \A w \in 0..Len(p) - 1 :
         Cardinality({i \in DOMAIN parts : parts[i].start <= w /\ w < parts[i].end}) = 1

\* An OTMB without an ALCT is taken for one.
OTMBAlone(e) == kOTMB \in e.kinds /\ kALCT \notin e.kinds

(***************************************************************************)
(* What parseddu -a reports of a packet is true of this one, whatever came *)
(* before it: it has uncategorized words exactly if a word is in no part,  *)
(* or in two; an event without damage has none, and its numbers mismatch   *)
(* for the kinds of board whose numbers did. The total is that of the      *)
(* records, unless the file has fewer packets than are skipped.            *)
(***************************************************************************)
ReportIsTrue ==
    mode = "analysis" =>
        /\ \A i \in DOMAIN report :
             /\ report[i].type.uncategorized = ~ Tiled(report[i].packet)
             /\ \A k \in DOMAIN events :
                  Undamaged(k) /\ report[i].packet = Expected(events[k]) =>
                    /\ ~ report[i].type.uncategorized
                    /\ report[i].type.bxn = {} <=> events[k].bxn = {}
                    /\ report[i].type.l1a = {} <=> events[k].l1a = {}
                    /\ OTMBAlone(events[k]) \/ (/\ report[i].type.l1a = events[k].l1a
                                                /\ report[i].type.bxn = events[k].bxn)
        /\ phase = "done" /\ entry >= start_entry => total = Len(report)

(***************************************************************************)
(* What is said of -a: "The diagnostic report produces a 34 bit error-code *)
(* for each event". At its end, each event that has come undamaged, after  *)
(* one that at least has its end, has a record, whatever else is there.    *)
(***************************************************************************)
EachEventHasCode ==
    mode = "analysis" /\ start_entry = 1 /\ end_entry = NoEntry /\ phase \in {"done", "aborted"} =>
        \A i \in DOMAIN events :
            Undamaged(i) => \E k \in DOMAIN report : report[k].packet = Expected(events[i])

\* The parts of an event with their places, and those around it.
Placed(parts) ==
    [i \in DOMAIN parts |->
       LET start == Len(Words(SubSeq(parts, 1, i - 1)))
       IN Part(parts[i].shown, parts[i].number, Span(start, start + Len(parts[i].words)))]

Around(words) == [shown |-> "DDU", number |-> 0, words |-> words]

ExpectedParts(e) ==
    Placed(IF added
           THEN <<Around(DDUHeader(e.words))>> \o e.parts \o <<Around(DDUTrailer(e.words))>>
           ELSE e.parts)

\* A DCFEB whose first sample is so short, and so near to the beginning, that
\* the DCFEB begins before the packet does.
BeginsBefore(p) ==
    LET parts == Parts(p, Parse(p)) IN \E i \in DOMAIN parts : parts[i].start > parts[i].end

(***************************************************************************)
(* An event without damage is printed part by part, as it was put          *)
(* together, with the numbers of its DCFEBs. With damage, every word is    *)
(* still shown somewhere, but for the DCFEBs and what is before them if    *)
(* the first begins before the packet.                                     *)
(***************************************************************************)
PrintShowsAll ==
    mode = "print" =>
        \A i \in DOMAIN report :
            LET r == report[i]
            IN /\ \A k \in DOMAIN events :
                    Undamaged(k) /\ r.packet = Expected(events[k]) =>
                      r.shown = SelectSeq(ExpectedParts(events[k]), LAMBDA part: part.shown \in mask)
               /\ mask = AllParts /\ ~ BeginsBefore(r.packet) =>
                    \A w \in 0..Len(r.packet) - 1 :
                      \E k \in DOMAIN r.shown : r.shown[k].start <= w /\ w < r.shown[k].end
=============================================================================
