----------------------------- MODULE MCDumpTools -----------------------------
(***************************************************************************)
(* Events of two samples of 28 words per DCFEB: a sample that has lost its *)
(* data still ends before 28 words after the DDU's header.                 *)
(***************************************************************************)
EXTENDS DumpTools

Same(c, n) == [i \in 1..n |-> c * 4096]
PartOf(shown, number, words) == [shown |-> shown, number |-> number, words |-> words]

\* n: the number of the trigger, b: of the crossing, d: the DCFEBs' bits.
Header(n, b, d) ==
    PartOf("ODMB", 0, <<\h9000 + Low(n, 12), \h9000 + (n \div 4096), \h9200 + d, \h9000 + b>> \o Same(10, 4))
Trailer == PartOf("ODMB", 0, Same(15, 4) \o Same(14, 4))
ALCT(n, b) ==
    PartOf("ALCT+OTMB", 0, <<\hDB0A, \hD000 + b, \hD000 + Low(n, 12), \hD000, 5, 6,
                             \hDE0D, \hD001, \hD002, \hD003>>)
OTMB(n, b) ==
    PartOf("ALCT+OTMB", 0, <<\hDB0C, \hD000 + b, \hD000 + Low(n, 12), \hD000, 7, 8, 9,
                             \hDE0F, \hD001, \hD002, \hD003>>)
Dummy(n, b) ==
    << PartOf("ALCT+OTMB", 0, <<\hD000, \hD000 + b, \hD000 + Low(n, 12), \hD000>>),
       PartOf("ALCT+OTMB", 0, <<\hB000, \hB000 + b, \hB000 + Low(n, 12), \hB000>>) >>
Sample(n, last) == Same(0, 24) \o <<\h7FFF - last, \h7001, \h7000 + Low(n, 6) * 64, last>>
DCFEB(number, n) == PartOf("DCFEB", number, Sample(n, \h7FFF) \o Sample(n, \h7FFF))
CFEB(number, n) == PartOf("DCFEB", number, Sample(n, \h7123) \o Sample(n, \h7123))

DDU(n, b, odmbs) ==
    <<PartOf("DDU", 0, <<\h5000, b * 16, Low(n, 16), \h5000 + (n \div 65536), 0, \h8000, 1, \h8000,
                         0, 0, 0, 0>>)>>
    \o odmbs
    \o <<PartOf("DDU", 0, <<\h8000, \h8000, \hFFFF, \h8000, 0, 0, 0, 64, 0, 0, 0, \hA000>>)>>

Event(parts, kinds, l1a, bxn) ==
    [parts |-> parts, words |-> Words(parts), whole |-> TRUE, closed |-> TRUE,
     kinds |-> kinds, l1a |-> l1a, bxn |-> bxn]

\* The event without the words from..to.
Without(e, from, to, closed) ==
    [e EXCEPT !.words = SubSeq(@, 1, from - 1) \o SubSeq(@, to + 1, Len(@)),
              !.whole = FALSE, !.closed = closed]

\* Event k of the PC channel, with the given data.
PC(k, d, data, kinds, l1a, bxn) ==
    Event(<<Header(70000 + k, 100 + k, d)>> \o data \o <<Trailer>>, kinds, l1a, bxn)

A(k) == ALCT(70000 + k, 100 + k)
O(k) == OTMB(70000 + k, 100 + k)
C(k, number) == DCFEB(number, 70000 + k)

Empty(k) == PC(k, 0, <<>>, {}, {}, {})
Small(k) == PC(k, 0, <<A(k), O(k)>>, {kALCT, kOTMB}, {}, {})
Full(k) == PC(k, 4, <<A(k), O(k), C(k, 3)>>, {kALCT, kOTMB, kDCFEB}, {}, {})
Board(k) == PC(k, 4, <<C(k, 3)>>, {kDCFEB}, {}, {})

WholeEvents(k) ==
    {Empty(k), Small(k), Full(k), Board(k),
     PC(k, 0, <<A(k)>>, {kALCT}, {}, {}),
     PC(k, 0, <<O(k)>>, {kOTMB}, {}, {}),
     PC(k, 0, Dummy(70000 + k, 100 + k), {kALCT, kOTMB}, {}, {}),
     PC(k, 34, <<O(k), C(k, 2), CFEB(6, 70000 + k)>>, {kOTMB, kDCFEB}, {}, {}),
     PC(k, 0, <<ALCT(70009, 100 + k), O(k)>>, {kALCT, kOTMB}, {kALCT}, {}),
     PC(k, 4, <<A(k), O(k), C(9, 3)>>, {kALCT, kOTMB, kDCFEB}, {kDCFEB}, {}),
     PC(k, 0, <<A(k), OTMB(70000 + k, 99)>>, {kALCT, kOTMB}, {}, {kOTMB}),
     PC(k, 0, <<OTMB(70009, 100 + k)>>, {kOTMB}, {kOTMB}, {})}

Damaged(k) ==
    {Without(PC(k, 34, <<CFEB(2, 70000 + k)>>, {kDCFEB}, {}, {}), 9, 32, TRUE),
     Without(Small(k), 1, 8, TRUE),    \* no header
     Without(Small(k), 8, 8, TRUE),    \* one word of it
     Without(Small(k), 2, 2, TRUE),
     Without(Small(k), 9, 10, TRUE),   \* a part of the ALCT
     Without(Small(k), 18, 18, TRUE),
     Without(Board(k), 9, 32, TRUE),   \* the data of the first sample
     Without(Full(k), 30, 53, TRUE),
     Without(Board(k), 40, 50, TRUE),  \* of the second
     Without(Board(k), 36, 36, TRUE),  \* the end of a sample
     Without(Board(k), 64, 64, TRUE),
     Without(Small(k), 30, 37, FALSE), \* no trailer
     Without(Small(k), 37, 37, FALSE),
     Without(Small(k), 31, 31, FALSE),
     Without(Empty(k), 8, 8, TRUE)}    \* of an event of 16 words

\* Of a DDU, with two ODMBs.
Two(k, m) ==
    Event(DDU(70000 + k, 100 + k,
              <<Header(70000 + k, 100 + k, 0), A(k), O(k), Trailer,
                Header(70000 + m, 100 + k, 1), C(k, 1), Trailer>>),
          {kALCT, kOTMB, kDCFEB}, IF k = m THEN {} ELSE {kODMB}, {})

DDUEvents(k) ==
    {Event(DDU(70000 + k, 100 + k, <<>>), {}, {}, {}), Two(k, k), Two(k, 9)}

DamagedDDU(k) ==
    LET e == Two(k, k)
        n == Len(e.words)
    IN {Without(e, 6, 6, TRUE),             \* the DDU's header
        Without(e, 42, 49, TRUE),           \* a trailer of an ODMB
        Without(e, 50, 57, TRUE),           \* a header
        Without(e, n - 19, n - 12, TRUE),   \* the last trailer
        Without(e, n - 11, n - 11, FALSE)}  \* the DDU's trailer

\* What is left of a file that was cut off.
CutOff(e, n) == Without(e, n + 1, Len(e.words), FALSE)

MCPCFiles ==
    {<<>>} \cup {<<e>> : e \in WholeEvents(1)}
    \cup {<<d, e, f>> : d \in Damaged(1), e \in {Small(2)}, f \in {Board(3)}}
    \cup {<<e, d, f>> : e \in {Full(1)}, d \in {CutOff(Small(2), 12)} \cup WholeEvents(2), f \in {Small(3)}}

MCDDUFiles ==
    {<<e, f>> : e \in DDUEvents(1) \cup DamagedDDU(1), f \in {Two(2, 2), CutOff(Two(2, 2), 60)}}
    \cup {<<Two(1, 1), CutOff(Two(2, 2), n)>> : n \in {6, 8, 9, 12, 15}}
    \cup {<<d, Two(2, 2), Two(3, 3)>> : d \in DamagedDDU(1)}

MCMasks == {AllParts, {"DCFEB"}}
=============================================================================
