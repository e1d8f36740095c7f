------------------------------- MODULE RawFile -------------------------------
(***************************************************************************)
(* How parseddu and add_ddu_hdr find the packets in a file of words: by a  *)
(* window of eight words that slides over it, and from there on up to a    *)
(* trailer. Each program has a copy of its own, with other markers for the *)
(* packets of a PC (ODMB) channel; those of a DDU are the same.            *)
(***************************************************************************)
EXTENDS DataPacket

\* The last eight words read, of which zeros stand for what was not read yet.
UpdateLastFewWords(file, from, pos) ==
    [k \in 1..8 |-> IF pos - 8 + k > from THEN file[pos - 8 + k] ELSE 0]

IsDDU(packet) == packet[6] = \h8000 /\ packet[7] = 1 /\ packet[8] = \h8000

BeginsPC(tool, w) ==
    /\ InRange(w, 0, 3, 9) /\ InRange(w, 4, 6, 10)
    /\ tool = "add_ddu_hdr" => InRange(w, 7, 7, 10)

\* The first n words of a packet end with a trailer.
EndsDDU(p, n) ==
    At(p, n - 12) = \h8000 /\ At(p, n - 11) = \h8000 /\ At(p, n - 10) = \hFFFF /\ At(p, n - 9) = \h8000

\* Mutant of EndsPC: the trailer is taken to end one word later.
EndsPCLater(tool, p, n) ==
    n > 8 /\ InRange(p, n - 9, n - 6, 15) /\ InRange(p, n - 5, n - 3, 14)

EndsPC(tool, p, n) ==
    /\ InRange(p, n - 8, n - 5, 15) /\ InRange(p, n - 4, n - 4, 14)
    /\ tool = "parseddu" => InRange(p, n - 3, n - 2, 14)

\* What has been read: the packet so far, where the file is, and how it went.
Got(packet, pos, how) == [packet |-> packet, pos |-> pos, how |-> how]

FindStartOfPacket(tool, file, pos) ==
    LET window(q) == UpdateLastFewWords(file, pos, q)
        starts == {q \in pos + 1..Len(file) : IsDDU(window(q)) \/ BeginsPC(tool, window(q))}
        q == Min(starts)
        more == IF IsDDU(window(q)) THEN Min({q + 12, Len(file)}) ELSE q
    IN IF starts = {} THEN Got(window(Len(file)), Len(file), "none")
       ELSE Got(window(q) \o SubSeq(file, q + 1, more), more, "found")

\* Words are added to the packet until it ends as it must, or the file does:
\* all is the packet with the rest of the file.
ReadUntil(ends, all, pos, packet) ==
    LET n == IF ends = {} THEN Len(all) ELSE Min(ends)
    IN Got(SubSeq(all, 1, n), pos + n - Len(packet), "found")

\* A file that ends within three words of the marker of a DDU's packet leaves
\* fewer than twelve: to look for the trailer in them ends the program.
GetRestOfDDUPacket(file, pos, packet) ==
    LET all == packet \o SubSeq(file, pos + 1, Len(file))
        ends == {n \in Max({12, Len(packet)})..Len(all) : EndsDDU(all, n)}
    IN IF Len(all) < 12 THEN Got(all, Len(file), "aborted")
       ELSE ReadUntil(ends, all, pos, packet)

GetRestOfPCPacket(tool, file, pos, packet) ==
    LET all == packet \o SubSeq(file, pos + 1, Len(file))
        ends == {n \in Len(packet)..Len(all) : EndsPC(tool, all, n)}
    IN ReadUntil(ends, all, pos, packet)

GetRestOfPacket(tool, file, pos, packet) ==
    IF Len(packet) < 8 THEN Got(packet, pos, "found")
    ELSE IF IsDDU(packet) THEN GetRestOfDDUPacket(file, pos, packet)
    ELSE GetRestOfPCPacket(tool, file, pos, packet)

FindStartOfNextPacket(tool, file, pos, packet) ==
    LET last == GetRestOfPacket(tool, file, pos, packet)
    IN IF last.how = "aborted" THEN last ELSE FindStartOfPacket(tool, file, last.pos)

(***************************************************************************)
(* What add_ddu_hdr puts around a packet: the numbers of its first words   *)
(* and its length. Nothing here reads the CRC, which is left at 0.         *)
(***************************************************************************)
DDUHeader(packet) ==
    LET l1a_lsb == Low(packet[1], 12)
        l1a_msb == Low(packet[2], 12)
        bxcnt == Low(packet[4], 12)
    IN <<\hF860, bxcnt * 16 + 2, Low(l1a_msb, 4) * 4096 + l1a_lsb, \h5000 + l1a_msb \div 16,
         0, \h8000, 1, \h8000, \h2FC1, 1, \h3030, 1>>

DDUTrailer(packet) ==
    <<\h8000, \h8000, \hFFFF, \h8000, 1, 5, \hC2DB, \h8040, \hC2C0, 0, 6 + Len(packet) \div 4, \hA000>>

AddDDUHeader(packet) == DDUHeader(packet) \o packet \o DDUTrailer(packet)
=============================================================================
