------------------------------ MODULE SpyReader ------------------------------
(***************************************************************************)
(* Spy::readDDU (Spy.cc): follows the driver through the shared memory,    *)
(* one load at a time, and hands the caller one event as a pointer into    *)
(* the data area (nothing is copied) together with its length and flags.   *)
(*                                                                         *)
(* One call: reading starts at rpc = "tail" and ends at rpc = "returned";  *)
(* the caller uses the buffer in that state and calls again.               *)
(***************************************************************************)
EXTENDS EthRing

CONSTANTS
  IdleLimit    \* 50000: idle loops before a call times out

ASSUME SpyAssumption == IdleLimit \in Nat

VARIABLES
  rpc,                           \* where readDDU is
  buf_pnt, ring_pnt, ring_loop,  \* the read position
  insideEventWithMissingPackets,
  buf_pnt_kern,                  \* the tail word as loaded
  entry,                         \* the entry's word as loaded
  entryLen,                      \* the entry's length as loaded
  iloop, len, packets,           \* locals and counts of this call
  theErrorFlag,                  \* a set of Status_t names
  buf_data,                      \* where the event handed to the caller starts
  ids,                           \* ghost: the packets read by this call
  taken,                         \* ghost: the packets read by all calls
  fresh,                         \* ghost: no event was begun by an earlier call
  gap                            \* ghost: the position was given up since the last packet

position   == <<buf_pnt, ring_pnt, ring_loop>>
loaded     == <<buf_pnt_kern, entry, entryLen>>
callResult == <<len, packets, theErrorFlag, buf_data, ids>>
readerVars == <<rpc, position, insideEventWithMissingPackets, loaded, iloop, callResult,
                taken, fresh, gap>>

Status_t == {"EndOfEventMissing", "Timeout", "PacketsMissing",
             "LoopOverwrite", "BufferOverwrite", "Oversized"}

ReaderTypeOK ==
  /\ rpc \in {"tail", "word", "length", "loop", "returned", "ioctl"}
  /\ buf_pnt \in 0 .. BufEnd
  /\ ring_pnt \in Slots
  /\ ring_loop \in 0 .. LoopRange - 1
  /\ insideEventWithMissingPackets \in BOOLEAN
  /\ buf_pnt_kern \in 0 .. BufEnd
  /\ entry \in Words
  /\ entryLen \in 0 .. MaxPacket
  /\ iloop \in 0 .. IdleLimit + 1
  /\ len \in Nat
  /\ packets \in Nat
  /\ theErrorFlag \subseteq Status_t
  /\ buf_data \in 0 .. BufEnd
  /\ ids \in Seq(Nat)
  /\ taken \in Seq(Nat)
  /\ fresh \in BOOLEAN
  /\ gap \in BOOLEAN

(* Spy::open: the reader starts at the start of loop 0, with no event read. *)
ReaderInit ==
  /\ rpc = "returned"
  /\ buf_pnt = 0 /\ ring_pnt = 0 /\ ring_loop = 0
  /\ insideEventWithMissingPackets = FALSE
  /\ buf_pnt_kern = 0
  /\ entry = EntryWord(0, FALSE, FALSE, 0)
  /\ entryLen = 0
  /\ iloop = 0 /\ len = 0 /\ packets = 0
  /\ theErrorFlag = {"EndOfEventMissing"}
  /\ buf_data = 0
  /\ ids = <<>> /\ taken = <<>> /\ fresh = TRUE /\ gap = FALSE

-----------------------------------------------------------------------------
(* The caller is done with the buffer and calls readDDU.  The position is  *)
(* at the start of an event if the last call ended one.                    *)
Call ==
  /\ rpc = "returned"
  /\ rpc' = "tail"
  /\ iloop' = 0 /\ len' = 0 /\ packets' = 0
  /\ theErrorFlag' = {"EndOfEventMissing"}
  /\ ids' = <<>>
  /\ fresh' = \/ "EndOfEventMissing" \notin theErrorFlag
              \/ fresh /\ packets = 0 /\ theErrorFlag \cap {"LoopOverwrite", "BufferOverwrite"} = {}
  /\ UNCHANGED <<position, insideEventWithMissingPackets, loaded, buf_data, taken, gap>>

(* Mutant of SeesData: new data is looked for ahead of the position only.  *)
SeesDataAhead == buf_pnt < tail

(* The write position is not where the read position is.                   *)
SeesData == buf_pnt # tail

(* Load the tail word; give up if there was no data for a long time,       *)
Timeout ==
  /\ rpc = "tail"
  /\ buf_pnt_kern' = tail
  /\ iloop > IdleLimit
  /\ theErrorFlag' = theErrorFlag \cup {"Timeout"}
  /\ rpc' = "returned"
  /\ UNCHANGED <<position, insideEventWithMissingPackets, entry, entryLen, iloop, len,
                 packets, buf_data, ids, taken, fresh, gap>>

(* try again if the writer seems not to have moved,                        *)
Idle ==
  /\ rpc = "tail"
  /\ buf_pnt_kern' = tail
  /\ iloop <= IdleLimit
  /\ ~ SeesData
  /\ iloop' = iloop + 1
  /\ UNCHANGED <<rpc, position, insideEventWithMissingPackets, entry, entryLen,
                 callResult, taken, fresh, gap>>

(* or go on to the entry.                                                  *)
SeeData ==
  /\ rpc = "tail"
  /\ buf_pnt_kern' = tail
  /\ iloop <= IdleLimit
  /\ SeesData
  /\ iloop' = 0
  /\ rpc' = "word"
  /\ UNCHANGED <<position, insideEventWithMissingPackets, entry, entryLen,
                 callResult, taken, fresh, gap>>

ReadWord ==
  /\ rpc = "word"
  /\ entry' = word[ring_pnt]
  /\ rpc' = "length"
  /\ UNCHANGED <<position, insideEventWithMissingPackets, buf_pnt_kern, entryLen, iloop,
                 callResult, taken, fresh, gap>>

ReadLength ==
  /\ rpc = "length"
  /\ entryLen' = length[ring_pnt]
  /\ rpc' = "loop"
  /\ UNCHANGED <<position, insideEventWithMissingPackets, buf_pnt_kern, entry, iloop,
                 callResult, taken, fresh, gap>>

(* Mutants of Overtaken: its first case, or the positions, ignored.        *)
OvertakenTwice(ring_loop_kern2) == ring_loop_kern2 > ring_loop + 1
OvertakenByLoop(ring_loop_kern2) == ring_loop_kern2 # ring_loop

(* The driver's loop count, from the first entry of the ring, says that    *)
(* the data was overwritten.                                               *)
Overtaken(ring_loop_kern2) ==
  \/ ring_loop_kern2 = ring_loop + 1 /\ buf_pnt <= buf_pnt_kern
  \/ ring_loop_kern2 > ring_loop + 1

(* Mutant of Resync: the driver's loop count is not taken over.            *)
ResyncInOwnLoop(flag) ==
  /\ theErrorFlag' = theErrorFlag \cup {flag}
  /\ buf_pnt' = 0 /\ ring_pnt' = 0 /\ ring_loop' = ring_loop
  /\ len' = 0
  /\ insideEventWithMissingPackets' = FALSE
  /\ gap' = TRUE
  /\ rpc' = "returned"
  /\ UNCHANGED <<loaded, iloop, packets, buf_data, ids, taken, fresh>>

(* Give up the position, take the driver's, return no data.                *)
Resync(flag) ==
  /\ theErrorFlag' = theErrorFlag \cup {flag}
  /\ buf_pnt' = 0 /\ ring_pnt' = 0 /\ ring_loop' = word[0].loop
  /\ len' = 0
  /\ insideEventWithMissingPackets' = FALSE
  /\ gap' = TRUE
  /\ rpc' = "returned"
  /\ UNCHANGED <<loaded, iloop, packets, buf_data, ids, taken, fresh>>

BufferOverwrite ==
  /\ rpc = "loop"
  /\ Overtaken(word[0].loop)
  /\ Resync("BufferOverwrite")

LoopOverwrite ==
  /\ rpc = "loop"
  /\ ~ Overtaken(word[0].loop)
  /\ entry.loop # ring_loop
  /\ Resync("LoopOverwrite")

(* Mutant of LoopsBack: every packet is taken for the end of an event.     *)
LoopsBackEarly(pnt, slot) == WrapsAt(TRUE, pnt, slot)

(* As the driver does, if the entry is what the driver wrote.              *)
LoopsBack(pnt, slot) == WrapsAt(entry.eevent, pnt, slot)

(* Mutant of Defective: an event's earlier gap is forgotten.               *)
DefectiveHere == entry.missing

(* Packets of this event are missing, before this one or earlier.          *)
Defective == entry.missing \/ insideEventWithMissingPackets

(* Mutant of StaysDefective: the end of the event does not clear it.       *)
StaysDefectiveForGood == Defective

StaysDefective == Defective /\ ~ entry.eevent

(* Take the packet: move on, wrap where the driver does, keep the tallies  *)
(* and return at the end of the event.                                     *)
Consume ==
  LET pnt     == buf_pnt + entryLen
      slot    == ring_pnt + 1
      wraps   == LoopsBack(pnt, slot)
      total   == len + entryLen
      noted   == (IF total > MaxEvent  THEN {"Oversized"}      ELSE {}) \cup
                 (IF entry.missing     THEN {"PacketsMissing"} ELSE {})
      cleared == IF entry.eevent THEN {"EndOfEventMissing"} ELSE {}
  IN
  /\ rpc = "loop"
  /\ ~ Overtaken(word[0].loop)
  /\ entry.loop = ring_loop
  /\ buf_pnt'   = IF wraps THEN 0 ELSE pnt
  /\ ring_pnt'  = IF wraps THEN 0 ELSE slot
  /\ ring_loop' = IF wraps THEN (ring_loop + 1) % LoopRange ELSE ring_loop
  /\ buf_data'  = IF packets = 0 THEN buf_pnt ELSE buf_data
  /\ packets'   = packets + 1
  /\ len'       = IF Defective THEN 0 ELSE total
  /\ theErrorFlag' = (theErrorFlag \cup noted) \ cleared
  /\ insideEventWithMissingPackets' = StaysDefective
  /\ rpc'       = IF entry.eevent THEN "returned" ELSE "tail"
  /\ ids'       = Append(ids, entry.id)
  /\ taken'     = Append(taken, entry.id)
  /\ gap'       = FALSE
  /\ UNCHANGED <<loaded, iloop, fresh>>

(* Spy::reset between two calls: the ioctl, then the reader's own state.   *)
BeginReset ==
  /\ rpc = "returned"
  /\ rpc' = "ioctl"
  /\ UNCHANGED <<position, insideEventWithMissingPackets, loaded, iloop, callResult,
                 taken, fresh, gap>>

(* Mutant of EndReset: the reader stays at its ring entry.                 *)
EndResetAtEntry ==
  /\ rpc = "ioctl"
  /\ rpc' = "returned"
  /\ buf_pnt' = 0 /\ ring_pnt' = ring_pnt /\ ring_loop' = 0
  /\ insideEventWithMissingPackets' = FALSE
  /\ len' = 0 /\ packets' = 0 /\ ids' = <<>> /\ theErrorFlag' = {"EndOfEventMissing"}
  /\ fresh' = FALSE /\ gap' = TRUE
  /\ UNCHANGED <<loaded, iloop, buf_data, taken>>

EndReset ==
  /\ rpc = "ioctl"
  /\ rpc' = "returned"
  /\ buf_pnt' = 0 /\ ring_pnt' = 0 /\ ring_loop' = 0
  /\ insideEventWithMissingPackets' = FALSE
  /\ len' = 0 /\ packets' = 0 /\ ids' = <<>> /\ theErrorFlag' = {"EndOfEventMissing"}
  /\ fresh' = FALSE /\ gap' = TRUE
  /\ UNCHANGED <<loaded, iloop, buf_data, taken>>

ReadStep ==
  \/ Timeout \/ Idle \/ SeeData \/ ReadWord \/ ReadLength
  \/ BufferOverwrite \/ LoopOverwrite \/ Consume
=============================================================================
