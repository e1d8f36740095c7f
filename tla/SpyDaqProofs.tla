----------------------------- MODULE SpyDaqProofs -----------------------------
(***************************************************************************)
(* Proofs about the driver together with the reader of the DAQ.            *)
(***************************************************************************)
EXTENDS SpyDaq, EthHookProofs

-----------------------------------------------------------------------------
(* The driver's part of every step.                                        *)

\* The reader leaves the driver's memory alone.
LEMMA DriverPart == [Next]_vars => [DriverNext]_hookVars
<1> SUFFICES ASSUME Next PROVE DriverNext \/ UNCHANGED hookVars
  BY DEF vars
<1>1. CASE Arrivals
  BY <1>1 DEF Arrivals, DriverNext
<1>2. CASE DisableBlock
  BY <1>2 DEF DisableBlock, DriverNext, Switch
<1>3. CASE \E c \in CPUs : Hook(c)
  BY <1>3 DEF Hook, PacedLock, DriverNext, HookStep
<1>4. CASE Read \/ Reenter
  BY <1>4 DEF Read, Reenter
<1>5. CASE StartReset \/ Reset
  BY <1>5 DEF StartReset, Reset, DriverNext, ResetStep
<1>6. CASE \E c \in CPUs : RacedHook(c)
  BY <1>6 DEF RacedHook, DriverNext
<1> QED
  BY <1>1, <1>2, <1>3, <1>4, <1>5, <1>6 DEF Next

(* So whatever holds of the driver alone holds of it here.                 *)
LEMMA DriverAlone == Spec => DriverSpec
<1>1. Init => HookInit
  BY DEF Init
<1> QED
  BY <1>1, DriverPart, PTL DEF Spec, DriverSpec

-----------------------------------------------------------------------------
(* Type correctness, at any pace.                                          *)

ReaderTypes == ReaderTypeOK /\ raced \in BOOLEAN

\* The types of the reader at the start.
LEMMA ReaderTypeInit == Init => ReaderTypes
<1>1. EntryWord(0, FALSE, FALSE, 0) \in Words
  BY EntryWordType
<1>2. 0 \in 0 .. BufEnd /\ 0 \in Slots /\ 0 \in 0 .. LoopRange - 1 /\ 0 \in 0 .. MaxPacket
      /\ 0 \in 0 .. IdleLimit + 1
  BY RingAssumption, SpyAssumption DEF BufEnd, Slots, LoopRange
<1>3. <<>> \in Seq(Nat) /\ {"EndOfEventMissing"} \subseteq Status_t
  BY DEF Status_t
<1> SUFFICES ASSUME Init PROVE ReaderTypes
  OBVIOUS
<1>4. ReaderTypeOK
  BY <1>1, <1>2, <1>3 DEF Init, ReaderInit, ReaderTypeOK
<1> QED
  BY <1>4 DEF Init, ReaderTypes

(* The reader follows whatever entry it has read no further than a packet  *)
(* fits into the data area and an entry into the ring.                     *)
LEMMA ConsumeTypes ==
  ASSUME TypeInv, ReaderTypeOK, Consume
  PROVE  ReaderTypeOK'
<1> DEFINE pnt  == buf_pnt + entryLen
           slot == ring_pnt + 1
<1>1. /\ pnt \in Nat /\ slot \in Nat /\ entry.eevent \in BOOLEAN /\ entry.id \in Nat
      /\ ring_loop \in Nat /\ LoopRange \in Nat \ {0} /\ len \in Nat /\ entryLen \in Nat
      /\ 0 \in 0 .. BufEnd /\ 0 \in Slots
  BY RingAssumption DEF ReaderTypeOK, Words, BufEnd, Slots, LoopRange
<1>2. buf_pnt' \in 0 .. BufEnd /\ ring_pnt' \in Slots
  <2>1. CASE LoopsBack(pnt, slot)
    BY <2>1, <1>1 DEF Consume
  <2>2. CASE ~ LoopsBack(pnt, slot)
    <3>1. pnt \in 0 .. BufEnd /\ slot \in Slots
      BY <2>2, <1>1, NoWrapInBounds DEF LoopsBack
    <3> QED
      BY <2>2, <3>1 DEF Consume
  <2> QED
    BY <2>1, <2>2
<1>3. ring_loop' \in 0 .. LoopRange - 1
  <2>1. (ring_loop + 1) % LoopRange \in 0 .. LoopRange - 1
    BY <1>1, ModBound
  <2> QED
    BY <2>1 DEF Consume, ReaderTypeOK
<1>4. /\ len' \in Nat /\ packets' \in Nat /\ theErrorFlag' \subseteq Status_t
      /\ buf_data' \in 0 .. BufEnd
  BY <1>1 DEF Consume, ReaderTypeOK, Status_t
<1>5. ids' \in Seq(Nat) /\ taken' \in Seq(Nat)
  BY <1>1 DEF Consume, ReaderTypeOK
<1>6. insideEventWithMissingPackets' \in BOOLEAN
  BY DEF Consume, ReaderTypeOK, StaysDefective, Defective, Words
<1>7. rpc' \in {"tail", "word", "length", "loop", "returned", "ioctl"} /\ gap' \in BOOLEAN
  BY DEF Consume
<1> QED
  BY <1>2, <1>3, <1>4, <1>5, <1>6, <1>7 DEF Consume, ReaderTypeOK, loaded

\* Setting the reader back keeps its types.
LEMMA ResyncTypes ==
  ASSUME TypeInv, ReaderTypeOK, NEW flag \in Status_t, Resync(flag)
  PROVE  ReaderTypeOK'
<1>1. word[0].loop \in 0 .. LoopMod - 1 /\ 0 \in Slots /\ 0 \in 0 .. BufEnd
      /\ \A i \in 0 .. LoopMod - 1 : i \in 0 .. LoopRange - 1
  <2>1. 0 \in Slots /\ 0 \in 0 .. BufEnd
    BY RingAssumption DEF Slots, BufEnd
  <2>2. word[0].loop \in 0 .. LoopMod - 1
    BY <2>1 DEF TypeInv, HookTypeOK, ShmTypeOK, Words
  <2>3. \A i \in 0 .. LoopMod - 1 : i \in 0 .. LoopRange - 1
    BY RingAssumption DEF LoopRange
  <2> QED
    BY <2>1, <2>2, <2>3
<1> QED
  BY <1>1 DEF Resync, ReaderTypeOK, loaded

\* Reading keeps its types.
LEMMA ReadTypes ==
  ASSUME TypeInv, ReaderTypeOK, ReadStep
  PROVE  ReaderTypeOK'
<1>1. CASE Timeout \/ Idle \/ SeeData
  <2>1. tail \in 0 .. BufEnd /\ IdleLimit \in Nat /\ iloop \in Nat
    BY SpyAssumption DEF TypeInv, HookTypeOK, ShmTypeOK, ReaderTypeOK
  <2>2. buf_pnt_kern' \in 0 .. BufEnd /\ iloop' \in 0 .. IdleLimit + 1
    <3>1. /\ buf_pnt_kern' = tail
          /\ \/ iloop' = iloop
             \/ iloop <= IdleLimit /\ iloop' = iloop + 1
             \/ iloop' = 0
      BY <1>1 DEF Timeout, Idle, SeeData
    <3>2. iloop \in 0 .. IdleLimit + 1
      BY DEF ReaderTypeOK
    <3>3. CASE iloop' = iloop
      BY <2>1, <3>1, <3>2, <3>3
    <3>4. CASE iloop <= IdleLimit /\ iloop' = iloop + 1
      BY <2>1, <3>1, <3>4
    <3>5. CASE iloop' = 0
      BY <2>1, <3>1, <3>5
    <3> QED
      BY <3>1, <3>3, <3>4, <3>5
  <2>3. rpc' \in {"tail", "word", "length", "loop", "returned", "ioctl"}
    BY <1>1 DEF Timeout, Idle, SeeData, ReaderTypeOK
  <2>4. theErrorFlag' \subseteq Status_t
    BY <1>1 DEF Timeout, Idle, SeeData, callResult, ReaderTypeOK, Status_t
  <2>5. UNCHANGED <<position, insideEventWithMissingPackets, entry, entryLen, len, packets,
                    buf_data, ids, taken, fresh, gap>>
    BY <1>1 DEF Timeout, Idle, SeeData, callResult
  <2> QED
    BY <2>2, <2>3, <2>4, <2>5 DEF ReaderTypeOK, position
<1>2. CASE ReadWord \/ ReadLength
  <2>1. ring_pnt \in Slots /\ word \in [Slots -> Words] /\ length \in [Slots -> 0 .. MaxPacket]
    BY DEF TypeInv, HookTypeOK, ShmTypeOK, ReaderTypeOK
  <2>2. word[ring_pnt] \in Words /\ length[ring_pnt] \in 0 .. MaxPacket
    BY <2>1
  <2> QED
    BY <1>2, <2>2 DEF ReadWord, ReadLength, ReaderTypeOK, position, callResult
<1>3. CASE BufferOverwrite \/ LoopOverwrite
  BY <1>3, ResyncTypes DEF BufferOverwrite, LoopOverwrite, Status_t
<1> QED
  BY <1>1, <1>2, <1>3, ConsumeTypes DEF ReadStep

\* Every step keeps the types of the reader.
LEMMA ReaderTypeNext ==
  ASSUME TypeInv, ReaderTypes, [Next]_vars
  PROVE  ReaderTypes'
<1> USE DEF ReaderTypes
<1>1. ASSUME UNCHANGED readerVars, raced' = TRUE \/ raced' = raced PROVE ReaderTypes'
  BY <1>1 DEF ReaderTypeOK, readerVars, position, loaded, callResult
<1>2. CASE Read
  <2>1. raced' \in BOOLEAN
    BY <1>2 DEF Read
  <2> QED
    BY <1>2, <2>1, ReadTypes DEF Read
<1>3. CASE Reenter
  <2>1. <<>> \in Seq(Nat) /\ {"EndOfEventMissing"} \subseteq Status_t /\ 0 \in 0 .. IdleLimit + 1
    BY SpyAssumption DEF Status_t
  <2>2. fresh' \in BOOLEAN /\ raced' = raced
    BY <1>3 DEF Reenter, Call, ReaderTypeOK
  <2> QED
    BY <1>3, <2>1, <2>2 DEF Reenter, Call, ReaderTypeOK, position, loaded
<1>4. ASSUME BeginReset, raced' = TRUE PROVE ReaderTypes'
  BY <1>4 DEF BeginReset, ReaderTypeOK, position, loaded, callResult
<1>5. ASSUME EndReset, raced' = raced PROVE ReaderTypes'
  <2>1. 0 \in 0 .. BufEnd /\ 0 \in Slots /\ 0 \in 0 .. LoopRange - 1
    BY RingAssumption DEF BufEnd, Slots, LoopRange
  <2>2. <<>> \in Seq(Nat) /\ {"EndOfEventMissing"} \subseteq Status_t
    BY DEF Status_t
  <2>3. ReaderTypeOK'
    BY <1>5, <2>1, <2>2 DEF EndReset, ReaderTypeOK, loaded
  <2> QED
    BY <1>5, <2>3
<1>6. CASE Arrivals \/ DisableBlock \/ UNCHANGED vars
  BY <1>1, <1>6 DEF Arrivals, DisableBlock, vars
<1>7. CASE \E c \in CPUs : Hook(c)
  BY <1>1, <1>7 DEF Hook
<1>8. CASE StartReset \/ Reset
  <2>1. CASE StartReset
    BY <1>1, <1>4, <2>1 DEF StartReset, IssueReset
  <2>2. CASE Reset
    BY <1>1, <1>5, <2>2 DEF Reset
  <2> QED
    BY <1>8, <2>1, <2>2
<1>9. CASE \E c \in CPUs : RacedHook(c)
  BY <1>1, <1>4, <1>9 DEF RacedHook, IssueReset
<1> QED
  BY <1>2, <1>3, <1>6, <1>7, <1>8, <1>9 DEF Next

(* The DAQ path of one DDU keeps its types however the driver and the      *)
(* reader race, and whatever stale or half-written entries the reader      *)
(* follows: it never leaves the data area or the ring (Spy::readDDU).      *)
THEOREM SpyTypeCorrect == Spec => []TypeOK
<1>1. Spec => []TypeInv
  BY DriverAlone, TypeInvariant, PTL
<1> DEFINE OverlappedType == overlapped \in BOOLEAN
<1>2. Init => OverlappedType
  BY DEF Init
<1>3. OverlappedType /\ [Next]_vars => OverlappedType'
  <2> SUFFICES ASSUME overlapped \in BOOLEAN, [Next]_vars PROVE overlapped' \in BOOLEAN
    OBVIOUS
  <2>1. CASE Read \/ Reenter \/ Reset \/ Arrivals \/ DisableBlock \/ UNCHANGED vars
    <3>1. overlapped' = overlapped
      BY <2>1, Zenon DEF Read, Reenter, Reset, Arrivals, DisableBlock, vars
    <3> QED
      BY <3>1
  <2>2. CASE StartReset
    <3>1. overlapped' = (overlapped \/ eth_lock # None)
      BY <2>2, Zenon DEF StartReset
    <3> QED
      BY <3>1, Zenon
  <2>3. ASSUME NEW c \in CPUs, Hook(c) PROVE overlapped' \in BOOLEAN
    <3>1. overlapped' = (overlapped \/ reset # "no")
      BY <2>3, Zenon DEF Hook
    <3> QED
      BY <3>1, Zenon
  <2>4. ASSUME NEW c \in CPUs, RacedHook(c) PROVE overlapped' \in BOOLEAN
    BY <2>4, Zenon DEF RacedHook
  <2> QED
    BY <2>1, <2>2, <2>3, <2>4 DEF Next
<1>4. TypeInv /\ ReaderTypes /\ OverlappedType => TypeOK
  BY DEF TypeInv, ReaderTypes, TypeOK
<1> HIDE DEF OverlappedType
<1> QED
  BY <1>1, <1>2, <1>3, <1>4, ReaderTypeInit, ReaderTypeNext, PTL DEF Spec

-----------------------------------------------------------------------------
(* A reader that keeps up. Packet j is the next one it reads.              *)

(* What the hook on CPU c makes of the end of its packet.                  *)
Ends(c) == IF pc[c] \in {"copy", "classify"} THEN EndsEvent(skb[c]) ELSE masks[c].eevent

(* A packet on its way into memory touches nothing that is still unread.   *)
Room(c) ==
  \/ ring_loop = lap
  \/ /\ Pace = "ahead"
     /\ ring_loop = lap - 1
     /\ ring_pnt_2 < ring_pnt
     /\ PacketEnd(c) + Spill <= buf_pnt
     /\ ~ WrapsAt(Ends(c), PacketEnd(c), ring_pnt_2 + 1)

Filling == {"copy", "classify", "word", "length", "advance"}

At(j) ==
  /\ j \in 1 .. Published + 1
  /\ buf_pnt = Off(j) /\ ring_pnt = Slot(j) /\ ring_loop = Lap(j)
  /\ rpc \in {"word", "length", "loop"} => j <= Published
  /\ rpc \in {"length", "loop"} =>
       entry = EntryWord(written[j].loop, written[j].missing, written[j].eevent, written[j].id)
  /\ rpc = "loop" => entryLen = written[j].len

Unread(j) == \A k \in DOMAIN written : k >= j => Holds(k)

Paced ==
  /\ lap <= ring_loop + 1
  /\ \A c \in CPUs : pc[c] \in Filling => Room(c)
  /\ rpc # "ioctl"

(* The last packet taken is number p of those written.                     *)
LastTaken(p) ==
  IF taken = <<>> THEN p = 0
  ELSE p \in DOMAIN written /\ taken[Len(taken)] = written[p].id

Follows(j) ==
  \E p \in 0 .. Len(written) : LastTaken(p) /\ p < j /\ (gap \/ j = p + 1)

InStep(j) ==
  Pace = "samelap" =>
    /\ j = Len(taken) + 1
    /\ \A k \in DOMAIN taken : taken[k] = written[k].id
    /\ ring_loop < lap => ring_pnt_2 = 0
    /\ NoFalseAlarm

KeepsUp == \E j \in Places1 : At(j) /\ Unread(j) /\ Follows(j) /\ InStep(j)

ReaderInv == Regular /\ Pace # "free" => Paced /\ KeepsUp

ReaderParts == Paced /\ KeepsUp

-----------------------------------------------------------------------------
(* The positions that a reader passes.                                     *)

(* As long as the loop count fits, an entry says what the driver meant.    *)
LEMMA SmallEntry ==
  ASSUME NEW loop \in 0 .. LoopMod - 1, NEW missing \in BOOLEAN, NEW eevent \in BOOLEAN, NEW id
  PROVE  /\ EntryWord(loop, missing, eevent, id).loop = loop
         /\ EntryWord(loop, missing, eevent, id).eevent = eevent
         /\ EntryWord(loop, missing, eevent, id).missing = missing
         /\ EntryWord(loop, missing, eevent, id).id = id
<1>1. LoopMod \in Nat \ {0} /\ 2 * LoopMod \in Nat \ {0} /\ loop \in Nat
  BY RingAssumption
<1>2. loop % LoopMod = loop
  <2>1. loop = LoopMod * 0 + loop /\ loop \in Int /\ 0 \in Int
    BY <1>1
  <2> QED
    BY <1>1, <2>1, ModUnique
<1>3. ASSUME NEW m \in Nat \ {0}, loop < m PROVE (loop \div m) % 2 = 0
  <2>1. loop \div m = 0
    BY <1>1, <1>3
  <2> QED
    BY <2>1
<1>4. (loop \div LoopMod) % 2 = 0 /\ (loop \div (2 * LoopMod)) % 2 = 0
  BY <1>1, <1>3
<1> QED
  BY <1>2, <1>4 DEF EntryWord

(* Each position lies in this lap or an earlier one.                       *)
LEMMA LapsBefore ==
  ASSUME TypeInv, OrderParts, NEW j \in Places1, NEW k \in Places1, j <= k
  PROVE  /\ Lap(j) <= Lap(k) /\ Lap(k) <= lap
         /\ Lap(j) = Lap(k) => Off(j) <= Off(k) /\ Slot(j) <= Slot(k)
         /\ Lap(j) = Lap(k) /\ j < k => Slot(j) < Slot(k)
<1>0. Len(written) \in Nat /\ DOMAIN written = 1 .. Len(written)
  BY DEF TypeInv, HookTypeOK
<1>1. /\ Lap(j) \in Nat /\ Off(j) \in Nat /\ Slot(j) \in Nat
      /\ Lap(k) \in Nat /\ Off(k) \in Nat /\ Slot(k) \in Nat /\ lap \in Nat
  BY PositionTypes DEF TypeInv, HookTypeOK
<1>2. ASSUME NEW i \in Places1, NEW e \in Places1, i < e
      PROVE  \/ Lap(i) < Lap(e)
             \/ Lap(i) = Lap(e) /\ Off(i) <= Off(e) /\ Slot(i) < Slot(e)
  <2>1. i \in DOMAIN written
    BY <1>0, <1>2 DEF Places1
  <2>2. /\ Off(i) = written[i].off /\ written[i].off \in Nat /\ written[i].len \in Nat
        /\ Off(e) \in Nat
    BY <2>1, EntryFacts, PositionTypes, RingAssumption DEF Off, BufEnd
  <2> QED
    BY <1>2, <2>1, <2>2 DEF OrderParts, Rising
<1>3. Lap(k) <= lap
  <2>1. Len(written) + 1 \in Places1 /\ Lap(Len(written) + 1) = lap
    BY <1>0 DEF Places1, Lap
  <2>2. k = Len(written) + 1 \/ k < Len(written) + 1
    BY <1>0 DEF Places1
  <2> QED
    BY <1>1, <1>2, <2>1, <2>2
<1>4. j = k \/ j < k
  BY <1>0 DEF Places1
<1> QED
  BY <1>1, <1>2, <1>3, <1>4

(* The reader's packet.                                                    *)
LEMMA NextPacketToRead ==
  ASSUME TypeInv, OrderParts, Regular, NEW j \in Places1, At(j)
  PROVE  /\ Len(written) \in Nat /\ DOMAIN written = 1 .. Len(written)
         /\ Published \in Nat /\ Published <= Len(written)
         /\ ring_loop = Lap(j) /\ ring_loop \in Nat /\ ring_loop <= lap
         /\ j \in Nat /\ lap \in Nat
         /\ j \in DOMAIN written =>
              /\ written[j].loop = ring_loop /\ written[j].lap = ring_loop
              /\ written[j].off = buf_pnt /\ written[j].slot = ring_pnt
<1>1. /\ Len(written) \in Nat /\ DOMAIN written = 1 .. Len(written) /\ lap \in Nat
  BY DEF TypeInv, HookTypeOK
<1>2. Published \in Nat /\ Published <= Len(written)
  BY <1>1 DEF OrderParts, TailShows, Published
<1>3. ring_loop = Lap(j) /\ ring_loop \in Nat /\ ring_loop <= lap
  BY LapsBefore, PositionTypes DEF At
<1>4. ASSUME j \in DOMAIN written
      PROVE  /\ written[j].loop = ring_loop /\ written[j].lap = ring_loop
             /\ written[j].off = buf_pnt /\ written[j].slot = ring_pnt
  BY <1>4 DEF At, Off, Slot, Lap, OrderParts, LoopIsLap
<1>5. j \in Nat
  BY <1>1 DEF Places1
<1> QED
  BY <1>1, <1>2, <1>3, <1>4, <1>5

(* What a CPU writes spares what is unread.                                *)
LEMMA Spared ==
  ASSUME TypeInv, OrderParts, Regular, Paced, NEW j \in Places1, At(j),
         NEW c \in CPUs, pc[c] \in Filling, NEW k \in DOMAIN written, k >= j
  PROVE  /\ written[k].slot # ring_pnt_2
         /\ \/ written[k].off + written[k].len <= buf_pnt_2
            \/ written[k].off >= buf_pnt_2 + skb[c].len + Spill
<1> DEFINE W == Len(written)
<1>1. /\ W \in Nat /\ DOMAIN written = 1 .. W /\ k \in Places1 /\ W + 1 \in Places1 /\ k < W + 1
      /\ Lap(W + 1) = lap /\ Off(W + 1) = buf_pnt_2 /\ Slot(W + 1) = ring_pnt_2
      /\ Lap(k) = written[k].lap /\ Off(k) = written[k].off /\ Slot(k) = written[k].slot
  <2>1. /\ W \in Nat /\ DOMAIN written = 1 .. W /\ k \in 1 .. W
    BY WrittenFacts
  <2>2. /\ k \in 1 .. W + 1 /\ W + 1 \in 1 .. W + 1 /\ k < W + 1 /\ W + 1 \notin 1 .. W
    BY <2>1
  <2> QED
    BY <2>1, <2>2 DEF Places1, Lap, Off, Slot
<1> HIDE DEF W
<1>2. /\ Lap(k) \in Nat /\ Off(k) \in Nat /\ Slot(k) \in Nat /\ lap \in Nat
      /\ ring_pnt_2 \in Nat /\ buf_pnt_2 \in Nat
  BY <1>1, PositionTypes
<1>3. \/ written[k].lap < lap
      \/ /\ written[k].lap = lap
         /\ written[k].off + written[k].len <= buf_pnt_2
         /\ written[k].slot < ring_pnt_2
  BY <1>1 DEF OrderParts, Rising
<1>4. /\ Lap(j) <= Lap(k) /\ Lap(j) \in Nat /\ j \in Nat
      /\ Lap(j) = Lap(k) => Off(j) <= Off(k) /\ Slot(j) <= Slot(k)
  <2>1. j \in Nat
    BY WrittenFacts DEF Places1
  <2>2. j <= k /\ k \in Places1
    BY <1>1
  <2> QED
    BY <2>1, <2>2, LapsBefore, PositionTypes
<1>5. ASSUME written[k].lap < lap
      PROVE  /\ written[k].slot > ring_pnt_2
             /\ written[k].off >= buf_pnt_2 + skb[c].len + Spill
  <2>1. ring_loop # lap
    BY <1>1, <1>2, <1>4, <1>5 DEF At
  <2>2. /\ ring_loop = lap - 1 /\ ring_pnt_2 < ring_pnt
        /\ buf_pnt_2 + skb[c].len + Spill <= buf_pnt
    BY <2>1 DEF Paced, Room, PacketEnd
  <2>3. Lap(j) = Lap(k)
    BY <1>1, <1>2, <1>4, <1>5, <2>2 DEF At
  <2>4. /\ skb[c].len \in Nat /\ Spill \in Nat
        /\ Off(j) \in Nat /\ Slot(j) \in Nat
    BY PacketFacts, PositionTypes, RingAssumption DEF Filling, Writing
  <2>5. buf_pnt = Off(j) /\ ring_pnt = Slot(j)
    BY DEF At
  <2>6. Off(k) >= buf_pnt /\ Slot(k) >= ring_pnt /\ buf_pnt \in Nat /\ ring_pnt \in Nat
    BY <1>2, <1>4, <2>3, <2>4, <2>5
  <2>7. Slot(k) > ring_pnt_2
    BY <1>2, <2>2, <2>6
  <2>8. Off(k) >= buf_pnt_2 + skb[c].len + Spill
    BY <1>2, <2>2, <2>4, <2>6
  <2> QED
    BY <1>1, <2>7, <2>8
<1> QED
  BY <1>1, <1>2, <1>3, <1>5

-----------------------------------------------------------------------------
(* The driver's steps do not disturb the reader.                           *)

\* What keeps up stays so while what is unread stays unread.
LEMMA Kept ==
  ASSUME KeepsUp, UNCHANGED <<readerVars, positions, ghosts>>,
         Published \in Nat, Published' \in Nat, Published' >= Published,
         \A j \in Places1 : At(j) /\ Unread(j) => Unread(j)'
  PROVE  KeepsUp'
<1>1. PICK j \in Places1 : At(j) /\ Unread(j) /\ Follows(j) /\ InStep(j)
  BY DEF KeepsUp
<1>2. UNCHANGED <<buf_pnt_2, ring_pnt_2, ring_loop_2, lap, written>>
  BY DEF positions, ghosts
<1>3. UNCHANGED <<rpc, buf_pnt, ring_pnt, ring_loop, entry, entryLen, theErrorFlag, taken, gap>>
  BY DEF readerVars, position, loaded, callResult
<1>4. Off(j)' = Off(j) /\ Slot(j)' = Slot(j) /\ Lap(j)' = Lap(j) /\ Places1' = Places1
  BY <1>2 DEF Off, Slot, Lap, Places1
<1>5. At(j)'
  <2>0. j \in 1 .. Published + 1
    BY <1>1 DEF At
  <2>1. j \in 1 .. Published' + 1 /\ (j <= Published => j <= Published')
    <3>1. \A p, q \in Nat : q >= p /\ j \in 1 .. p + 1
            => j \in 1 .. q + 1 /\ (j <= p => j <= q)
      OBVIOUS
    <3> QED
      BY <2>0, <3>1, Zenon
  <2>2. buf_pnt' = Off(j)' /\ ring_pnt' = Slot(j)' /\ ring_loop' = Lap(j)'
    BY <1>1, <1>3, <1>4 DEF At
  <2>3. (rpc \in {"word", "length", "loop"} => j <= Published)'
    BY <1>1, <1>3, <2>1 DEF At
  <2>4. /\ rpc' \in {"length", "loop"} =>
             entry' = EntryWord(written'[j].loop, written'[j].missing, written'[j].eevent,
                                written'[j].id)
        /\ rpc' = "loop" => entryLen' = written'[j].len
    BY <1>1, <1>2, <1>3 DEF At
  <2> QED
    BY <2>1, <2>2, <2>3, <2>4 DEF At
<1>6. Follows(j)' /\ InStep(j)'
  BY <1>1, <1>2, <1>3 DEF Follows, LastTaken, InStep, NoFalseAlarm
<1> QED
  BY <1>1, <1>4, <1>5, <1>6 DEF KeepsUp

(* A step that writes nothing and puts no packet on its way.               *)
LEMMA PacedKept ==
  ASSUME Paced, UNCHANGED <<readerVars, positions, ghosts>>,
         \A c \in CPUs : pc'[c] \in Filling =>
           /\ pc[c] \in Filling /\ skb'[c] = skb[c] /\ Ends(c)' = Ends(c)
  PROVE  Paced'
<1>1. UNCHANGED <<buf_pnt_2, ring_pnt_2, ring_loop_2, lap>>
  BY DEF positions, ghosts
<1>2. UNCHANGED <<rpc, buf_pnt, ring_pnt, ring_loop>>
  BY DEF readerVars, position
<1>3. ASSUME NEW c \in CPUs, pc'[c] \in Filling PROVE Room(c)'
  <2>1. Room(c) /\ skb'[c] = skb[c] /\ Ends(c)' = Ends(c)
    BY <1>3 DEF Paced
  <2> QED
    BY <1>1, <1>2, <2>1 DEF Room, PacketEnd, WrapsAt
<1> QED
  BY <1>1, <1>2, <1>3 DEF Paced

(* A packet gets the lock: the pace makes sure that there is room for it.  *)
LEMMA LockKept ==
  ASSUME TypeInv, ReaderTypeOK, Mutex, OrderParts, Paced, Pace # "free",
         NEW c \in CPUs, PacedLock(c),
         UNCHANGED readerVars
  PROVE  Paced'
<1>0. /\ pc \in [CPUs -> Places] /\ pc[c] = "lock" /\ pc' = [pc EXCEPT ![c] = "copy"]
      /\ eth_lock = None
  BY DEF TypeInv, HookTypeOK, PacedLock, Lock
<1>1. UNCHANGED <<buf_pnt_2, ring_pnt_2, ring_loop_2, lap, skb, masks, flag_eevent_2>>
  BY DEF PacedLock, Lock, positions, ghosts, switches
<1>2. UNCHANGED <<rpc, buf_pnt, ring_pnt, ring_loop>>
  BY DEF readerVars, position
<1>3. \A d \in CPUs : pc[d] \notin Filling
  BY <1>0, HookAssumption DEF Mutex, Filling, Writing
<1>4. ring_loop_2 = lap /\ lap \in Nat
  BY DEF OrderParts, LoopIsLap, TypeInv, HookTypeOK
<1>5. Ends(c)' = EndsEvent(skb[c]) /\ PacketEnd(c)' = PacketEnd(c)
  BY <1>0, <1>1 DEF Ends, EndsEvent, PacketEnd
<1>6. Room(c)'
  <2>1. CASE ring_loop = ring_loop_2
    BY <2>1, <1>1, <1>2, <1>4 DEF Room
  <2>2. CASE ring_loop # ring_loop_2
    <3>1. Pace = "ahead" /\ WithinOneLap(c)
      BY <2>2, DaqAssumption DEF PacedLock, SameLap
    <3>2. /\ ring_loop_2 = ring_loop + 1 /\ ring_pnt_2 < ring_pnt
          /\ PacketEnd(c) + Spill <= buf_pnt
          /\ ~ WrapsAt(EndsEvent(skb[c]), PacketEnd(c), ring_pnt_2 + 1)
      BY <2>2, <3>1 DEF WithinOneLap, WillWrap
    <3>3. ring_loop = lap - 1
      BY <3>2, <1>4 DEF ReaderTypeOK
    <3>4. ~ WrapsAt(Ends(c)', PacketEnd(c)', ring_pnt_2' + 1)
      BY <3>2, <1>1, <1>5
    <3> QED
      BY <3>1, <3>2, <3>3, <3>4, <1>1, <1>2, <1>5 DEF Room
  <2> QED
    BY <2>1, <2>2
<1>7. \A d \in CPUs : pc'[d] \in Filling => d = c
  BY <1>0, <1>3
<1> QED
  BY <1>1, <1>2, <1>6, <1>7 DEF Paced

(* The copy spares the unread packets.                                     *)
LEMMA CopyKept ==
  ASSUME TypeInv, Mutex, OrderParts, Regular, ReaderParts, NEW c \in CPUs, CopyData(c),
         UNCHANGED readerVars, Published \in Nat, Published' = Published
  PROVE  ReaderParts'
<1>0. /\ pc \in [CPUs -> Places] /\ pc[c] = "copy" /\ pc' = [pc EXCEPT ![c] = "classify"]
      /\ mem \in [Units -> Nat]
  BY DEF TypeInv, HookTypeOK, ShmTypeOK, CopyData
<1>1. UNCHANGED <<positions, ghosts, word, length, skb, masks, flag_eevent_2, written>>
  BY DEF CopyData, switches, ghosts
<1>2. Paced'
  <2>1. \A d \in CPUs : pc'[d] \in Filling =>
          pc[d] \in Filling /\ skb'[d] = skb[d] /\ Ends(d)' = Ends(d)
    BY <1>0, <1>1 DEF Filling, Ends, EndsEvent
  <2> QED
    BY <1>1, <2>1, PacedKept DEF ReaderParts
<1>3. ASSUME NEW j \in Places1, At(j), Unread(j) PROVE Unread(j)'
  <2> SUFFICES ASSUME NEW k \in DOMAIN written, k >= j PROVE Holds(k)'
    BY <1>1 DEF Unread
  <2>1. Holds(k)
    BY <1>3 DEF Unread
  <2>2. \A u \in written[k].off .. written[k].off + written[k].len - 1 : mem'[u] = mem[u]
    <3> TAKE u \in written[k].off .. written[k].off + written[k].len - 1
    <3>1. /\ u \in Units /\ written[k].off \in 0 .. BufEnd /\ written[k].len \in 1 .. MaxPacket
      BY EntryFacts
    <3>2. /\ skb[c].len \in 1 .. MaxPacket /\ Spill \in Nat /\ buf_pnt_2 \in 0 .. BufEnd
      BY <1>0, PacketFacts DEF Writing
    <3>3. \/ written[k].off + written[k].len <= buf_pnt_2
          \/ written[k].off >= buf_pnt_2 + skb[c].len + Spill
      BY <1>0, <1>3, Spared DEF Filling, ReaderParts
    <3>4. u \notin buf_pnt_2 .. buf_pnt_2 + skb[c].len + Spill - 1
      BY <3>1, <3>2, <3>3, RingAssumption DEF BufEnd
    <3> QED
      BY <3>1, <3>4, <1>0 DEF CopyData
  <2> QED
    BY <1>1, <2>1, <2>2 DEF Holds
<1>4. KeepsUp'
  BY <1>1, <1>3, Kept DEF ReaderParts
<1> QED
  BY <1>2, <1>4 DEF ReaderParts

(* So do the stores of the entry.                                          *)
LEMMA EntryKept ==
  ASSUME TypeInv, Mutex, OrderParts, Regular, ReaderParts, NEW c \in CPUs,
         PutWord(c) \/ PutLength(c),
         UNCHANGED readerVars, Published \in Nat, Published' = Published
  PROVE  ReaderParts'
<1>0. /\ pc \in [CPUs -> Places] /\ pc[c] \in {"word", "length"}
      /\ pc'[c] \in {"length", "advance"} /\ \A d \in CPUs \ {c} : pc'[d] = pc[d]
      /\ word \in [Slots -> Words] /\ length \in [Slots -> 0 .. MaxPacket]
  BY DEF TypeInv, HookTypeOK, ShmTypeOK, PutWord, PutLength
<1>1. UNCHANGED <<positions, ghosts, mem, skb, masks, flag_eevent_2, written>>
  BY DEF PutWord, PutLength, switches, ghosts
<1>2. Paced'
  <2>1. \A d \in CPUs : pc'[d] \in Filling =>
          pc[d] \in Filling /\ skb'[d] = skb[d] /\ Ends(d)' = Ends(d)
    BY <1>0, <1>1 DEF Filling, Ends, EndsEvent
  <2> QED
    BY <1>1, <2>1, PacedKept DEF ReaderParts
<1>3. ASSUME NEW j \in Places1, At(j), Unread(j) PROVE Unread(j)'
  <2> SUFFICES ASSUME NEW k \in DOMAIN written, k >= j PROVE Holds(k)'
    BY <1>1 DEF Unread
  <2>1. Holds(k)
    BY <1>3 DEF Unread
  <2>2. written[k].slot # ring_pnt_2
    BY <1>0, <1>3, Spared DEF Filling, ReaderParts
  <2>3. word'[written[k].slot] = word[written[k].slot]
        /\ length'[written[k].slot] = length[written[k].slot]
    <3>1. written[k].slot \in Slots
      BY EntryFacts
    <3>2. CASE PutWord(c)
      BY <1>0, <2>2, <3>1, <3>2 DEF PutWord
    <3>3. CASE PutLength(c)
      BY <1>0, <2>2, <3>1, <3>3 DEF PutLength
    <3> QED
      BY <3>2, <3>3
  <2> QED
    BY <1>1, <2>1, <2>3 DEF Holds
<1>4. KeepsUp'
  BY <1>1, <1>3, Kept DEF ReaderParts
<1> QED
  BY <1>2, <1>4 DEF ReaderParts

(* The steps that write nothing.                                           *)
LEMMA SilentKept ==
  ASSUME TypeInv, Paced', KeepsUp, UNCHANGED <<readerVars, positions, ghosts>>,
         UNCHANGED <<mem, word, length>>,
         Published \in Nat, Published' \in Nat, Published' >= Published
  PROVE  ReaderParts'
<1>1. UNCHANGED written
  BY DEF ghosts
<1>2. \A j \in Places1 : At(j) /\ Unread(j) => Unread(j)'
  BY <1>1 DEF Unread, Holds
<1> QED
  BY <1>2, Kept DEF ReaderParts

(* Moving on: the packet is unread from then on, and intact.  Where the    *)
(* driver wraps, the reader was in the lap that ends.                      *)
LEMMA AdvanceKept ==
  ASSUME TypeInv, Mutex, Undisturbed, OrderParts, Regular, ReaderTypeOK, ReaderParts,
         Pace # "free", NEW c \in CPUs, Advance(c), UNCHANGED readerVars
  PROVE  ReaderParts'
<1>0. PICK W \in Nat : W = Len(written)
  BY DEF TypeInv, HookTypeOK
<1>1. /\ DOMAIN written = 1 .. W /\ DOMAIN written' = 1 .. W + 1 /\ Len(written') = W + 1
      /\ \A k \in 1 .. W : written'[k] = written[k]
      /\ written'[W + 1] = EntryOf(skb[c], masks[c], buf_pnt_2, ring_pnt_2, ring_loop_2)
  BY <1>0, Moves
<1>2. \A k \in 1 .. W + 1 : Off(k)' = Off(k) /\ Slot(k)' = Slot(k) /\ Lap(k)' = Lap(k)
  BY <1>0, Moves
<1>3. IF WrapsAt(masks[c].eevent, buf_pnt_2 + skb[c].len, ring_pnt_2 + 1)
      THEN buf_pnt_2' = 0 /\ ring_pnt_2' = 0 /\ lap' = lap + 1
      ELSE buf_pnt_2' = buf_pnt_2 + skb[c].len /\ ring_pnt_2' = ring_pnt_2 + 1 /\ lap' = lap
  BY <1>0, Moves
<1>4. /\ ~ AtTail /\ AtTail' /\ pc[c] = "advance" /\ pc[c] \in Filling
      /\ \A d \in CPUs : pc[d] \in Writing => d = c
      /\ pc' = [pc EXCEPT ![c] = "tail"] /\ pc \in [CPUs -> Places]
  BY <1>0, Moves DEF Filling, TypeInv, HookTypeOK
<1>5. Published = W /\ Published' = W
  BY <1>0, <1>1, <1>4 DEF Published
<1>6. UNCHANGED <<rpc, buf_pnt, ring_pnt, ring_loop, entry, entryLen, theErrorFlag, taken, gap>>
  BY DEF readerVars, position, loaded, callResult
<1>7. UNCHANGED <<mem, word, length>>
  BY DEF Advance, shm
<1>8. lap \in Nat /\ ring_loop \in Nat
  BY RingAssumption DEF TypeInv, HookTypeOK, ReaderTypeOK
<1>9. lap <= ring_loop + 1 /\ Room(c)
  BY <1>4 DEF ReaderParts, Paced
<1>10. Ends(c) = masks[c].eevent /\ PacketEnd(c) = buf_pnt_2 + skb[c].len
  BY <1>4 DEF Ends, PacketEnd
<1>11. lap' = lap + 1 => ring_loop = lap
  BY <1>3, <1>8, <1>9, <1>10 DEF Room
<1>12. Paced'
  <2>1. lap' <= ring_loop' + 1
    BY <1>3, <1>6, <1>8, <1>9, <1>11
  <2>2. \A d \in CPUs : pc'[d] \notin Filling
    BY <1>4 DEF Filling, Writing
  <2> QED
    BY <2>1, <2>2, <1>6 DEF ReaderParts, Paced
<1>13. PICK j \in 1 .. W + 1 : At(j) /\ Unread(j) /\ Follows(j) /\ InStep(j)
  BY <1>0 DEF ReaderParts, KeepsUp, Places1
<1>14. j \in Places1' /\ (j <= Published => j \in 1 .. W)
  BY <1>1, <1>5 DEF Places1
<1>15. At(j)'
  <2>1. j \in 1 .. Published' + 1
    BY <1>5
  <2>2. buf_pnt' = Off(j)' /\ ring_pnt' = Slot(j)' /\ ring_loop' = Lap(j)'
    BY <1>2, <1>6, <1>13 DEF At
  <2>3. rpc \in {"word", "length", "loop"} => j \in 1 .. W /\ j <= W /\ written'[j] = written[j]
    BY <1>1, <1>5, <1>13, <1>14 DEF At
  <2>4. (rpc \in {"word", "length", "loop"} => j <= Published)'
    BY <1>5, <1>6, <2>3
  <2>5. /\ rpc' \in {"length", "loop"} =>
             entry' = EntryWord(written'[j].loop, written'[j].missing, written'[j].eevent,
                                written'[j].id)
        /\ rpc' = "loop" => entryLen' = written'[j].len
    BY <1>6, <1>13, <2>3 DEF At
  <2> QED
    BY <2>1, <2>2, <2>4, <2>5 DEF At
<1>16. Unread(j)'
  <2> SUFFICES ASSUME NEW k \in 1 .. W + 1, k >= j PROVE Holds(k)'
    BY <1>1 DEF Unread
  <2>1. CASE k \in 1 .. W
    BY <2>1, <1>1, <1>7, <1>13 DEF Unread, Holds
  <2>2. CASE k = W + 1
    <3>1. /\ \A u \in buf_pnt_2 .. buf_pnt_2 + skb[c].len - 1 : mem[u] = skb[c].id
          /\ word[ring_pnt_2] = EntryWord(ring_loop_2, masks[c].missing, masks[c].eevent, skb[c].id)
          /\ length[ring_pnt_2] = skb[c].len
      BY <1>4 DEF Undisturbed, DataInPlace, WordInPlace, LengthInPlace
    <3>2. /\ written'[k].id = skb[c].id /\ written'[k].len = skb[c].len
          /\ written'[k].missing = masks[c].missing /\ written'[k].eevent = masks[c].eevent
          /\ written'[k].off = buf_pnt_2 /\ written'[k].slot = ring_pnt_2
          /\ written'[k].loop = ring_loop_2
      BY <2>2, <1>1, NewEntry
    <3> QED
      BY <3>1, <3>2, <1>7 DEF Holds
  <2> QED
    BY <2>1, <2>2
<1>17. Follows(j)'
  <2>1. PICK p \in 0 .. W : LastTaken(p) /\ p < j /\ (gap \/ j = p + 1)
    BY <1>0, <1>13 DEF Follows
  <2>2. LastTaken(p)'
    BY <2>1, <1>1, <1>6 DEF LastTaken
  <2>3. p \in 0 .. Len(written')
    BY <1>1
  <2> QED
    BY <2>1, <2>2, <2>3, <1>6 DEF Follows
<1>18. InStep(j)'
  <2> SUFFICES ASSUME Pace = "samelap" PROVE InStep(j)'
    BY DEF InStep
  <2>1. /\ j = Len(taken) + 1 /\ \A k \in DOMAIN taken : taken[k] = written[k].id
        /\ ring_loop < lap => ring_pnt_2 = 0
        /\ NoFalseAlarm
    BY <1>13 DEF InStep
  <2>2. taken \in Seq(Nat)
    BY DEF ReaderTypeOK
  <2>3. \A k \in DOMAIN taken : taken'[k] = written'[k].id
    BY <1>1, <1>6, <2>1, <2>2
  <2>4. ring_loop = lap
    BY <1>9 DEF Room
  <2>5. ring_loop' < lap' => ring_pnt_2' = 0
    BY <1>3, <1>6, <1>8, <2>4
  <2> QED
    BY <1>6, <2>1, <2>3, <2>5 DEF InStep, NoFalseAlarm
<1> QED
  BY <1>12, <1>14, <1>15, <1>16, <1>17, <1>18 DEF ReaderParts, KeepsUp

(* Every step of the driver, for a reader that keeps up.                   *)
LEMMA DriverKept ==
  ASSUME TypeInv, DataInv, OrderInv, ReaderTypeOK, ReaderParts, Regular, Regular', OrderInv',
         Pace # "free",
         \/ Arrivals \/ DisableBlock \/ UNCHANGED vars
         \/ \E c \in CPUs : Hook(c)
  PROVE  ReaderParts'
<1>0. /\ pc \in [CPUs -> Places] /\ Mutex /\ Undisturbed /\ OrderParts /\ OrderParts'
      /\ Len(written) \in Nat
  BY DEF TypeInv, HookTypeOK, DataInv, Regular, OrderInv, OrderParts
<1>1. Published \in Nat /\ Published' \in Nat
  BY <1>0 DEF OrderParts, TailShows
<1>2. UNCHANGED readerVars
  BY DEF Arrivals, DisableBlock, Hook, vars
<1>3. CASE Arrivals \/ DisableBlock \/ UNCHANGED vars
  <2>1. UNCHANGED <<positions, ghosts, mem, word, length, masks, flag_eevent_2>>
    BY <1>3 DEF Arrivals, Environment, Receive, Lose, DisableBlock, SwitchPmissing,
                RaisePmissing, LowerPmissing, vars, hookVars, shm, cpus, switches
  <2>2. \A c \in CPUs : (pc'[c] = pc[c] /\ skb'[c] = skb[c]) \/ (pc[c] = "idle" /\ pc'[c] = "lock")
    BY <1>0, <1>3 DEF TypeInv, HookTypeOK, Arrivals, Environment, Receive, Lose, DisableBlock,
                      SwitchPmissing, RaisePmissing, LowerPmissing, vars, hookVars, cpus
  <2>3. \A c \in CPUs : pc'[c] \in Filling =>
          pc[c] \in Filling /\ skb'[c] = skb[c] /\ Ends(c)' = Ends(c)
    BY <2>1, <2>2 DEF Filling, Ends, EndsEvent
  <2>4. Paced'
    BY <1>2, <2>1, <2>3, PacedKept DEF ReaderParts
  <2>5. Published' = Published
    BY <2>1, <2>2 DEF Published, AtTail, ghosts
  <2> QED
    BY <1>1, <1>2, <2>1, <2>4, <2>5, SilentKept DEF ReaderParts
<1>4. ASSUME NEW c \in CPUs, Hook(c) PROVE ReaderParts'
  <2>1. CASE PacedLock(c)
    <3>1. UNCHANGED <<positions, ghosts, mem, word, length>>
      BY <2>1 DEF PacedLock, Lock, shm
    <3>2. Published' = Published
      BY <1>0, <2>1, <3>1 DEF PacedLock, Lock, Published, AtTail, ghosts
    <3>3. Paced'
      BY <1>0, <1>2, <2>1, LockKept DEF ReaderParts
    <3> QED
      BY <1>1, <1>2, <3>1, <3>2, <3>3, SilentKept DEF ReaderParts
  <2>2. CASE CopyData(c)
    <3>1. Published' = Published
      BY <1>0, <2>2 DEF CopyData, Published, AtTail, ghosts
    <3> QED
      BY <1>0, <1>1, <1>2, <2>2, <3>1, CopyKept
  <2>3. CASE Classify(c)
    <3>1. UNCHANGED <<positions, ghosts, mem, word, length, skb, flag_eevent_2>>
      BY <2>3 DEF Classify, shm, switches
    <3>2. Published' = Published
      BY <1>0, <2>3, <3>1 DEF Classify, Published, AtTail, ghosts
    <3>3. /\ pc[c] = "classify" /\ pc' = [pc EXCEPT ![c] = "word"]
          /\ masks' = [masks EXCEPT ![c] = [ missing |-> PacketsMissing(skb[c].id % CtrMod),
                                             eevent  |-> EndsEvent(skb[c]),
                                             checked |-> flag_pmissing_2 ]]
          /\ masks \in [CPUs -> Masks]
      BY <2>3 DEF Classify, TypeInv, HookTypeOK
    <3>4. \A d \in CPUs : pc'[d] \in Filling => pc[d] \in Filling /\ Ends(d)' = Ends(d)
      <4> TAKE d \in CPUs
      <4>1. CASE d = c
        BY <1>0, <3>3, <4>1 DEF Filling, Ends
      <4>2. CASE d # c
        BY <1>0, <3>1, <3>3, <4>2 DEF Filling, Ends, EndsEvent
      <4> QED
        BY <4>1, <4>2
    <3>5. Paced'
      BY <1>2, <3>1, <3>4, PacedKept DEF ReaderParts
    <3> QED
      BY <1>1, <1>2, <3>1, <3>2, <3>5, SilentKept DEF ReaderParts
  <2>4. CASE PutWord(c) \/ PutLength(c)
    <3>1. Published' = Published
      BY <1>0, <2>4 DEF PutWord, PutLength, Published, AtTail, ghosts
    <3> QED
      BY <1>0, <1>1, <1>2, <2>4, <3>1, EntryKept
  <2>5. CASE Advance(c)
    BY <1>0, <1>2, <2>5, AdvanceKept
  <2>6. CASE PutTail(c)
    <3>1. UNCHANGED <<positions, ghosts, mem, word, length>>
      BY <2>6 DEF PutTail
    <3>2. /\ pc[c] = "tail" /\ pc' = [pc EXCEPT ![c] = "idle"]
          /\ \A d \in CPUs \ {c} : pc[d] \notin Writing /\ pc'[d] = pc[d]
      BY <1>0, <2>6, Alone DEF PutTail, Writing
    <3>3. Published' >= Published
      BY <1>0, <3>1, <3>2 DEF Published, AtTail, ghosts
    <3>4. \A d \in CPUs : pc'[d] \notin Filling
      BY <1>0, <3>2 DEF Filling, Writing
    <3>5. Paced'
      BY <1>2, <3>1, <3>4, PacedKept DEF ReaderParts
    <3> QED
      BY <1>1, <1>2, <3>1, <3>3, <3>5, SilentKept DEF ReaderParts
  <2> QED
    BY <1>4, <2>1, <2>2, <2>3, <2>4, <2>5, <2>6 DEF Hook
<1> QED
  BY <1>3, <1>4

-----------------------------------------------------------------------------
(* The reader's steps.                                                     *)

(* They leave the driver where it is.                                      *)
LEMMA DriverStays ==
  ASSUME UNCHANGED hookVars
  PROVE  /\ UNCHANGED <<buf_pnt_2, ring_pnt_2, ring_loop_2, lap, written, mem, word, length, tail,
                        pc, skb, masks, flag_eevent_2>>
         /\ Published' = Published /\ Places1' = Places1
         /\ \A k : Off(k)' = Off(k) /\ Slot(k)' = Slot(k) /\ Lap(k)' = Lap(k)
<1>1. UNCHANGED <<buf_pnt_2, ring_pnt_2, ring_loop_2, lap, written, mem, word, length, tail,
                  pc, skb, masks, flag_eevent_2>>
  BY DEF hookVars, shm, positions, ghosts, cpus, switches
<1>2. Published' = Published /\ Places1' = Places1
  BY <1>1 DEF Published, AtTail, Places1
<1>3. \A k : Off(k)' = Off(k) /\ Slot(k)' = Slot(k) /\ Lap(k)' = Lap(k)
  BY <1>1 DEF Off, Slot, Lap
<1> QED
  BY <1>1, <1>2, <1>3

(* Steps between two packets.                                              *)
LEMMA SamePosition ==
  ASSUME UNCHANGED hookVars, UNCHANGED <<position, taken, gap>>,
         Paced, rpc' # "ioctl", NoFalseAlarm => NoFalseAlarm',
         NEW j \in Places1, At(j), Unread(j), Follows(j), InStep(j), At(j)'
  PROVE  ReaderParts'
<1>1. UNCHANGED <<buf_pnt, ring_pnt, ring_loop>>
  BY DEF position
<1>2. Paced'
  BY <1>1, DriverStays DEF Paced, Room, Ends, EndsEvent, PacketEnd, WrapsAt
<1>3. Unread(j)'
  BY DriverStays DEF Unread, Holds
<1>4. Follows(j)' /\ InStep(j)'
  BY <1>1, DriverStays DEF Follows, LastTaken, InStep
<1> QED
  BY <1>2, <1>3, <1>4, DriverStays DEF ReaderParts, KeepsUp

\* Steps that only look keep the reader's place.
LEMMA LookKept ==
  ASSUME TypeInv, OrderParts, Regular, ReaderParts, UNCHANGED hookVars,
         Call \/ Timeout \/ Idle \/ SeeData \/ ReadWord \/ ReadLength
  PROVE  ReaderParts'
<1>1. PICK j \in Places1 : At(j) /\ Unread(j) /\ Follows(j) /\ InStep(j)
  BY DEF ReaderParts, KeepsUp
<1>2. UNCHANGED <<position, taken, gap>> /\ rpc' # "ioctl" /\ (NoFalseAlarm => NoFalseAlarm')
  BY DEF Call, Timeout, Idle, SeeData, ReadWord, ReadLength, callResult, NoFalseAlarm,
         ReaderParts, Paced
<1>3. j \in 1 .. Published' + 1 /\ buf_pnt' = Off(j)' /\ ring_pnt' = Slot(j)' /\ ring_loop' = Lap(j)'
  BY <1>1, <1>2, DriverStays DEF At, position
<1>4. At(j)'
  <2>1. CASE Call \/ Timeout \/ Idle
    BY <1>3, <2>1 DEF At, Call, Timeout, Idle
  <2>2. CASE SeeData
    <3>1. j # Published + 1
      BY <1>1, <2>2 DEF At, SeeData, SeesData, OrderParts, TailShows
    <3>2. j \in 1 .. Published + 1 /\ Published \in Nat
      BY <1>1, NextPacketToRead DEF At
    <3>3. j <= Published'
      BY <3>1, <3>2, DriverStays
    <3> QED
      BY <1>3, <2>2, <3>3 DEF At, SeeData
  <2>3. CASE ReadWord \/ ReadLength
    <3>1. j <= Published /\ j \in DOMAIN written
      BY <1>1, <2>3, NextPacketToRead DEF At, ReadWord, ReadLength
    <3>2. ring_pnt = written[j].slot
      BY <1>1, <3>1, NextPacketToRead
    <3>3. Holds(j)
      <4>1. j >= j
        BY <1>1, NextPacketToRead
      <4> QED
        BY <1>1, <3>1, <4>1 DEF Unread
    <3>4. j <= Published' /\ written' = written
      BY <3>1, DriverStays
    <3>5. CASE ReadWord
      <4>1. entry' = EntryWord(written[j].loop, written[j].missing, written[j].eevent, written[j].id)
        BY <3>2, <3>3, <3>5 DEF ReadWord, Holds
      <4> QED
        BY <1>3, <3>4, <3>5, <4>1 DEF At, ReadWord
    <3>6. CASE ReadLength
      <4>1. entryLen' = written[j].len
        BY <3>2, <3>3, <3>6 DEF ReadLength, Holds
      <4>2. entry' = EntryWord(written[j].loop, written[j].missing, written[j].eevent, written[j].id)
        BY <1>1, <3>6 DEF ReadLength, At
      <4> QED
        BY <1>3, <3>4, <3>6, <4>1, <4>2 DEF At, ReadLength
    <3> QED
      BY <2>3, <3>5, <3>6
  <2> QED
    BY <2>1, <2>2, <2>3
<1> QED
  BY <1>1, <1>2, <1>4, SamePosition DEF ReaderParts

(* What the reader has loaded when it decides what to do with a packet.    *)
LEMMA Loaded ==
  ASSUME TypeInv, OrderParts, Regular, NEW j \in Places1, At(j), rpc = "loop"
  PROVE  /\ j \in DOMAIN written /\ j <= Published
         /\ entry.loop = ring_loop /\ entry.eevent = written[j].eevent
         /\ entry.missing = written[j].missing /\ entry.id = written[j].id
         /\ entryLen = written[j].len
<1>1. j <= Published /\ j \in DOMAIN written
  BY NextPacketToRead DEF At
<1>2. /\ written[j].loop = ring_loop /\ ring_loop \in Nat /\ ring_loop <= lap /\ lap \in Nat
  BY <1>1, NextPacketToRead
<1>3. ring_loop \in 0 .. LoopMod - 1
  BY <1>2, RingAssumption DEF Regular
<1>4. written[j].missing \in BOOLEAN /\ written[j].eevent \in BOOLEAN
  BY <1>1, EntryFacts DEF Entries
<1>5. entry = EntryWord(ring_loop, written[j].missing, written[j].eevent, written[j].id)
  BY <1>2 DEF At
<1>6. entryLen = written[j].len
  BY DEF At
<1> QED
  BY <1>1, <1>3, <1>4, <1>5, <1>6, SmallEntry

(* The driver's loop count is no more than one ahead; it is only then that *)
(* the reader takes itself for overtaken, and never if it stays in step.   *)
LEMMA OnlyOneAhead ==
  ASSUME TypeInv, Mutex, OrderParts, Regular, ReaderParts, Pace # "free", NEW j \in Places1, At(j),
         InStep(j), Overtaken(word[0].loop)
  PROVE  Pace = "ahead" /\ ring_loop < lap /\ word[0].loop = lap /\ lap > 0 /\ ring_loop + 1 = lap
<1>1. /\ ring_loop \in Nat /\ lap \in Nat /\ word[0].loop \in Nat
  <2>1. word[0] \in Words
    BY RingAssumption DEF TypeInv, HookTypeOK, ShmTypeOK, Slots
  <2> QED
    BY <2>1, NextPacketToRead, RingAssumption DEF Words
<1>2. word[0].loop <= lap /\ lap <= ring_loop + 1
  BY DEF OrderParts, FirstEntry, ReaderParts, Paced
<1>3. word[0].loop >= ring_loop + 1
  BY <1>1 DEF Overtaken
<1>4. word[0].loop = lap /\ ring_loop + 1 = lap
  BY <1>1, <1>2, <1>3
<1>5. ASSUME Pace = "samelap" PROVE FALSE
  <2>1. ring_pnt_2 = 0
    BY <1>1, <1>4, <1>5 DEF InStep
  <2>2. \A c \in CPUs : pc[c] \notin Filling
    BY <1>1, <1>4, <1>5 DEF ReaderParts, Paced, Room
  <2> QED
    BY <1>1, <1>4, <2>1, <2>2 DEF OrderParts, FirstEntry, Filling
<1> QED
  BY <1>1, <1>4, <1>5, DaqAssumption

(* Taking a packet leads to the position of the next.                      *)
LEMMA ConsumePosition ==
  ASSUME TypeInv, OrderParts, Regular, NEW j \in Places1, At(j), Consume
  PROVE  /\ j \in DOMAIN written /\ j + 1 \in Places1 /\ j < j + 1
         /\ taken' = Append(taken, written[j].id)
         /\ buf_pnt' = Off(j + 1) /\ ring_pnt' = Slot(j + 1) /\ ring_loop' = Lap(j + 1)
<1>1. rpc = "loop"
  BY DEF Consume
<1>2. /\ j \in DOMAIN written /\ entry.eevent = written[j].eevent
      /\ entryLen = written[j].len /\ entry.id = written[j].id
  BY <1>1, Loaded
<1>3. /\ written[j].off = buf_pnt /\ written[j].slot = ring_pnt /\ written[j].lap = ring_loop
      /\ ring_loop \in Nat /\ lap \in Nat
      /\ Len(written) \in Nat /\ DOMAIN written = 1 .. Len(written)
  BY <1>2, NextPacketToRead
<1>4. LoopsBack(buf_pnt + entryLen, ring_pnt + 1) <=> Wraps(j)
  BY <1>2, <1>3 DEF LoopsBack, Wraps
<1>5. j + 1 \in Places1 /\ j < j + 1
  BY <1>2, <1>3 DEF Places1
<1>6. CASE Wraps(j)
  <2>1. Off(j + 1) = 0 /\ Slot(j + 1) = 0 /\ Lap(j + 1) = ring_loop + 1
    BY <1>2, <1>3, <1>6 DEF OrderParts, Chain
  <2>2. buf_pnt' = 0 /\ ring_pnt' = 0 /\ ring_loop' = (ring_loop + 1) % LoopRange
    BY <1>4, <1>6 DEF Consume
  <2>3. ring_loop + 1 <= lap
    <3>1. j <= j + 1
      BY <1>2, <1>3
    <3>2. Lap(j + 1) <= lap
      BY <1>5, <3>1, LapsBefore
    <3> QED
      BY <2>1, <3>2
  <2>4. (ring_loop + 1) % LoopRange = ring_loop + 1
    <3>1. /\ ring_loop + 1 = LoopRange * 0 + (ring_loop + 1)
          /\ ring_loop + 1 \in 0 .. LoopRange - 1
          /\ ring_loop + 1 \in Int /\ 0 \in Int /\ LoopRange \in Nat \ {0}
      BY <1>3, <2>3, RingAssumption DEF Regular, LoopRange
    <3> QED
      BY <3>1, ModUnique
  <2> QED
    BY <1>2, <1>5, <2>1, <2>2, <2>4 DEF Consume
<1>7. CASE ~ Wraps(j)
  <2>1. /\ Off(j + 1) = buf_pnt + entryLen /\ Slot(j + 1) = ring_pnt + 1
        /\ Lap(j + 1) = ring_loop
    BY <1>2, <1>3, <1>7 DEF OrderParts, Chain
  <2>2. buf_pnt' = buf_pnt + entryLen /\ ring_pnt' = ring_pnt + 1 /\ ring_loop' = ring_loop
    BY <1>4, <1>7 DEF Consume
  <2> QED
    BY <1>2, <1>5, <2>1, <2>2 DEF Consume
<1> QED
  BY <1>6, <1>7

\* Taking a packet moves the reader by one place.
LEMMA ConsumeKept ==
  ASSUME TypeInv, OrderParts, Regular, ReaderTypeOK, ReaderParts, UNCHANGED hookVars,
         Consume
  PROVE  ReaderParts'
<1>1. PICK j \in Places1 : At(j) /\ Unread(j) /\ Follows(j) /\ InStep(j)
  BY DEF ReaderParts, KeepsUp
<1>2. /\ j \in DOMAIN written /\ j + 1 \in Places1 /\ j < j + 1
      /\ taken' = Append(taken, written[j].id)
      /\ buf_pnt' = Off(j + 1) /\ ring_pnt' = Slot(j + 1) /\ ring_loop' = Lap(j + 1)
  BY <1>1, ConsumePosition
<1>3. /\ Len(written) \in Nat /\ DOMAIN written = 1 .. Len(written)
      /\ ring_loop = Lap(j) /\ ring_loop \in Nat /\ lap \in Nat /\ j \in Nat
      /\ Published \in Nat
  BY <1>1, NextPacketToRead
<1>4. j <= Published /\ rpc' \in {"tail", "returned"} /\ gap' = FALSE
  BY <1>1, Loaded DEF Consume
<1>5. /\ Lap(j) <= Lap(j + 1) /\ Lap(j + 1) <= lap
      /\ Lap(j) = Lap(j + 1) => Off(j) <= Off(j + 1) /\ Slot(j) < Slot(j + 1)
      /\ Lap(j + 1) \in Nat /\ Off(j) \in Nat /\ Off(j + 1) \in Nat
      /\ Slot(j) \in Nat /\ Slot(j + 1) \in Nat
  BY <1>2, <1>3, LapsBefore, PositionTypes
<1>6. At(j + 1)'
  <2>1. j + 1 \in 1 .. Published' + 1
    BY <1>3, <1>4, DriverStays
  <2> QED
    BY <1>2, <1>4, <2>1, DriverStays DEF At
<1>7. Unread(j + 1)'
  <2>1. \A k \in DOMAIN written : k >= j + 1 => k >= j
    BY <1>3
  <2> QED
    BY <1>1, <2>1, DriverStays DEF Unread, Holds
<1>8. Follows(j + 1)'
  <2>1. LastTaken(j)'
    <3>1. taken' # <<>> /\ taken'[Len(taken')] = written[j].id
      <4>1. taken \in Seq(Nat)
        BY DEF ReaderTypeOK
      <4> QED
        BY <1>2, <4>1
    <3>2. written' = written
      BY DriverStays
    <3> QED
      BY <1>2, <3>1, <3>2 DEF LastTaken
  <2>2. j \in 0 .. Len(written') /\ j < j + 1
    BY <1>2, <1>3, DriverStays
  <2> QED
    BY <2>1, <2>2 DEF Follows
<1>9. InStep(j + 1)'
  <2> SUFFICES ASSUME Pace = "samelap" PROVE InStep(j + 1)'
    BY DEF InStep
  <2>1. /\ j = Len(taken) + 1 /\ \A k \in DOMAIN taken : taken[k] = written[k].id
        /\ ring_loop < lap => ring_pnt_2 = 0
        /\ NoFalseAlarm
    BY <1>1 DEF InStep
  <2>2. /\ Len(taken') = Len(taken) + 1 /\ DOMAIN taken' = 1 .. Len(taken) + 1
        /\ \A k \in 1 .. Len(taken) : taken'[k] = taken[k]
        /\ taken'[Len(taken) + 1] = written[j].id
        /\ DOMAIN taken = 1 .. Len(taken) /\ Len(taken) \in Nat
    BY <1>2 DEF ReaderTypeOK
  <2>3. \A k \in DOMAIN taken' : taken'[k] = written'[k].id
    <3> TAKE k \in DOMAIN taken'
    <3>1. CASE k = j
      BY <2>1, <2>2, <3>1, DriverStays
    <3>2. CASE k # j
      <4>1. k \in 1 .. Len(taken)
        BY <2>1, <2>2, <3>2
      <4> QED
        BY <2>1, <2>2, <4>1, DriverStays
    <3> QED
      BY <3>1, <3>2
  <2>4. ring_loop' < lap' => ring_pnt_2' = 0
    BY <1>2, <1>3, <1>5, <2>1, DriverStays
  <2>5. NoFalseAlarm'
    BY <2>1 DEF NoFalseAlarm, Consume
  <2> QED
    BY <2>1, <2>2, <2>3, <2>4, <2>5 DEF InStep
<1>10. Paced'
  <2>1. lap <= ring_loop + 1 /\ rpc' # "ioctl"
    BY <1>4 DEF ReaderParts, Paced
  <2>2. ASSUME NEW c \in CPUs, pc[c] \in Filling PROVE Room(c)'
    <3>1. Room(c)
      BY <2>2 DEF ReaderParts, Paced
    <3>2. CASE Lap(j + 1) = lap
      BY <1>2, <3>2, DriverStays DEF Room
    <3>3. CASE Lap(j + 1) # lap
      <4>1. Lap(j) = Lap(j + 1) /\ ring_loop # lap
        <5>1. PICK a \in Nat, b \in Nat, l \in Nat :
                a = Lap(j) /\ b = Lap(j + 1) /\ l = lap /\ ring_loop = a
          BY <1>3, <1>5
        <5>2. a <= b /\ b <= l /\ l <= a + 1 /\ b # l
          BY <1>5, <2>1, <3>3, <5>1
        <5>3. a = b /\ a # l
          BY <5>2
        <5> QED
          BY <5>1, <5>3
      <4>2. /\ Pace = "ahead" /\ ring_loop = lap - 1 /\ ring_pnt_2 < ring_pnt
            /\ PacketEnd(c) + Spill <= buf_pnt
            /\ ~ WrapsAt(Ends(c), PacketEnd(c), ring_pnt_2 + 1)
        BY <3>1, <4>1 DEF Room
      <4>3. /\ Slot(j) = ring_pnt /\ Off(j) = buf_pnt /\ ring_pnt_2 \in Nat
            /\ PacketEnd(c) + Spill \in Nat
        BY <1>1, <2>2, PacketFacts, RingAssumption
           DEF At, PacketEnd, Filling, Writing, Slots, BufEnd
      <4>4. ring_pnt_2 < ring_pnt' /\ PacketEnd(c) + Spill <= buf_pnt' /\ ring_loop' = lap - 1
        <5>1. PICK o \in Nat, p \in Nat, s \in Nat, t \in Nat, r \in Nat, e \in Nat :
                /\ o = Off(j) /\ p = Off(j + 1) /\ s = Slot(j) /\ t = Slot(j + 1)
                /\ r = ring_pnt_2 /\ e = PacketEnd(c) + Spill
          BY <1>5, <4>3
        <5>2. o <= p /\ s < t /\ r < s /\ e <= o
          BY <1>5, <4>1, <4>2, <4>3, <5>1
        <5>3. r < t /\ e <= p
          BY <5>2
        <5> QED
          BY <1>2, <1>3, <4>1, <4>2, <5>1, <5>3
      <4>5. Ends(c)' = Ends(c) /\ PacketEnd(c)' = PacketEnd(c)
        BY DriverStays DEF Ends, EndsEvent, PacketEnd
      <4> QED
        BY <4>2, <4>4, <4>5, DriverStays DEF Room
    <3> QED
      BY <3>2, <3>3
  <2>3. lap' <= ring_loop' + 1
    BY <1>2, <1>3, <1>5, <2>1, DriverStays
  <2> QED
    BY <2>1, <2>2, <2>3, DriverStays DEF Paced
<1> QED
  BY <1>2, <1>6, <1>7, <1>8, <1>9, <1>10, DriverStays DEF ReaderParts, KeepsUp

(* Where the reader finds itself overtaken, it goes on at the beginning of *)
(* the driver's lap, which lies ahead.                                     *)
LEMMA ResyncPosition ==
  ASSUME TypeInv, Mutex, OrderParts, Regular, ReaderParts, Pace # "free",
         NEW j \in Places1, At(j), InStep(j), BufferOverwrite
  PROVE  /\ Pace = "ahead" /\ word[0].loop = lap
         /\ \E s \in Places1 : /\ j < s /\ s <= Published + 1
                               /\ Off(s) = 0 /\ Slot(s) = 0 /\ Lap(s) = lap
<1>1. Pace = "ahead" /\ ring_loop < lap /\ word[0].loop = lap /\ lap > 0
  BY OnlyOneAhead DEF BufferOverwrite
<1>2. PICK s \in Places1 : Off(s) = 0 /\ Slot(s) = 0 /\ Lap(s) = lap
  BY DEF OrderParts, LapBegan
<1>3. /\ Len(written) \in Nat /\ DOMAIN written = 1 .. Len(written)
      /\ ring_loop = Lap(j) /\ ring_loop \in Nat /\ lap \in Nat /\ j \in Nat /\ Published \in Nat
      /\ s \in 1 .. Len(written) + 1
  BY NextPacketToRead DEF Places1
<1>4. j < s
  <2>1. ~ (s <= j)
    BY <1>1, <1>2, <1>3, LapsBefore
  <2> QED
    BY <1>3, <2>1
<1>5. s <= Published + 1
  <2>1. CASE ~ AtTail
    BY <1>3, <2>1 DEF Published
  <2>2. CASE AtTail
    <3>1. PICK d \in CPUs : pc[d] = "tail"
      BY <2>2 DEF AtTail
    <3>2. \A c \in CPUs : pc[c] \notin {"length", "advance"}
      BY <3>1 DEF Mutex, Writing
    <3>3. ring_pnt_2 # 0
      <4>1. word[0].loop \in Nat
        BY <1>1, <1>3
      <4> QED
        BY <1>1, <1>3, <3>2, <4>1 DEF OrderParts, FirstEntry
    <3>4. s # Len(written) + 1
      BY <1>2, <1>3, <3>3 DEF Slot
    <3> QED
      BY <1>3, <2>2, <3>4 DEF Published
  <2> QED
    BY <2>1, <2>2
<1> QED
  BY <1>1, <1>2, <1>4, <1>5

\* Setting the reader back puts it where the hook is.
LEMMA ResyncKept ==
  ASSUME TypeInv, Mutex, OrderParts, Regular, ReaderTypeOK, ReaderParts, Pace # "free",
         UNCHANGED hookVars, BufferOverwrite \/ LoopOverwrite
  PROVE  ReaderParts' /\ BufferOverwrite
<1>1. PICK j \in Places1 : At(j) /\ Unread(j) /\ Follows(j) /\ InStep(j)
  BY DEF ReaderParts, KeepsUp
<1>2. BufferOverwrite
  BY <1>1, Loaded DEF LoopOverwrite, BufferOverwrite
<1>3. PICK s \in Places1 : /\ j < s /\ s <= Published + 1
                           /\ Off(s) = 0 /\ Slot(s) = 0 /\ Lap(s) = lap
  BY <1>1, <1>2, ResyncPosition
<1>4. /\ Pace = "ahead" /\ buf_pnt' = 0 /\ ring_pnt' = 0 /\ ring_loop' = lap
      /\ rpc' = "returned" /\ gap' = TRUE /\ taken' = taken
  BY <1>1, <1>2, ResyncPosition DEF BufferOverwrite, Resync
<1>5. /\ s \in Nat /\ j \in Nat /\ s >= 1 /\ Published \in Nat /\ lap \in Nat
      /\ DOMAIN written = 1 .. Len(written)
  BY <1>1, NextPacketToRead DEF Places1
<1>6. At(s)'
  <2>1. s \in 1 .. Published' + 1
    BY <1>3, <1>5, DriverStays
  <2> QED
    BY <1>3, <1>4, <2>1, DriverStays DEF At
<1>7. Unread(s)'
  <2>1. \A k \in DOMAIN written : k >= s => k >= j
    BY <1>3, <1>5
  <2> QED
    BY <1>1, <2>1, DriverStays DEF Unread, Holds
<1>8. Follows(s)'
  <2>1. PICK p \in 0 .. Len(written) : LastTaken(p) /\ p < j
    BY <1>1 DEF Follows
  <2>2. LastTaken(p)' /\ p < s /\ p \in 0 .. Len(written')
    BY <1>3, <1>4, <1>5, <2>1, DriverStays DEF LastTaken
  <2> QED
    BY <1>4, <2>2 DEF Follows
<1>9. InStep(s)'
  BY <1>4 DEF InStep
<1>10. Paced'
  BY <1>4, <1>5, DriverStays DEF Paced, Room
<1> QED
  BY <1>2, <1>3, <1>6, <1>7, <1>8, <1>9, <1>10, DriverStays DEF ReaderParts, KeepsUp

-----------------------------------------------------------------------------
(* The invariant.                                                          *)

\* The invariant of the reader at the start.
LEMMA ReaderInit0 == Init => ReaderInv
<1> SUFFICES ASSUME Init PROVE ReaderParts
  BY DEF ReaderInv, ReaderParts
<1>1. /\ written = <<>> /\ Len(written) = 0 /\ DOMAIN written = {} /\ lap = 0
      /\ buf_pnt_2 = 0 /\ ring_pnt_2 = 0 /\ ~ AtTail /\ \A c \in CPUs : pc[c] = "idle"
  BY DEF Init, HookInit, AtTail
<1>2. /\ rpc = "returned" /\ buf_pnt = 0 /\ ring_pnt = 0 /\ ring_loop = 0 /\ taken = <<>>
      /\ gap = FALSE /\ theErrorFlag = {"EndOfEventMissing"}
  BY DEF Init, ReaderInit
<1>3. Published = 0 /\ Places1 = {1} /\ Off(1) = 0 /\ Slot(1) = 0 /\ Lap(1) = 0
  BY <1>1 DEF Published, Places1, Off, Slot, Lap
<1>4. At(1)
  BY <1>1, <1>2, <1>3 DEF At
<1>5. Unread(1) /\ Follows(1)
  BY <1>1, <1>2 DEF Unread, Follows, LastTaken
<1>6. InStep(1)
  BY <1>1, <1>2 DEF InStep, NoFalseAlarm
<1>7. Paced
  BY <1>1, <1>2 DEF Paced, Filling
<1> QED
  BY <1>3, <1>4, <1>5, <1>6, <1>7 DEF ReaderParts, KeepsUp

(* What is known of every reachable state.                                 *)
SpyInv == TypeInv /\ DataInv /\ OrderInv /\ OnceInv /\ ReaderTypes /\ ReaderInv

\* Every step keeps the invariant of the reader.
LEMMA ReaderNext ==
  ASSUME SpyInv, OrderInv', [Next]_vars
  PROVE  ReaderInv'
<1> SUFFICES ASSUME Regular', Pace # "free" PROVE ReaderParts'
  BY DEF ReaderInv, ReaderParts
<1>1. [DriverNext]_hookVars
  BY DriverPart
<1>2. Regular /\ resets' = resets
  BY <1>1, RegularFalls DEF SpyInv
<1>3. /\ TypeInv /\ DataInv /\ OrderInv /\ OrderParts /\ Mutex /\ ReaderTypeOK /\ ReaderParts
      /\ resets = 0 /\ resets \in Nat /\ reset = "no" /\ rpc # "ioctl"
  BY <1>2 DEF SpyInv, OrderInv, OrderParts, DataInv, Undisturbed, ReaderTypes, ReaderInv, ReaderParts,
              Paced, Regular
<1>4. CASE Arrivals \/ DisableBlock \/ (\E c \in CPUs : Hook(c)) \/ UNCHANGED vars
  BY <1>2, <1>3, <1>4, DriverKept
<1>5. CASE Read
  <2>1. UNCHANGED hookVars
    BY <1>5 DEF Read
  <2>2. CASE BufferOverwrite \/ LoopOverwrite
    BY <1>2, <1>3, <2>1, <2>2, ResyncKept
  <2>3. CASE Consume
    BY <1>2, <1>3, <2>1, <2>3, ConsumeKept
  <2>4. CASE Timeout \/ Idle \/ SeeData \/ ReadWord \/ ReadLength
    BY <1>2, <1>3, <2>1, <2>4, LookKept
  <2> QED
    BY <1>5, <2>2, <2>3, <2>4 DEF Read, ReadStep
<1>6. CASE Reenter
  BY <1>2, <1>3, <1>6, LookKept DEF Reenter
<1>7. CASE StartReset \/ Reset
  BY <1>2, <1>3, <1>7
     DEF StartReset, Reset, ResetBuf, ResetRing, ResetLoop, ResetProc, ResetTail, EndReset
<1>8. CASE \E c \in CPUs : RacedHook(c)
  BY <1>2, <1>3, <1>8, MutexRaced DEF SpyInv, RacedHook
<1> QED
  BY <1>4, <1>5, <1>6, <1>7, <1>8 DEF Next

(* It holds at every pace but "free", where it says nothing of the reader. *)
THEOREM SpyInvariant == Spec => []SpyInv
<1>1. Init => SpyInv
  BY TypeInit, DataInit, OrderInit, OnceInit, ReaderTypeInit, ReaderInit0 DEF Init, SpyInv
<1>2. SpyInv /\ [Next]_vars => SpyInv'
  <2> SUFFICES ASSUME SpyInv, [Next]_vars PROVE SpyInv'
    OBVIOUS
  <2>1. [DriverNext]_hookVars
    BY DriverPart
  <2>2. TypeInv' /\ DataInv' /\ OrderInv' /\ OnceInv'
    BY <2>1, TypeNext, DataNext, OrderNext, OnceNext DEF SpyInv
  <2>3. ReaderTypes' /\ ReaderInv'
    BY <2>2, ReaderTypeNext, ReaderNext DEF SpyInv
  <2> QED
    BY <2>2, <2>3 DEF SpyInv
<1> QED
  BY <1>1, <1>2, PTL DEF Spec

(* A reader in the driver's lap reads each packet once, in the order they  *)
(* were written and none left out, whatever the sizes and however often    *)
(* the driver comes round (readDDU moves and wraps as netif_rx_hook_2).    *)
THEOREM TakenInOrder ==
  ASSUME Pace = "samelap"
  PROVE  Spec => [](Regular => InOrder)
<1>1. SpyInv => (Regular => InOrder)
  <2> SUFFICES ASSUME SpyInv, Regular PROVE InOrder
    OBVIOUS
  <2>1. PICK j \in Places1 : InStep(j)
    BY DEF SpyInv, ReaderInv, KeepsUp
  <2>2. Len(written) \in Nat /\ Len(taken) \in Nat
    <3>1. TypeInv /\ taken \in Seq(Nat)
      BY DEF SpyInv, ReaderTypes, ReaderTypeOK
    <3> QED
      BY <3>1, WrittenFacts
  <2> QED
    BY <2>1, <2>2 DEF InStep, InOrder, Places1
<1> QED
  BY <1>1, SpyInvariant, PTL

(* And it is never told that it was overtaken (the two comparisons of loop *)
(* counts in readDDU give no false alarm).                                 *)
THEOREM NeverAlarmed ==
  ASSUME Pace = "samelap"
  PROVE  Spec => [](Regular => NoFalseAlarm)
<1>1. SpyInv => (Regular => NoFalseAlarm)
  BY DEF SpyInv, ReaderInv, KeepsUp, InStep
<1> QED
  BY <1>1, SpyInvariant, PTL

-----------------------------------------------------------------------------
(* The stream of packets that a reader gets implements LossyStream.        *)

\* The maximum of zero and a number is the number.
LEMMA MaxOfTwo ==
  ASSUME NEW p \in Nat
  PROVE  Max({0, p}) = p
<1>1. \A x \in {0, p} : (\A y \in {0, p} : x >= y) <=> x = p
  OBVIOUS
<1>2. Max({0, p}) = CHOOSE x \in {0, p} : \A y \in {0, p} : x >= y
  BY DEF Max
<1>3. (CHOOSE x \in {0, p} : \A y \in {0, p} : x >= y) = p
  BY <1>1
<1> QED
  BY <1>2, <1>3

(* A packet is found by its id.                                            *)
LEMMA PositionOf ==
  ASSUME NEW w, NEW t, NEW n \in Nat, DOMAIN w = 1 .. n, NEW p \in 0 .. n,
         IF t = <<>> THEN p = 0 ELSE p \in DOMAIN w /\ t[Len(t)] = w[p].id,
         \A i, k \in DOMAIN w : w[i].id = w[k].id => i = k
  PROVE  p = IF t = <<>> THEN 0
             ELSE Max({0} \cup {k \in DOMAIN w : w[k].id = t[Len(t)]})
<1>1. CASE t = <<>>
  BY <1>1
<1>2. CASE t # <<>>
  <2>1. {0} \cup {k \in DOMAIN w : w[k].id = t[Len(t)]} = {0, p}
    BY <1>2
  <2> QED
    BY <1>2, <2>1, MaxOfTwo
<1> QED
  BY <1>1, <1>2

\* The reader's position is that of the last packet it has taken.
LEMMA PositionNow ==
  ASSUME SpyInv, NEW p \in 0 .. Len(written), LastTaken(p)
  PROVE  Position = p
<1>1. Len(written) \in Nat /\ DOMAIN written = 1 .. Len(written)
  BY DEF SpyInv, TypeInv, HookTypeOK
<1>2. \A i, k \in DOMAIN written : written[i].id = written[k].id => i = k
  BY DEF SpyInv, OnceInv, Distinct
<1> QED
  BY <1>1, <1>2, PositionOf DEF LastTaken, Position

\* So it is after a step.
LEMMA PositionThen ==
  ASSUME SpyInv', NEW p \in 0 .. Len(written'), LastTaken(p)'
  PROVE  Position' = p
<1>1. Len(written') \in Nat /\ DOMAIN written' = 1 .. Len(written')
  BY WrittenFactsThen DEF SpyInv
<1>2. \A i, k \in DOMAIN written' : written'[i].id = written'[k].id => i = k
  BY DEF SpyInv, OnceInv, Distinct
<1> QED
  BY <1>1, <1>2, PositionOf DEF LastTaken, Position

\* What the invariant says of the packets written.
LEMMA SpyFacts ==
  ASSUME SpyInv
  PROVE  /\ TypeInv /\ Mutex /\ OrderInv /\ ReaderTypeOK
         /\ Len(written) \in Nat /\ DOMAIN written = 1 .. Len(written) /\ taken \in Seq(Nat)
         /\ \A k \in DOMAIN written : written[k].id \in 1 .. MaxSent
<1>1. TypeInv /\ Mutex /\ OrderInv /\ ReaderTypeOK
  BY DEF SpyInv, DataInv, ReaderTypes
<1>2. Len(written) \in Nat /\ DOMAIN written = 1 .. Len(written) /\ taken \in Seq(Nat)
  BY <1>1 DEF TypeInv, HookTypeOK, ReaderTypeOK
<1>3. ASSUME NEW k \in DOMAIN written PROVE written[k].id \in 1 .. MaxSent
  <2>1. written[k] \in Entries
    BY <1>1, <1>3, EntryFacts
  <2> QED
    BY <2>1 DEF Entries
<1> QED
  BY <1>1, <1>2, <1>3

(* The reader's place among the packets written.                           *)
LEMMA PlaceNow ==
  ASSUME SpyInv, Regular, Pace # "free"
  PROVE  \E j \in Places1 :
           At(j) /\ InStep(j) /\ Position \in 0 .. Len(written) /\ Position < j
                 /\ (gap \/ j = Position + 1)
<1>1. PICK j \in Places1 : At(j) /\ Follows(j) /\ InStep(j)
  BY DEF SpyInv, ReaderInv, KeepsUp
<1>2. PICK p \in 0 .. Len(written) : LastTaken(p) /\ p < j /\ (gap \/ j = p + 1)
  BY <1>1 DEF Follows
<1>3. Position = p
  BY <1>2, PositionNow
<1> QED
  BY <1>1, <1>2, <1>3

\* The reader has a position, if it takes packets in order.
LEMMA LastTakenNow ==
  ASSUME SpyInv, Regular, Pace # "free"
  PROVE  Position \in 0 .. Len(written) /\ LastTaken(Position)
<1>1. PICK p \in 0 .. Len(written) : LastTaken(p)
  BY DEF SpyInv, ReaderInv, KeepsUp, Follows
<1>2. Position = p
  BY <1>1, PositionNow
<1> QED
  BY <1>1, <1>2

(* A step that neither writes nor takes a packet nor finds an overwrite.   *)
LEMMA StreamStutters ==
  ASSUME UNCHANGED <<written, taken, gap>>
  PROVE  UNCHANGED Stream!vars
<1>1. Position' = Position
  BY DEF Position
<1>2. [k \in DOMAIN written |-> written[k].id]' = [k \in DOMAIN written |-> written[k].id]
  OBVIOUS
<1> QED
  BY <1>1, <1>2 DEF Stream!vars

(* The driver enters a packet: Send.                                       *)
LEMMA AdvanceSends ==
  ASSUME SpyInv, SpyInv', Regular, Pace # "free", NEW c \in CPUs, Advance(c), UNCHANGED readerVars
  PROVE  Stream!Send
<1>0. PICK W \in Nat : W = Len(written)
  BY SpyFacts
<1>1. /\ DOMAIN written = 1 .. W /\ DOMAIN written' = 1 .. W + 1 /\ Len(written') = W + 1
      /\ \A k \in 1 .. W : written'[k] = written[k]
      /\ written'[W + 1] = EntryOf(skb[c], masks[c], buf_pnt_2, ring_pnt_2, ring_loop_2)
  BY <1>0, Moves, SpyFacts
<1>2. taken' = taken /\ gap' = gap
  BY DEF readerVars
<1>3. Position' = Position
  <2>1. Position \in 0 .. W /\ LastTaken(Position)
    BY <1>0, LastTakenNow
  <2>2. PICK q \in 0 .. W : q = Position /\ LastTaken(q)
    BY <2>1
  <2>3. q \in 0 .. Len(written') /\ LastTaken(q)'
    BY <1>1, <1>2, <2>2 DEF LastTaken
  <2> QED
    BY <2>2, <2>3, PositionThen
<1>4. written'[W + 1].id \in 1 .. MaxSent
  <2>1. skb[c] \in Packets
    <3>1. pc[c] \in Writing /\ TypeInv
      BY SpyFacts DEF Advance, Writing
    <3> QED
      BY <3>1, PacketFacts
  <2> QED
    BY <1>1, <2>1, NewEntry DEF Packets
<1>5. [k \in DOMAIN written' |-> written'[k].id]
        = Append([k \in DOMAIN written |-> written[k].id], written'[W + 1].id)
  BY <1>0, <1>1
<1> QED
  BY <1>2, <1>3, <1>4, <1>5 DEF Stream!Send

(* The reader takes a packet: Take.                                        *)
LEMMA ConsumeTakes ==
  ASSUME SpyInv, SpyInv', Regular, Pace # "free", UNCHANGED hookVars, Consume
  PROVE  Stream!Take
<1>1. PICK j \in Places1 : At(j) /\ Position \in 0 .. Len(written) /\ Position < j
                           /\ (gap \/ j = Position + 1)
  BY PlaceNow
<1>2. /\ j \in DOMAIN written /\ taken' = Append(taken, written[j].id)
  <2>1. TypeInv /\ OrderParts
    BY SpyFacts DEF OrderInv, OrderParts
  <2> QED
    BY <1>1, <2>1, ConsumePosition
<1>3. /\ Len(written) \in Nat /\ DOMAIN written = 1 .. Len(written) /\ written' = written
      /\ gap' = FALSE /\ j \in 1 .. Len(written)
  BY <1>2, DriverStays, SpyFacts DEF Consume
<1>4. Position' = j
  <2>1. taken' # <<>> /\ taken'[Len(taken')] = written[j].id
    BY <1>2, SpyFacts
  <2>2. j \in 0 .. Len(written') /\ LastTaken(j)'
    BY <1>2, <1>3, <2>1 DEF LastTaken
  <2> QED
    BY <2>2, PositionThen
<1>5. Len([k \in DOMAIN written |-> written[k].id]) = Len(written)
  BY <1>3
<1>6. j \in Position + 1 .. Len([k \in DOMAIN written |-> written[k].id])
  BY <1>1, <1>3, <1>5
<1> QED
  BY <1>1, <1>3, <1>4, <1>6 DEF Stream!Take

(* The reader finds itself overtaken: Tell.                                *)
LEMMA ResyncTells ==
  ASSUME UNCHANGED hookVars, BufferOverwrite \/ LoopOverwrite
  PROVE  Stream!Tell
<1>1. taken' = taken /\ gap' = TRUE
  BY DEF BufferOverwrite, LoopOverwrite, Resync
<1>2. written' = written
  BY DriverStays
<1>3. Position' = Position
  BY <1>1, <1>2 DEF Position
<1> QED
  BY <1>1, <1>2, <1>3 DEF Stream!Tell

\* Every step is one of the lossy stream, or changes nothing of it.
LEMMA StreamNext ==
  ASSUME SpyInv, SpyInv', Regular, Regular', Pace # "free", [Next]_vars
  PROVE  [Stream!Next]_(Stream!vars)
<1>1. /\ rpc # "ioctl" /\ resets' = resets /\ resets = 0 /\ resets \in Nat /\ reset = "no"
  <2>1. resets' = resets
    BY DriverPart, RegularFalls DEF SpyInv
  <2> QED
    BY <2>1 DEF SpyInv, OrderInv, OrderParts, DataInv, Undisturbed, ReaderInv, Paced, Regular,
                TypeInv, HookTypeOK
<1>2. CASE \E c \in CPUs : Hook(c)
  <2>1. PICK c \in CPUs : Hook(c)
    BY <1>2
  <2>2. CASE Advance(c)
    BY <2>1, <2>2, AdvanceSends DEF Hook, Stream!Next
  <2>3. CASE ~ Advance(c)
    <3>1. written' = written
      BY <2>1, <2>3 DEF Hook, PacedLock, Lock, CopyData, Classify, PutWord, PutLength, PutTail, ghosts
    <3>2. taken' = taken /\ gap' = gap
      BY <2>1 DEF Hook, readerVars
    <3> QED
      BY <3>1, <3>2, StreamStutters
  <2> QED
    BY <2>2, <2>3
<1>3. CASE Read
  <2>1. UNCHANGED hookVars
    BY <1>3 DEF Read
  <2>2. CASE Consume
    BY <2>1, <2>2, ConsumeTakes DEF Stream!Next
  <2>3. CASE BufferOverwrite \/ LoopOverwrite
    BY <2>1, <2>3, ResyncTells DEF Stream!Next
  <2>4. CASE Timeout \/ Idle \/ SeeData \/ ReadWord \/ ReadLength
    <3>1. taken' = taken /\ gap' = gap
      BY <2>4 DEF Timeout, Idle, SeeData, ReadWord, ReadLength
    <3> QED
      BY <2>1, <3>1, DriverStays, StreamStutters
  <2> QED
    BY <1>3, <2>2, <2>3, <2>4 DEF Read, ReadStep
<1>4. CASE Arrivals \/ DisableBlock
  <2>1. written' = written
    BY <1>4 DEF Arrivals, DisableBlock, Environment, Receive, Lose, SwitchPmissing,
                RaisePmissing, LowerPmissing, ghosts
  <2>2. taken' = taken /\ gap' = gap
    BY <1>4 DEF Arrivals, DisableBlock, readerVars
  <2> QED
    BY <2>1, <2>2, StreamStutters
<1>5. CASE Reenter \/ UNCHANGED vars
  <2>1. taken' = taken /\ gap' = gap /\ UNCHANGED hookVars
    BY <1>5 DEF Reenter, Call, vars, readerVars
  <2> QED
    BY <2>1, DriverStays, StreamStutters
<1>6. CASE StartReset \/ Reset
  BY <1>1, <1>6
     DEF StartReset, Reset, ResetBuf, ResetRing, ResetLoop, ResetProc, ResetTail, EndReset
<1>7. CASE \E c \in CPUs : RacedHook(c)
  BY <1>1, <1>7, MutexRaced DEF SpyInv, RacedHook
<1> QED
  BY <1>2, <1>3, <1>4, <1>5, <1>6, <1>7 DEF Next

\* The stream starts empty.
LEMMA StreamInit == Init => Stream!Init
<1> SUFFICES ASSUME Init PROVE Stream!Init
  OBVIOUS
<1>1. written = <<>> /\ taken = <<>> /\ gap = FALSE
  BY DEF Init, HookInit, ReaderInit
<1>2. [k \in DOMAIN written |-> written[k].id] = <<>>
  BY <1>1
<1>3. Position = 0
  BY <1>1 DEF Position
<1> QED
  BY <1>1, <1>2, <1>3 DEF Stream!Init

(* A reader that may fall behind, but not by a whole loop, gets a stream   *)
(* as LossyStream promises it: no packet twice or out of order, and none   *)
(* passed over without an overwrite flag (Spy::readDDU).  This is as long  *)
(* as nobody resets the driver and its loop count fits its 14 bits.        *)
THEOREM StreamImplemented ==
  ASSUME Pace # "free"
  PROVE  Spec /\ []Regular => StreamSpec
<1>1. SpyInv /\ SpyInv' /\ Regular /\ Regular' /\ [Next]_vars => [Stream!Next]_(Stream!vars)
  BY StreamNext
<1> QED
  BY <1>1, StreamInit, SpyInvariant, PTL DEF Spec, StreamSpec, Stream!Spec
=============================================================================
