----------------------------- MODULE EthDaqProofs -----------------------------
(***************************************************************************)
(* Theorems about EthDaq, for any number of CPUs and any sizes: WRITE_ETH  *)
(* stays in bounds and, within the first loop after a RESET_ETH, returns   *)
(* the packets written since then.                                         *)
(***************************************************************************)
EXTENDS EthDaq, EthHookProofs, SequenceTheorems

-----------------------------------------------------------------------------
(* The driver's part of a step is a step of the driver.                    *)

\* The library reads the driver's memory; only RESET writes to it.
LEMMA DriverPart == [Next]_vars => [DriverNext]_hookVars
<1> SUFFICES ASSUME Next PROVE DriverNext \/ UNCHANGED hookVars
  BY DEF vars
<1>1. CASE Arrivals
  BY <1>1 DEF Arrivals, DriverNext
<1>2. CASE \E c \in CPUs : Hook(c)
  BY <1>2 DEF Hook, DriverNext
<1>3. CASE StartWriteEth \/ WriteEth
  BY <1>3 DEF StartWriteEth, WriteEth
<1>4. CASE ResetEth
  BY <1>4 DEF ResetEth, DriverNext, ResetStep
<1> QED
  BY <1>1, <1>2, <1>3, <1>4 DEF Next

(* So whatever holds of the driver alone holds of it here.                 *)
LEMMA DriverAlone == Spec => DriverSpec
<1>1. Init => HookInit
  BY DEF Init
<1> QED
  BY <1>1, DriverPart, PTL DEF Spec, DriverSpec

-----------------------------------------------------------------------------
(* Type correctness of WRITE_ETH.                                          *)

(* A tuple of n numbers.                                                   *)
LEMMA Tuple ==
  ASSUME NEW n \in Nat, NEW f \in [1 .. n -> Nat]
  PROVE  f \in Seq(Nat)
  BY SeqDef

\* The types at the start.
LEMMA LibTypeInit == Init => LibTypeOK
<1>1. EntryWord(0, FALSE, FALSE, 0) \in Words
  BY EntryWordType
<1>2. 0 \in 0 .. BufEnd /\ 0 \in Slots /\ 0 \in 0 .. LoopRange - 1 /\ 0 \in 0 .. MaxPacket
  BY RingAssumption DEF BufEnd, Slots, LoopRange
<1>3. <<>> \in Seq(Nat) /\ <<>> \in Seq([id : Nat, got : Seq(Nat), bytes : Seq(Nat)])
  OBVIOUS
<1> QED
  BY <1>1, <1>2, <1>3 DEF Init, LibInit, LibTypeOK

(* It follows whatever entry it has read no further than a packet fits     *)
(* into the data area and an entry into the ring.                          *)
LEMMA ConsumeTypes ==
  ASSUME TypeInv, LibTypeOK, Consume
  PROVE  LibTypeOK'
<1> DEFINE pnt  == buf_pnt + entryLen
           slot == ring_pnt + 1
<1>1. /\ pnt \in Nat /\ slot \in Nat
      /\ ring_loop \in Nat /\ LoopRange \in Nat \ {0}
      /\ 0 \in 0 .. BufEnd /\ 0 \in Slots
  BY RingAssumption DEF LibTypeOK, BufEnd, Slots, LoopRange
<1>2. buf_pnt' \in 0 .. BufEnd /\ ring_pnt' \in Slots
  <2>1. CASE WrapsAt(TakesForEnd, pnt, slot)
    BY <2>1, <1>1 DEF Consume
  <2>2. CASE ~ WrapsAt(TakesForEnd, pnt, slot)
    <3>1. pnt \in 0 .. BufEnd /\ slot \in Slots
      BY <2>2, <1>1, NoWrapInBounds DEF TakesForEnd
    <3> QED
      BY <2>2, <3>1 DEF Consume
  <2> QED
    BY <2>1, <2>2
<1>3. ring_loop' \in 0 .. LoopRange - 1
  <2>1. (ring_loop + 1) % LoopRange \in 0 .. LoopRange - 1
    BY <1>1, ModBound
  <2> QED
    BY <2>1 DEF Consume, LibTypeOK
<1> QED
  BY <1>2, <1>3 DEF Consume, LibTypeOK, loaded, output

(* The bytes it copies lie in the data area.                               *)
LEMMA CopyTypes ==
  ASSUME TypeInv, LibTypeOK, Copy
  PROVE  LibTypeOK'
<1> DEFINE got   == [u \in 1 .. entryLen |-> mem[buf_data + u - 1]]
           bytes == [u \in 1 .. entryLen |-> IF u <= Len(rbuf') THEN rbuf'[u] ELSE 0]
<1>1. got \in Seq(Nat)
  <2>1. entryLen \in Nat
    BY RingAssumption DEF LibTypeOK
  <2>2. ASSUME NEW u \in 1 .. entryLen PROVE mem[buf_data + u - 1] \in Nat
    <3>1. buf_data + u - 1 \in Units
      BY <2>2, RingAssumption DEF LibTypeOK, BufEnd, Units
    <3> QED
      BY <3>1 DEF TypeInv, HookTypeOK, ShmTypeOK
  <2>3. got \in [1 .. entryLen -> Nat]
    BY <2>2
  <2> QED
    BY <2>1, <2>3, Tuple
<1>2. CASE entryLen = 0
  BY <1>2 DEF Copy, LibTypeOK, position, loaded
<1>3. CASE entryLen # 0
  <2>1. rbuf' = IF file = <<>> THEN got ELSE rbuf
    BY <1>3 DEF Copy
  <2>2. rbuf' \in Seq(Nat)
    BY <1>1, <2>1 DEF LibTypeOK
  <2>3. bytes \in Seq(Nat)
    <3>1. entryLen \in Nat
      BY RingAssumption DEF LibTypeOK
    <3>2. bytes \in [1 .. entryLen -> Nat]
      BY <2>2
    <3> QED
      BY <3>1, <3>2, Tuple
  <2>4. file' = Append(file, [ id |-> entry.id, got |-> got, bytes |-> bytes ])
    BY <1>3 DEF Copy
  <2>5. entry.id \in Nat
    BY DEF LibTypeOK, Words
  <2>6. file' \in Seq([id : Nat, got : Seq(Nat), bytes : Seq(Nat)])
    <3>1. [ id |-> entry.id, got |-> got, bytes |-> bytes ] \in [id : Nat, got : Seq(Nat), bytes : Seq(Nat)]
      BY <1>1, <2>3, <2>5
    <3> HIDE DEF got, bytes
    <3> QED
      BY <2>4, <3>1 DEF LibTypeOK
  <2> QED
    BY <1>3, <2>2, <2>6 DEF Copy, LibTypeOK, position, loaded
<1> QED
  BY <1>2, <1>3

\* Every step keeps the types.
LEMMA LibTypeNext ==
  ASSUME TypeInv, LibTypeOK, [Next]_vars
  PROVE  LibTypeOK'
<1>1. CASE UNCHANGED libVars
  BY <1>1 DEF LibTypeOK, libVars, position, loaded, output
<1>2. CASE StartWriteEth
  <2>1. 0 \in 0 .. BufEnd /\ 0 \in Slots /\ 0 \in 0 .. LoopRange - 1
    BY RingAssumption DEF BufEnd, Slots, LoopRange
  <2>2. <<>> \in Seq(Nat) /\ <<>> \in Seq([id : Nat, got : Seq(Nat), bytes : Seq(Nat)])
    OBVIOUS
  <2> QED
    BY <1>2, <2>1, <2>2 DEF StartWriteEth, Open, OpenFails, LibTypeOK, position, loaded
<1>3. CASE SkipRead \/ NoData \/ SeeData
  <2>1. tail \in 0 .. BufEnd
    BY DEF TypeInv, HookTypeOK, ShmTypeOK
  <2> QED
    BY <1>3, <2>1 DEF SkipRead, NoData, SeeData, LibTypeOK, position, output
<1>4. CASE ReadWord \/ ReadLength
  <2>1. word[ring_pnt] \in Words /\ length[ring_pnt] \in 0 .. MaxPacket
    BY DEF TypeInv, HookTypeOK, ShmTypeOK, LibTypeOK
  <2> QED
    BY <1>4, <2>1 DEF ReadWord, ReadLength, LibTypeOK, position, output
<1>5. CASE Overwritten
  <2>1. word[0].loop \in 0 .. LoopMod - 1 /\ 0 \in Slots /\ 0 \in 0 .. BufEnd
        /\ \A i \in 0 .. LoopMod - 1 : i \in 0 .. LoopRange - 1
    <3>1. word \in [Slots -> Words] /\ 0 \in Slots /\ 0 \in 0 .. BufEnd
      BY RingAssumption DEF TypeInv, HookTypeOK, ShmTypeOK, Slots, BufEnd
    <3>2. word[0].loop \in 0 .. LoopMod - 1
      BY <3>1 DEF Words
    <3>3. \A i \in 0 .. LoopMod - 1 : i \in 0 .. LoopRange - 1
      BY RingAssumption DEF LoopRange
    <3> QED
      BY <3>1, <3>2, <3>3
  <2> QED
    BY <1>5, <2>1 DEF Overwritten, LibTypeOK, loaded, output
<1>6. CASE WriteEth
  BY <1>3, <1>4, <1>5, <1>6, ConsumeTypes, CopyTypes DEF WriteEth, LibStep
<1> QED
  BY <1>1, <1>2, <1>6 DEF Next, Arrivals, Hook, ResetEth, vars

(* RESET_ETH and WRITE_ETH keep their types whatever the driver does       *)
(* meanwhile: WRITE_ETH reads no byte outside the data area and no entry   *)
(* outside the ring, however stale its position (eth_readmm).              *)
THEOREM EthDaqTypeCorrect == Spec => []TypeOK
<1>1. Spec => []TypeInv
  BY DriverAlone, TypeInvariant, PTL
<1>2. TypeInv /\ LibTypeOK => TypeOK
  BY DEF TypeInv, TypeOK
<1> QED
  BY <1>1, <1>2, LibTypeInit, LibTypeNext, PTL DEF Spec

-----------------------------------------------------------------------------
(* The packets since the last reset. In the driver's loop 0 its ring       *)
(* position counts them.                                                   *)

Start == Len(written) - ring_pnt_2

Since(k) == written[Start + k]

(* Where the k-th of them ends, and the next begins.                       *)
Reach(k) == IF k = 0 THEN 0 ELSE Since(k).off + Since(k).len

Pushing == \E c \in CPUs : pc[c] = "tail"

(* How many of them the tail word shows.                                   *)
Shown == IF Pushing THEN ring_pnt_2 - 1 ELSE ring_pnt_2

InLoop0 == lap < LoopRange /\ reset = "no" /\ ring_loop_2 = 0

(* RESET_ETH is not issued while a packet or WRITE_ETH is on its way.      *)
Resetting ==
  /\ reset # "no" => rpc = "closed" /\ \A c \in CPUs : pc[c] \notin Writing
  /\ reset \in {"loop", "proc", "tail"} => buf_pnt_2 = 0 /\ ring_pnt_2 = 0
  /\ reset \in {"proc", "tail"} => ring_loop_2 = 0
  /\ reset = "ring" => buf_pnt_2 = 0

LoopCounts == lap < LoopRange => ring_loop_2 <= lap

Flags ==
  /\ flag_eevent_2
  /\ \A c \in CPUs : pc[c] \in {"word", "length", "advance"} =>
       masks[c].eevent = EndsEvent(skb[c])

(* They follow each other from the start of the data area and of the ring, *)
(* the driver did not go back after any of them, and all are in memory.    *)
Laid ==
  /\ ring_pnt_2 <= Len(written)
  /\ buf_pnt_2 = Reach(ring_pnt_2)
  /\ \A k \in 1 .. ring_pnt_2 :
       /\ Since(k).loop = 0 /\ Since(k).slot = k - 1 /\ Since(k).off = Reach(k - 1)
       /\ Reach(k) <= buf_pnt_2
       /\ ~ WrapsAt(Since(k).eevent, Reach(k), k)
       /\ Since(k).ends => Since(k).eevent
       /\ Holds(Start + k)
  /\ \A i, k \in 1 .. ring_pnt_2 : i < k => Reach(i) <= Since(k).off

Published0 == (Pushing => ring_pnt_2 > 0) /\ tail = Reach(Shown)

Loop0Parts == Laid /\ Published0 /\ DataInPlace /\ WordInPlace /\ LengthInPlace

(* What WRITE_ETH has written are the first packets since the reset, and   *)
(* the one it is about to copy is the next.                                *)
FileRight ==
  /\ Len(file) <= Shown
  /\ \A k \in DOMAIN file :
       file[k].id = Since(k).id /\ file[k].got = [u \in 1 .. Since(k).len |-> Since(k).id]

InHand ==
  rpc = "copy" =>
    LET k == Len(file) + 1
    IN  /\ k <= Shown
        /\ buf_data = Since(k).off /\ entryLen = Since(k).len /\ entry.id = Since(k).id

(* Its position is at the next packet,                                     *)
OnTrack ==
  LET k == ring_pnt + 1
  IN  /\ ring_loop = 0
      /\ ring_pnt = Len(file) + (IF rpc = "copy" THEN 1 ELSE 0)
      /\ buf_pnt = Reach(ring_pnt)
      /\ rpc \in {"word", "length", "loop"} => k <= Shown
      /\ rpc \in {"length", "loop"} => entry.loop = 0 /\ entry.id = Since(k).id
      /\ rpc = "loop" => entryLen = Since(k).len

(* or it went back where the driver did not, after a packet that ended no  *)
(* event; it takes no more packets then.                                   *)
OffTrack ==
  /\ ring_loop = 1 /\ ring_pnt = 0 /\ buf_pnt = 0
  /\ \E k \in 1 .. Shown : ~ Since(k).eevent
  /\ rpc \in {"length", "loop"} => entry.loop = 0

Reading == rpc # "closed" => FileRight /\ InHand /\ (OnTrack \/ OffTrack)

RecentInv ==
  /\ Resetting /\ LoopCounts /\ Flags
  /\ InLoop0 => Loop0Parts /\ Reading

-----------------------------------------------------------------------------
(* What follows from the layout.                                           *)

\* The packets since the last reset are the last ones written.
LEMMA SinceFacts ==
  ASSUME TypeInv, Laid
  PROVE  /\ Len(written) \in Nat /\ DOMAIN written = 1 .. Len(written) /\ ring_pnt_2 \in Nat
         /\ Start \in Nat /\ Start + ring_pnt_2 = Len(written)
         /\ \A k \in 1 .. ring_pnt_2 :
              /\ k \in Nat /\ Start + k \in DOMAIN written
              /\ Since(k).off \in Nat /\ Since(k).len \in Nat \ {0} /\ Since(k).id \in Nat
              /\ Since(k).ends \in BOOLEAN /\ Since(k).eevent \in BOOLEAN
              /\ Reach(k) = Since(k).off + Since(k).len
              /\ Reach(k) \in Nat \ {0}
<1>1. /\ Len(written) \in Nat /\ DOMAIN written = 1 .. Len(written)
      /\ ring_pnt_2 \in Nat /\ Start \in Nat /\ Start + ring_pnt_2 = Len(written)
  BY RingAssumption DEF TypeInv, HookTypeOK, Slots, Laid, Start
<1>2. ASSUME NEW k \in 1 .. ring_pnt_2
      PROVE  /\ k \in Nat /\ Start + k \in DOMAIN written
             /\ Since(k).off \in Nat /\ Since(k).len \in Nat \ {0} /\ Since(k).id \in Nat
             /\ Since(k).ends \in BOOLEAN /\ Since(k).eevent \in BOOLEAN
             /\ Reach(k) = Since(k).off + Since(k).len
             /\ Reach(k) \in Nat \ {0}
  <2>1. k \in Nat /\ k # 0 /\ Start + k \in DOMAIN written
    BY <1>1
  <2>2. /\ Since(k) \in Entries /\ Since(k).off \in 0 .. BufEnd /\ Since(k).len \in 1 .. MaxPacket
    BY <2>1, EntryFacts DEF Since
  <2>3. Since(k).off \in Nat /\ Since(k).len \in Nat \ {0}
    BY <2>2, RingAssumption DEF BufEnd
  <2>4. Since(k).id \in Nat /\ Since(k).ends \in BOOLEAN /\ Since(k).eevent \in BOOLEAN
    BY <2>2, HookAssumption DEF Entries
  <2>5. Reach(k) = Since(k).off + Since(k).len
    BY <2>1 DEF Reach
  <2> QED
    BY <2>1, <2>3, <2>4, <2>5
<1> QED
  BY <1>1, <1>2

(* The ends of the packets rise.                                           *)
LEMMA ReachRises ==
  ASSUME TypeInv, Laid, NEW i \in 0 .. ring_pnt_2, NEW k \in 0 .. ring_pnt_2
  PROVE  /\ Reach(i) \in Nat /\ Reach(k) \in Nat
         /\ i < k => Reach(i) < Reach(k)
         /\ Reach(i) = Reach(k) => i = k
<1>1. \A j \in 0 .. ring_pnt_2 : j = 0 \/ j \in 1 .. ring_pnt_2
  BY SinceFacts
<1>2. Reach(0) = 0
  BY DEF Reach
<1>3. \A j \in 0 .. ring_pnt_2 : Reach(j) \in Nat
  BY <1>1, <1>2, SinceFacts
<1>4. ASSUME NEW a \in 0 .. ring_pnt_2, NEW b \in 0 .. ring_pnt_2, a < b PROVE Reach(a) < Reach(b)
  <2>1. b \in 1 .. ring_pnt_2
    BY <1>4, SinceFacts
  <2>2. CASE a = 0
    BY <2>1, <2>2, <1>2, SinceFacts
  <2>3. CASE a # 0
    <3>1. a \in 1 .. ring_pnt_2
      BY <2>3, <1>1
    <3>2. Reach(a) <= Since(b).off
      BY <2>1, <3>1, <1>4 DEF Laid
    <3>3. Reach(a) \in Nat
      BY <1>3
    <3>4. Since(b).off \in Nat /\ Since(b).len \in Nat \ {0} /\ Reach(b) = Since(b).off + Since(b).len
      BY <2>1, SinceFacts
    <3> QED
      BY <3>2, <3>3, <3>4
  <2> QED
    BY <2>2, <2>3
<1>5. i < k \/ k < i \/ i = k
  BY SinceFacts
<1> QED
  BY <1>3, <1>4, <1>5

(* Steps that write and move nothing leave all this alone.                 *)
LEMMA SinceStays ==
  ASSUME UNCHANGED <<written, ring_pnt_2>>
  PROVE  /\ Start' = Start
         /\ \A k : Since(k)' = Since(k) /\ Reach(k)' = Reach(k)
  BY DEF Start, Since, Reach

\* Packets stay where they are while their bytes do.
LEMMA LaidStays ==
  ASSUME Laid, UNCHANGED <<written, positions>>,
         \A k \in 1 .. ring_pnt_2 : Holds(Start + k)'
  PROVE  Laid'
<1>1. UNCHANGED <<written, buf_pnt_2, ring_pnt_2, ring_loop_2>>
  BY DEF positions
<1> QED
  BY <1>1, SinceStays DEF Laid

\* So do they when nothing is written.
LEMMA MemoryStays ==
  ASSUME Laid, UNCHANGED <<mem, word, length, written, positions>>
  PROVE  Laid'
<1>1. UNCHANGED <<mem, word, length, written, ring_pnt_2>>
  BY DEF positions
<1>2. ASSUME NEW k \in 1 .. ring_pnt_2 PROVE Holds(Start + k)'
  <2>1. Holds(Start + k)
    BY DEF Laid
  <2>2. Start' = Start
    BY <1>1, SinceStays
  <2> QED
    BY <1>1, <2>1, <2>2 DEF Holds
<1> QED
  BY <1>2, LaidStays

\* What the ring shows changes only with its pointer.
LEMMA ShownStays ==
  ASSUME UNCHANGED ring_pnt_2, Pushing' = Pushing
  PROVE  Shown' = Shown
  BY DEF Shown

(* The driver leaves the readers where they are, and only adds packets.    *)
LEMMA ReadingStays ==
  ASSUME TypeInv, Laid, Reading, LibTypeOK, UNCHANGED libVars, Start' = Start,
         Shown \in 0 .. ring_pnt_2, Shown' \in {Shown, Shown + 1},
         \A k \in 1 .. ring_pnt_2 : Since(k)' = Since(k)
  PROVE  Reading'
<1>1. UNCHANGED <<rpc, buf_pnt, ring_pnt, ring_loop, entry, entryLen, buf_data, file>>
  BY DEF libVars, position, loaded, output
<1>2. Shown \in Nat /\ Shown <= Shown' /\ Shown' \in Nat /\ ring_pnt_2 \in Nat
  BY SinceFacts
<1>3. SUFFICES ASSUME rpc # "closed"
               PROVE  FileRight' /\ InHand' /\ (OnTrack' \/ OffTrack')
  BY <1>1 DEF Reading
<1>4. Len(file) \in Nat /\ DOMAIN file = 1 .. Len(file) /\ ring_pnt \in Nat
  BY RingAssumption DEF LibTypeOK, Slots
<1>5. FileRight'
  <2>1. Len(file) <= Shown
    BY <1>3 DEF Reading, FileRight
  <2>2. \A k \in DOMAIN file : Since(k)' = Since(k)
    BY <2>1, <1>2, <1>4
  <2> QED
    BY <1>1, <1>2, <1>3, <1>4, <2>1, <2>2 DEF Reading, FileRight
<1>6. InHand'
  <2> SUFFICES ASSUME rpc = "copy" PROVE InHand'
    BY <1>1 DEF InHand
  <2>1. /\ Len(file) + 1 <= Shown
        /\ buf_data = Since(Len(file) + 1).off /\ entryLen = Since(Len(file) + 1).len
        /\ entry.id = Since(Len(file) + 1).id
    BY <1>3 DEF Reading, InHand
  <2>2. Since(Len(file) + 1)' = Since(Len(file) + 1)
    BY <1>2, <1>4, <1>1, <2>1
  <2> QED
    BY <1>1, <1>2, <1>4, <2>1, <2>2 DEF InHand
<1>7. CASE OnTrack
  <2>1. ring_pnt <= Shown
    <3>1. CASE rpc = "copy"
      BY <3>1, <1>3, <1>4, <1>7 DEF Reading, InHand, OnTrack
    <3>2. CASE rpc # "copy"
      BY <3>2, <1>3, <1>4, <1>7 DEF Reading, FileRight, OnTrack
    <3> QED
      BY <3>1, <3>2
  <2>2. Reach(ring_pnt)' = Reach(ring_pnt)
    <3>1. CASE ring_pnt = 0
      BY <1>1, <3>1 DEF Reach
    <3>2. CASE ring_pnt # 0
      BY <1>1, <1>2, <1>4, <2>1, <3>2 DEF Reach
    <3> QED
      BY <3>1, <3>2
  <2>3. rpc \in {"word", "length", "loop"} =>
          ring_pnt + 1 <= Shown /\ Since(ring_pnt + 1)' = Since(ring_pnt + 1)
    <3> SUFFICES ASSUME rpc \in {"word", "length", "loop"}
                 PROVE  ring_pnt + 1 <= Shown /\ Since(ring_pnt + 1)' = Since(ring_pnt + 1)
      OBVIOUS
    <3>1. ring_pnt + 1 <= Shown
      BY <1>7 DEF OnTrack
    <3>2. ring_pnt + 1 \in 1 .. ring_pnt_2
      BY <1>2, <1>4, <3>1
    <3> QED
      BY <1>1, <3>1, <3>2
  <2>4. OnTrack'
    <3>1. /\ ring_loop' = 0 /\ ring_pnt' = Len(file') + (IF rpc' = "copy" THEN 1 ELSE 0)
          /\ buf_pnt' = Reach(ring_pnt)'
      BY <1>1, <1>7, <2>2 DEF OnTrack
    <3>2. rpc' \in {"word", "length", "loop"} => ring_pnt' + 1 <= Shown'
      BY <1>1, <1>2, <1>4, <2>3
    <3>3. rpc' \in {"length", "loop"} => entry'.loop = 0 /\ entry'.id = Since(ring_pnt + 1)'.id
      BY <1>1, <1>7, <2>3 DEF OnTrack
    <3>4. rpc' = "loop" => entryLen' = Since(ring_pnt + 1)'.len
      BY <1>1, <1>7, <2>3 DEF OnTrack
    <3> QED
      BY <3>1, <3>2, <3>3, <3>4 DEF OnTrack
  <2> QED
    BY <1>5, <1>6, <2>4
<1>8. CASE OffTrack
  <2>1. PICK k \in 1 .. Shown : ~ Since(k).eevent
    BY <1>8 DEF OffTrack
  <2>2. k \in 1 .. Shown' /\ Since(k)' = Since(k)
    BY <1>2, <2>1
  <2>3. OffTrack'
    BY <1>1, <1>8, <2>1, <2>2 DEF OffTrack
  <2> QED
    BY <1>5, <1>6, <2>3
<1> QED
  BY <1>3, <1>7, <1>8 DEF Reading

-----------------------------------------------------------------------------
(* The driver keeps the layout.                                            *)

(* Where the data and the entry of a packet are, all behind the driver's   *)
(* position.                                                               *)
LEMMA BehindPosition ==
  ASSUME TypeInv, Laid, NEW k \in 1 .. ring_pnt_2
  PROVE  /\ Start + k \in DOMAIN written /\ Holds(Start + k)
         /\ Since(k).slot \in Slots /\ Since(k).slot # ring_pnt_2
         /\ \A u \in Since(k).off .. Since(k).off + Since(k).len - 1 :
              u \in Units /\ u < buf_pnt_2
<1>1. /\ Start + k \in DOMAIN written /\ Since(k).off \in Nat /\ Since(k).len \in Nat
      /\ Reach(k) = Since(k).off + Since(k).len /\ ring_pnt_2 \in Nat
  BY SinceFacts
<1>2. Holds(Start + k) /\ Since(k).slot = k - 1 /\ Reach(k) <= buf_pnt_2
  BY DEF Laid
<1>3. /\ Since(k).slot \in Slots
      /\ \A u \in Since(k).off .. Since(k).off + Since(k).len - 1 : u \in Units
  BY <1>1, EntryFacts DEF Since
<1>4. buf_pnt_2 \in Nat
  BY RingAssumption DEF TypeInv, HookTypeOK, BufEnd
<1>5. ASSUME NEW u \in Since(k).off .. Since(k).off + Since(k).len - 1 PROVE u < buf_pnt_2
  BY <1>1, <1>2, <1>4
<1>6. Since(k).slot # ring_pnt_2
  BY <1>1, <1>2
<1> QED
  BY <1>1, <1>2, <1>3, <1>5, <1>6

(* Steps that write nothing into the shared memory and move nothing.       *)
LEMMA LayoutQuiet ==
  ASSUME Loop0Parts, NEW c \in CPUs,
         UNCHANGED <<mem, word, length, tail, positions, written>>,
         \A d \in CPUs \ {c} : pc'[d] = pc[d] /\ skb'[d] = skb[d] /\ masks'[d] = masks[d],
         pc[c] # "tail" /\ pc'[c] # "tail",
         \/ pc'[c] \notin {"classify", "word", "length", "advance"}
         \/ pc[c] = "classify" /\ pc'[c] = "word" /\ skb'[c] = skb[c]
  PROVE  Loop0Parts' /\ Shown' = Shown /\ Start' = Start
<1>1. UNCHANGED <<buf_pnt_2, ring_pnt_2, ring_loop_2>>
  BY DEF positions
<1>2. Pushing' = Pushing
  BY DEF Pushing
<1>3. Laid'
  BY MemoryStays DEF Loop0Parts
<1>4. Published0'
  BY <1>1, <1>2, ShownStays, SinceStays DEF Loop0Parts, Published0
<1>5. DataInPlace'
  BY <1>1 DEF Loop0Parts, DataInPlace
<1>6. WordInPlace' /\ LengthInPlace'
  BY <1>1 DEF Loop0Parts, WordInPlace, LengthInPlace
<1> QED
  BY <1>1, <1>2, <1>3, <1>4, <1>5, <1>6, ShownStays, SinceStays DEF Loop0Parts

(* The stores: data, word and length of one packet.                        *)
LEMMA LayoutStores ==
  ASSUME TypeInv, Mutex, Loop0Parts, NEW c \in CPUs, CopyData(c) \/ PutWord(c) \/ PutLength(c)
  PROVE  Loop0Parts' /\ Shown' = Shown /\ Start' = Start
<1>0. /\ pc[c] \in Writing /\ pc[c] # "tail" /\ pc \in [CPUs -> Places]
      /\ mem \in [Units -> Nat] /\ word \in [Slots -> Words] /\ length \in [Slots -> 0 .. MaxPacket]
      /\ ring_pnt_2 \in Slots /\ buf_pnt_2 \in Nat /\ Laid
  <2>1. pc[c] \in {"copy", "word", "length"}
    BY DEF CopyData, PutWord, PutLength
  <2>2. buf_pnt_2 \in Nat
    BY RingAssumption DEF TypeInv, HookTypeOK, BufEnd
  <2> QED
    BY <2>1, <2>2 DEF Writing, TypeInv, HookTypeOK, ShmTypeOK, Loop0Parts
<1>1. UNCHANGED <<tail, positions, buf_pnt_2, ring_pnt_2, ring_loop_2, written, skb, masks>>
  BY DEF CopyData, PutWord, PutLength, positions, ghosts
<1>2. \A d \in CPUs \ {c} : pc'[d] = pc[d] /\ pc[d] \notin Writing
  BY <1>0, Alone DEF CopyData, PutWord, PutLength
<1>3. pc'[c] # "tail"
  BY <1>0 DEF CopyData, PutWord, PutLength
<1>4. Pushing' = Pushing
  BY <1>0, <1>2, <1>3 DEF Pushing
<1>5. Published0' /\ Shown' = Shown /\ Start' = Start
  BY <1>1, <1>4, ShownStays, SinceStays DEF Loop0Parts, Published0
<1>6. ASSUME NEW k \in 1 .. ring_pnt_2 PROVE Holds(Start + k)'
  <2>1. /\ Start + k \in DOMAIN written /\ Holds(Start + k)
        /\ Since(k).slot \in Slots /\ Since(k).slot # ring_pnt_2
        /\ \A u \in Since(k).off .. Since(k).off + Since(k).len - 1 :
             u \in Units /\ u < buf_pnt_2
    BY <1>0, BehindPosition
  <2>2. word'[Since(k).slot] = word[Since(k).slot] /\ length'[Since(k).slot] = length[Since(k).slot]
    BY <1>0, <2>1 DEF CopyData, PutWord, PutLength
  <2>3. ASSUME NEW u \in Since(k).off .. Since(k).off + Since(k).len - 1 PROVE mem'[u] = mem[u]
    <3>1. u \in Units /\ u < buf_pnt_2 /\ u \in Int
      BY <2>1 DEF Units
    <3>2. u \notin buf_pnt_2 .. buf_pnt_2 + skb[c].len + Spill - 1
      BY <1>0, <3>1
    <3> QED
      BY <1>0, <3>1, <3>2 DEF CopyData, PutWord, PutLength
  <2>4. written'[Start' + k] = written[Start + k] /\ written[Start + k] = Since(k)
    BY <1>1, <1>5 DEF Since
  <2> QED
    BY <2>1, <2>2, <2>3, <2>4 DEF Holds
<1>7. Laid'
  BY <1>0, <1>1, <1>6, LaidStays
<1>8. DataInPlace'
  <2>1. CASE CopyData(c)
    <3>1. pc'[c] = "classify"
      BY <1>0, <2>1 DEF CopyData
    <3>2. \A u \in buf_pnt_2 .. buf_pnt_2 + skb[c].len - 1 : mem'[u] = skb[c].id
      <4> TAKE u \in buf_pnt_2 .. buf_pnt_2 + skb[c].len - 1
      <4>1. u \in Units /\ u \in buf_pnt_2 .. buf_pnt_2 + skb[c].len + Spill - 1
        BY <1>0, PacketFacts
      <4> QED
        BY <2>1, <4>1 DEF CopyData
    <3> QED
      BY <1>1, <1>2, <3>1, <3>2 DEF DataInPlace, Writing
  <2>2. CASE PutWord(c) \/ PutLength(c)
    <3>1. mem' = mem /\ pc[c] \in {"word", "length"}
      BY <2>2 DEF PutWord, PutLength
    <3> QED
      BY <1>1, <1>2, <3>1 DEF Loop0Parts, DataInPlace, Writing
  <2> QED
    BY <2>1, <2>2
<1>9. WordInPlace'
  <2>1. CASE PutWord(c)
    <3>1. pc'[c] = "length"
          /\ word'[ring_pnt_2] = EntryWord(ring_loop_2, masks[c].missing, masks[c].eevent, skb[c].id)
      BY <1>0, <2>1 DEF PutWord
    <3> QED
      BY <1>1, <1>2, <3>1 DEF WordInPlace, Writing
  <2>2. CASE CopyData(c)
    <3>1. pc'[c] = "classify"
      BY <1>0, <2>2 DEF CopyData
    <3> QED
      BY <1>1, <1>2, <3>1 DEF WordInPlace, Writing
  <2>3. CASE PutLength(c)
    <3>1. word' = word /\ pc[c] = "length"
      BY <2>3 DEF PutLength
    <3> QED
      BY <1>1, <1>2, <3>1 DEF Loop0Parts, WordInPlace, Writing
  <2> QED
    BY <2>1, <2>2, <2>3
<1>10. LengthInPlace'
  <2>1. CASE PutLength(c)
    <3>1. length'[ring_pnt_2] = skb[c].len
      BY <1>0, <2>1 DEF PutLength
    <3> QED
      BY <1>1, <1>2, <3>1 DEF LengthInPlace, Writing
  <2>2. CASE CopyData(c) \/ PutWord(c)
    <3>1. pc'[c] # "advance"
      BY <1>0, <2>2 DEF CopyData, PutWord
    <3> QED
      BY <1>1, <1>2, <3>1 DEF LengthInPlace, Writing
  <2> QED
    BY <2>1, <2>2
<1> QED
  BY <1>5, <1>7, <1>8, <1>9, <1>10 DEF Loop0Parts

(* The tail word.                                                          *)
LEMMA LayoutTail ==
  ASSUME TypeInv, Mutex, Loop0Parts, NEW c \in CPUs, PutTail(c)
  PROVE  Loop0Parts' /\ Shown \in 0 .. ring_pnt_2 /\ Shown' = Shown + 1 /\ Start' = Start
<1>0. /\ pc[c] = "tail" /\ pc[c] \in Writing /\ pc \in [CPUs -> Places]
      /\ ring_pnt_2 \in Nat
  BY RingAssumption DEF PutTail, Writing, TypeInv, HookTypeOK, Slots
<1>1. UNCHANGED <<mem, word, length, positions, buf_pnt_2, ring_pnt_2, ring_loop_2, written>>
  BY DEF PutTail, positions, ghosts
<1>2. \A d \in CPUs : pc'[d] \notin Writing
  BY <1>0, Alone DEF PutTail, Writing
<1>3. Pushing /\ ~ Pushing'
  BY <1>0, <1>2 DEF Pushing, Writing
<1>4. Shown \in 0 .. ring_pnt_2 /\ Shown' = ring_pnt_2 /\ Shown' = Shown + 1 /\ Start' = Start
  BY <1>0, <1>1, <1>3, SinceStays DEF Shown, Loop0Parts, Published0
<1>5. Laid'
  BY <1>1, MemoryStays DEF Loop0Parts
<1>6. Published0'
  <2>1. tail' = buf_pnt_2 /\ buf_pnt_2 = Reach(ring_pnt_2)
    BY DEF PutTail, Loop0Parts, Laid
  <2>2. Reach(Shown)' = Reach(ring_pnt_2)
    BY <1>1, <1>4 DEF Reach, Since
  <2> QED
    BY <1>3, <2>1, <2>2 DEF Published0
<1>7. DataInPlace' /\ WordInPlace' /\ LengthInPlace'
  BY <1>2 DEF DataInPlace, WordInPlace, LengthInPlace, Writing
<1> QED
  BY <1>4, <1>5, <1>6, <1>7 DEF Loop0Parts

(* The packet in hand becomes a written one.                               *)
LEMMA LayoutAdvance ==
  ASSUME TypeInv, Mutex, Loop0Parts, Flags, ring_loop_2 = 0, NEW c \in CPUs, Advance(c),
         ~ WrapsAt(masks[c].eevent, buf_pnt_2 + skb[c].len, ring_pnt_2 + 1)
  PROVE  /\ Loop0Parts' /\ Shown' = Shown /\ Shown = ring_pnt_2 /\ Start' = Start
         /\ \A k \in 1 .. ring_pnt_2 : Since(k)' = Since(k)
<1>0. PICK R \in Nat : R = ring_pnt_2
  BY RingAssumption DEF TypeInv, HookTypeOK, Slots
<1>1. PICK W \in Nat : W = Len(written)
  BY DEF TypeInv, HookTypeOK
<1>2. /\ pc[c] = "advance" /\ pc[c] \in Writing /\ pc \in [CPUs -> Places]
      /\ skb[c] \in Packets /\ skb[c].len \in Nat \ {0} /\ buf_pnt_2 \in Nat
      /\ written \in Seq(Entries) /\ Laid
  <2>1. pc[c] = "advance" /\ pc[c] \in Writing
    BY DEF Advance, Writing
  <2>2. skb[c] \in Packets /\ skb[c].len \in Nat \ {0}
    BY <2>1, PacketFacts
  <2>3. buf_pnt_2 \in Nat
    BY RingAssumption DEF TypeInv, HookTypeOK, BufEnd
  <2> QED
    BY <2>1, <2>2, <2>3 DEF TypeInv, HookTypeOK, Loop0Parts
<1> DEFINE new == EntryOf(skb[c], masks[c], buf_pnt_2, ring_pnt_2, ring_loop_2)
<1>3. /\ buf_pnt_2' = buf_pnt_2 + skb[c].len /\ ring_pnt_2' = R + 1
      /\ written' = Append(written, new)
      /\ UNCHANGED <<mem, word, length, tail, skb, masks>>
  BY <1>0 DEF Advance, shm
<1>4. /\ DOMAIN written = 1 .. W /\ DOMAIN written' = 1 .. W + 1 /\ Len(written') = W + 1
      /\ \A k \in 1 .. W : written'[k] = written[k]
      /\ written'[W + 1] = new
  BY <1>1, <1>2, <1>3
<1>5. PICK S \in Nat : S = Start /\ S + R = W
  BY <1>0, <1>1, <1>2, SinceFacts
<1>6. Start' = S
  BY <1>3, <1>4, <1>5 DEF Start
<1>7. \A k \in 1 .. R : Since(k)' = Since(k) /\ Reach(k)' = Reach(k)
  <2> TAKE k \in 1 .. R
  <2>1. S + k \in 1 .. W /\ k # 0
    BY <1>5
  <2> QED
    BY <1>4, <1>5, <1>6, <2>1 DEF Since, Reach
<1>8. Since(R + 1)' = new /\ Reach(R + 1)' = buf_pnt_2 + skb[c].len
  <2>1. Since(R + 1)' = new
    BY <1>4, <1>5, <1>6 DEF Since
  <2>2. Reach(R + 1)' = Since(R + 1)'.off + Since(R + 1)'.len
    BY DEF Reach
  <2> QED
    BY <2>1, <2>2 DEF EntryOf
<1>9. Reach(0)' = 0 /\ Reach(0) = 0
  BY DEF Reach
<1>10. Reach(R) = buf_pnt_2 /\ Reach(R)' = buf_pnt_2
  <2>1. Reach(R) = buf_pnt_2
    BY <1>0, <1>2 DEF Laid
  <2>2. R = 0 \/ R \in 1 .. R
    OBVIOUS
  <2> QED
    BY <2>1, <2>2, <1>7, <1>9
<1>11. ASSUME NEW k \in 1 .. R
       PROVE  /\ Since(k)'.loop = 0 /\ Since(k)'.slot = k - 1 /\ Since(k)'.off = Reach(k - 1)'
              /\ Reach(k)' <= buf_pnt_2 /\ Reach(k)' \in Nat
              /\ ~ WrapsAt(Since(k)'.eevent, Reach(k)', k)
              /\ Since(k)'.ends => Since(k)'.eevent
              /\ Holds(Start + k)'
  <2>1. /\ Since(k).loop = 0 /\ Since(k).slot = k - 1 /\ Since(k).off = Reach(k - 1)
        /\ Reach(k) <= buf_pnt_2 /\ ~ WrapsAt(Since(k).eevent, Reach(k), k)
        /\ Since(k).ends => Since(k).eevent
        /\ Holds(Start + k)
    BY <1>0, <1>2 DEF Laid
  <2>2. Since(k)' = Since(k) /\ Reach(k)' = Reach(k) /\ Reach(k) \in Nat
    BY <1>0, <1>2, <1>7, SinceFacts
  <2>3. Reach(k - 1)' = Reach(k - 1)
    <3>1. k - 1 = 0 \/ k - 1 \in 1 .. R
      OBVIOUS
    <3> QED
      BY <3>1, <1>7, <1>9
  <2>4. Holds(Start + k)'
    <3>1. written'[S + k] = written[S + k]
      BY <1>4, <1>5
    <3>2. Holds(S + k)
      BY <2>1, <1>5
    <3>3. Holds(S + k)'
      BY <1>3, <3>1, <3>2 DEF Holds
    <3> QED
      BY <1>6, <3>3
  <2> QED
    BY <2>1, <2>2, <2>3, <2>4 DEF WrapsAt
<1>12. /\ new.loop = 0 /\ new.slot = R /\ new.off = buf_pnt_2
       /\ new.ends => new.eevent
       /\ ~ WrapsAt(new.eevent, buf_pnt_2 + skb[c].len, R + 1)
  BY <1>0, <1>2 DEF EntryOf, Flags, EndsEvent
<1>13. Holds(W + 1)'
  <2>1. /\ word[ring_pnt_2] = EntryWord(ring_loop_2, masks[c].missing, masks[c].eevent, skb[c].id)
        /\ length[ring_pnt_2] = skb[c].len
        /\ \A u \in buf_pnt_2 .. buf_pnt_2 + skb[c].len - 1 : mem[u] = skb[c].id
    BY <1>2 DEF Loop0Parts, DataInPlace, WordInPlace, LengthInPlace
  <2> QED
    BY <1>3, <1>4, <2>1 DEF Holds, EntryOf
<1>14. Laid'
  <2>1. ring_pnt_2' <= Len(written') /\ buf_pnt_2' = Reach(ring_pnt_2)'
    BY <1>3, <1>4, <1>5, <1>8
  <2>2. ASSUME NEW k \in 1 .. R + 1
        PROVE  /\ Since(k)'.loop = 0 /\ Since(k)'.slot = k - 1 /\ Since(k)'.off = Reach(k - 1)'
               /\ Reach(k)' <= buf_pnt_2'
               /\ ~ WrapsAt(Since(k)'.eevent, Reach(k)', k)
               /\ Since(k)'.ends => Since(k)'.eevent
               /\ Holds(Start + k)'
    <3>1. CASE k \in 1 .. R
      <4>1. Reach(k)' <= buf_pnt_2 /\ Reach(k)' \in Nat
        BY <1>11, <3>1
      <4>2. buf_pnt_2 \in Nat /\ skb[c].len \in Nat /\ buf_pnt_2' = buf_pnt_2 + skb[c].len
        BY <1>2, <1>3
      <4>3. Reach(k)' <= buf_pnt_2'
        BY <4>1, <4>2
      <4> QED
        BY <1>11, <3>1, <4>3
    <3>2. CASE k = R + 1
      <4>1. Since(k)' = new /\ Reach(k)' = buf_pnt_2 + skb[c].len /\ Reach(k - 1)' = buf_pnt_2
        BY <1>8, <1>10, <3>2
      <4>2. Holds(Start + k)'
        BY <1>5, <1>6, <1>13, <3>2
      <4> HIDE DEF new
      <4>3. Reach(k)' <= buf_pnt_2'
        BY <1>2, <1>3, <4>1
      <4>4. ~ WrapsAt(Since(k)'.eevent, Reach(k)', k)
        BY <1>12, <3>2, <4>1
      <4> QED
        BY <1>12, <3>2, <4>1, <4>2, <4>3, <4>4
    <3> QED
      BY <3>1, <3>2
  <2>3. ASSUME NEW i \in 1 .. R + 1, NEW k \in 1 .. R + 1, i < k PROVE Reach(i)' <= Since(k)'.off
    <3>1. i \in 1 .. R
      BY <2>3
    <3>2. CASE k \in 1 .. R
      <4>1. Reach(i) <= Since(k).off
        BY <1>0, <1>2, <2>3, <3>1, <3>2 DEF Laid
      <4> QED
        BY <1>7, <3>1, <3>2, <4>1
    <3>3. CASE k = R + 1
      <4>1. Since(k)'.off = buf_pnt_2
        BY <1>8, <1>12, <3>3
      <4> QED
        BY <1>11, <3>1, <4>1
    <3> QED
      BY <3>2, <3>3
  <2> QED
    BY <1>3, <2>1, <2>2, <2>3 DEF Laid
<1>15. \A d \in CPUs \ {c} : pc'[d] = pc[d] /\ pc[d] \notin Writing
  BY <1>2, Alone DEF Advance
<1>16. pc'[c] = "tail"
  BY <1>2 DEF Advance
<1>17. ~ Pushing /\ Pushing'
  BY <1>2, <1>15, <1>16 DEF Pushing, Writing
<1>18. Shown = R /\ Shown' = R
  BY <1>0, <1>3, <1>17 DEF Shown
<1>19. Published0'
  <2>1. tail = Reach(R)
    BY <1>18 DEF Loop0Parts, Published0
  <2>2. Reach(Shown)' = Reach(R)'
    BY <1>18 DEF Reach
  <2> QED
    BY <1>3, <1>10, <2>1, <2>2 DEF Published0
<1>20. DataInPlace' /\ WordInPlace' /\ LengthInPlace'
  BY <1>15, <1>16 DEF DataInPlace, WordInPlace, LengthInPlace, Writing
<1> QED
  BY <1>0, <1>5, <1>6, <1>7, <1>14, <1>18, <1>19, <1>20 DEF Loop0Parts

(* A reset begins the loop anew.                                           *)
LEMMA LayoutReset ==
  ASSUME TypeInv, Resetting, ResetTail
  PROVE  Loop0Parts'
<1>1. /\ ring_pnt_2' = 0 /\ buf_pnt_2' = 0 /\ tail' = 0 /\ Len(written') \in Nat
      /\ \A c \in CPUs : pc'[c] \notin Writing
  BY DEF ResetTail, Resetting, positions, cpus, ghosts, TypeInv, HookTypeOK
<1>2. Reach(0)' = 0
  BY DEF Reach
<1>3. Laid'
  BY <1>1, <1>2 DEF Laid
<1>4. ~ Pushing' /\ Published0'
  BY <1>1, <1>2 DEF Pushing, Shown, Published0, Writing
<1> QED
  BY <1>1, <1>3, <1>4 DEF Loop0Parts, DataInPlace, WordInPlace, LengthInPlace, Writing

-----------------------------------------------------------------------------
(* Resets, loop counts and flags.                                          *)

\* Every step keeps what is known of a reset that is under way.
LEMMA ResettingNext ==
  ASSUME TypeInv, Mutex, Resetting, [Next]_vars
  PROVE  Resetting'
<1>1. CASE Arrivals
  <2>1. UNCHANGED <<reset, rpc, buf_pnt_2, ring_pnt_2, ring_loop_2>>
        /\ \A c \in CPUs : pc'[c] \in Writing => pc[c] \in Writing
    BY <1>1 DEF Arrivals, Environment, Lose, Receive, ioctl, libVars, positions, cpus, Writing,
                TypeInv, HookTypeOK
  <2> QED
    BY <2>1 DEF Resetting
<1>2. CASE \E c \in CPUs : Hook(c)
  <2>1. reset = "no" /\ reset' = "no"
    BY <1>2 DEF Hook, HookStep, Lock, CopyData, Classify, PutWord, PutLength, Advance, PutTail, ioctl
  <2> QED
    BY <2>1 DEF Resetting
<1>3. CASE StartWriteEth \/ WriteEth
  <2>1. UNCHANGED <<reset, pc, buf_pnt_2, ring_pnt_2, ring_loop_2>>
    BY <1>3 DEF StartWriteEth, WriteEth, hookVars, ioctl, cpus, positions
  <2>2. reset # "no" => rpc' = "closed"
    BY <1>3 DEF StartWriteEth, OpenFails, WriteEth, Resetting, LibStep, SkipRead, NoData, SeeData,
                ReadWord, ReadLength, Overwritten, Consume, Copy
  <2> QED
    BY <2>1, <2>2 DEF Resetting
<1>4. CASE ResetEth
  <2>1. rpc' = "closed" /\ pc' = pc
    BY <1>4 DEF ResetEth, libVars, cpus, ResetBuf, ResetRing, ResetLoop, ResetProc, ResetTail
  <2>2. CASE ResetBuf /\ eth_lock = None
    <3>1. \A c \in CPUs : pc[c] \notin Writing
      BY <2>2, HookAssumption DEF Mutex
    <3> QED
      BY <2>1, <2>2, <3>1 DEF Resetting, ResetBuf
  <2>3. CASE ResetRing \/ ResetLoop \/ ResetProc \/ ResetTail
    BY <2>1, <2>3 DEF Resetting, ResetRing, ResetLoop, ResetProc, ResetTail, positions
  <2> QED
    BY <1>4, <2>2, <2>3 DEF ResetEth
<1>5. CASE UNCHANGED vars
  BY <1>5 DEF vars, hookVars, libVars, ioctl, cpus, positions, Resetting
<1> QED
  BY <1>1, <1>2, <1>3, <1>4, <1>5 DEF Next

(* What a step does to the loop count.                                     *)
LEMMA LoopSteps ==
  ASSUME TypeInv, Resetting, [Next]_vars
  PROVE  /\ lap \in Nat /\ ring_loop_2 \in Nat /\ LoopRange \in Nat \ {0}
         /\ \/ lap' = lap /\ ring_loop_2' = ring_loop_2
            \/ lap' = lap /\ ring_loop_2' = 0 /\ reset = "loop"
            \/ \E c \in CPUs :
                 /\ Advance(c)
                 /\ WrapsAt(masks[c].eevent, buf_pnt_2 + skb[c].len, ring_pnt_2 + 1)
                 /\ lap' = lap + 1 /\ ring_loop_2' = (ring_loop_2 + 1) % LoopRange
<1>1. lap \in Nat /\ ring_loop_2 \in Nat /\ LoopRange \in Nat \ {0}
  BY RingAssumption DEF TypeInv, HookTypeOK, LoopRange
<1>2. CASE Arrivals \/ StartWriteEth \/ WriteEth \/ UNCHANGED vars
  BY <1>1, <1>2 DEF Arrivals, Environment, Lose, Receive, StartWriteEth, WriteEth, vars, hookVars,
                    positions, ghosts
<1>3. CASE ResetEth
  BY <1>1, <1>3 DEF ResetEth, ResetBuf, ResetRing, ResetLoop, ResetProc, ResetTail, positions, ghosts
<1>4. ASSUME NEW c \in CPUs, Hook(c)
      PROVE  \/ lap' = lap /\ ring_loop_2' = ring_loop_2
             \/ /\ Advance(c)
                /\ WrapsAt(masks[c].eevent, buf_pnt_2 + skb[c].len, ring_pnt_2 + 1)
                /\ lap' = lap + 1 /\ ring_loop_2' = (ring_loop_2 + 1) % LoopRange
  <2>1. CASE Advance(c)
    BY <2>1 DEF Advance
  <2>2. CASE ~ Advance(c)
    BY <1>4, <2>2
       DEF Hook, HookStep, Lock, CopyData, Classify, PutWord, PutLength, PutTail, positions, ghosts
  <2> QED
    BY <2>1, <2>2
<1> QED
  BY <1>1, <1>2, <1>3, <1>4 DEF Next

(* As long as the laps are fewer than the loop counts, a driver that went  *)
(* back to the start is not in loop 0.                                     *)
LEMMA LoopCountsNext ==
  ASSUME TypeInv, Resetting, LoopCounts, [Next]_vars
  PROVE  /\ LoopCounts'
         /\ \A c \in CPUs :
              /\ Advance(c) /\ lap' < LoopRange
              /\ WrapsAt(masks[c].eevent, buf_pnt_2 + skb[c].len, ring_pnt_2 + 1)
              => ring_loop_2' # 0
<1>1. lap \in Nat /\ ring_loop_2 \in Nat /\ LoopRange \in Nat \ {0}
  BY LoopSteps
<1>2. ASSUME lap' = lap + 1, ring_loop_2' = (ring_loop_2 + 1) % LoopRange, lap' < LoopRange
      PROVE  ring_loop_2' <= lap' /\ ring_loop_2' # 0
  <2>1. ring_loop_2 + 1 <= lap + 1 /\ lap + 1 < LoopRange
    BY <1>1, <1>2 DEF LoopCounts
  <2>2. (ring_loop_2 + 1) % LoopRange = ring_loop_2 + 1
    <3>1. /\ ring_loop_2 + 1 = LoopRange * 0 + (ring_loop_2 + 1)
          /\ ring_loop_2 + 1 \in 0 .. LoopRange - 1 /\ ring_loop_2 + 1 \in Int /\ 0 \in Int
      BY <1>1, <2>1
    <3> QED
      BY <1>1, <3>1, ModUnique
  <2> QED
    BY <1>1, <1>2, <2>1, <2>2
<1>3. LoopCounts'
  <2>1. CASE lap' = lap /\ ring_loop_2' = ring_loop_2
    BY <2>1 DEF LoopCounts, LoopRange
  <2>2. CASE lap' = lap /\ ring_loop_2' = 0
    BY <1>1, <2>2 DEF LoopCounts
  <2>3. CASE lap' = lap + 1 /\ ring_loop_2' = (ring_loop_2 + 1) % LoopRange
    BY <1>2, <2>3 DEF LoopCounts
  <2> QED
    BY <2>1, <2>2, <2>3, LoopSteps
<1>4. ASSUME NEW c \in CPUs, Advance(c), lap' < LoopRange,
             WrapsAt(masks[c].eevent, buf_pnt_2 + skb[c].len, ring_pnt_2 + 1)
      PROVE  ring_loop_2' # 0
  BY <1>2, <1>4 DEF Advance
<1> QED
  BY <1>3, <1>4

\* Every step keeps what the flags of the driver say.
LEMMA FlagsNext ==
  ASSUME TypeInv, Flags, [Next]_vars
  PROVE  Flags'
<1>0. pc \in [CPUs -> Places] /\ masks \in [CPUs -> Masks] /\ skb \in [CPUs -> Packets \cup {NoPacket}]
  BY DEF TypeInv, HookTypeOK
<1>1. flag_eevent_2' = flag_eevent_2
  <2>1. CASE Arrivals
    BY <2>1 DEF Arrivals, Environment, Lose, Receive, switches
  <2>2. CASE \E c \in CPUs : Hook(c)
    BY <2>2 DEF Hook, HookStep, Lock, CopyData, Classify, PutWord, PutLength, Advance, PutTail, switches
  <2>3. CASE ResetEth
    BY <2>3 DEF ResetEth, ResetBuf, ResetRing, ResetLoop, ResetProc, ResetTail, switches
  <2>4. CASE StartWriteEth \/ WriteEth \/ UNCHANGED vars
    BY <2>4 DEF StartWriteEth, WriteEth, vars, hookVars, switches
  <2> QED
    BY <2>1, <2>2, <2>3, <2>4 DEF Next
<1>2. ASSUME NEW d \in CPUs, pc'[d] \in {"word", "length", "advance"}
      PROVE  masks'[d].eevent = EndsEvent(skb'[d])
  <2> DEFINE Known == pc[d] \in {"word", "length", "advance"} /\ masks'[d] = masks[d] /\ skb'[d] = skb[d]
  <2>1. CASE Known
    BY <2>1 DEF Flags
  <2>2. CASE Arrivals
    <3>1. Known
      BY <1>0, <1>2, <2>2 DEF Arrivals, Environment, Lose, Receive, cpus
    <3> QED
      BY <2>1, <3>1
  <2>3. CASE ResetEth \/ StartWriteEth \/ WriteEth \/ UNCHANGED vars
    <3>1. UNCHANGED cpus
      BY <2>3 DEF ResetEth, ResetBuf, ResetRing, ResetLoop, ResetProc, ResetTail,
                  StartWriteEth, WriteEth, vars, hookVars
    <3>2. Known
      BY <1>2, <3>1 DEF cpus
    <3> QED
      BY <2>1, <3>2
  <2>4. CASE \E c \in CPUs : Hook(c)
    <3>1. PICK c \in CPUs : HookStep(c)
      BY <2>4 DEF Hook
    <3>2. CASE Classify(c) /\ d = c
      BY <1>0, <3>2 DEF Classify
    <3>3. CASE ~ (Classify(c) /\ d = c)
      <4>1. Known
        BY <1>0, <1>2, <3>1, <3>3
           DEF HookStep, Lock, CopyData, Classify, PutWord, PutLength, Advance, PutTail
      <4> QED
        BY <2>1, <4>1
    <3> QED
      BY <3>2, <3>3
  <2> QED
    BY <2>2, <2>3, <2>4 DEF Next
<1> QED
  BY <1>1, <1>2 DEF Flags, EndsEvent

(* One gets into loop 0 only by a reset.                                   *)
LEMMA BeforeLoop0 ==
  ASSUME TypeInv, Resetting, LoopCounts, [Next]_vars, InLoop0'
  PROVE  \/ ResetTail /\ rpc' = "closed"
         \/ /\ InLoop0 /\ ~ ResetEth
            /\ \A c \in CPUs : Advance(c) =>
                 ~ WrapsAt(masks[c].eevent, buf_pnt_2 + skb[c].len, ring_pnt_2 + 1)
<1>1. lap \in Nat /\ LoopRange \in Nat \ {0} /\ LoopRange' = LoopRange
  BY LoopSteps DEF LoopRange
<1>2. CASE ResetEth
  <2>1. reset' = "no"
    BY DEF InLoop0
  <2>2. ResetTail
    BY <1>2, <2>1 DEF ResetEth, ResetBuf, ResetRing, ResetLoop, ResetProc
  <2> QED
    BY <1>2, <2>2 DEF ResetEth, libVars
<1>3. CASE ~ ResetEth
  <2>1. reset' = reset
    BY <1>3 DEF Next, Arrivals, Environment, Lose, Receive, Hook, HookStep, Lock, CopyData, Classify,
                PutWord, PutLength, Advance, PutTail, StartWriteEth, WriteEth, vars, hookVars, ioctl
  <2>2. \A c \in CPUs : Advance(c) =>
          ~ WrapsAt(masks[c].eevent, buf_pnt_2 + skb[c].len, ring_pnt_2 + 1)
    BY <1>1, LoopCountsNext DEF InLoop0
  <2>3. reset = "no"
    BY <2>1 DEF InLoop0
  <2>4. lap' = lap /\ ring_loop_2' = ring_loop_2
    BY <2>2, <2>3, LoopSteps
  <2> QED
    BY <1>1, <1>3, <2>2, <2>3, <2>4 DEF InLoop0
<1> QED
  BY <1>2, <1>3

-----------------------------------------------------------------------------
(* WRITE_ETH's steps.                                                      *)

\* The layout stays while the driver does nothing.
LEMMA LayoutStays ==
  ASSUME Loop0Parts, UNCHANGED hookVars
  PROVE  /\ Loop0Parts' /\ Shown' = Shown /\ Start' = Start /\ ring_pnt_2' = ring_pnt_2
         /\ \A k : Since(k)' = Since(k) /\ Reach(k)' = Reach(k)
<1>1. UNCHANGED <<mem, word, length, tail, positions, buf_pnt_2, ring_pnt_2, ring_loop_2, written,
                  pc, skb, masks>>
  BY DEF hookVars, shm, positions, ghosts, cpus
<1>2. Pushing' = Pushing
  BY <1>1 DEF Pushing
<1>3. Laid'
  BY <1>1, MemoryStays DEF Loop0Parts
<1>4. Published0' /\ Shown' = Shown
  BY <1>1, <1>2, ShownStays, SinceStays DEF Loop0Parts, Published0
<1>5. DataInPlace' /\ WordInPlace' /\ LengthInPlace'
  BY <1>1 DEF Loop0Parts, DataInPlace, WordInPlace, LengthInPlace
<1> QED
  BY <1>1, <1>3, <1>4, <1>5, SinceStays DEF Loop0Parts

\* At most the packet that is being pushed is not shown yet.
LEMMA ShownRange ==
  ASSUME TypeInv, Loop0Parts
  PROVE  /\ ring_pnt_2 \in Nat /\ Shown \in 0 .. ring_pnt_2 /\ Shown \in Nat
         /\ Shown # ring_pnt_2 => Shown = ring_pnt_2 - 1 /\ Pushing
<1>1. ring_pnt_2 \in Nat
  BY RingAssumption DEF TypeInv, HookTypeOK, Slots
<1> QED
  BY <1>1 DEF Loop0Parts, Published0, Shown

(* What WRITE_ETH finds in the ring for the packets since the reset.       *)
LEMMA EntryOfSince ==
  ASSUME TypeInv, Laid, NEW k \in 1 .. ring_pnt_2
  PROVE  /\ word[k - 1].loop = 0 /\ word[k - 1].id = Since(k).id /\ length[k - 1] = Since(k).len
         /\ \A u \in Since(k).off .. Since(k).off + Since(k).len - 1 : mem[u] = Since(k).id
<1>1. Since(k).loop = 0 /\ Since(k).slot = k - 1 /\ Holds(Start + k)
  BY DEF Laid
<1>2. /\ word[k - 1] = EntryWord(0, Since(k).missing, Since(k).eevent, Since(k).id)
      /\ length[k - 1] = Since(k).len
      /\ \A u \in Since(k).off .. Since(k).off + Since(k).len - 1 : mem[u] = Since(k).id
  BY <1>1 DEF Holds, Since
<1>3. 0 % LoopMod = 0
  BY RingAssumption
<1> QED
  BY <1>2, <1>3 DEF EntryWord

(* The numbers in play.                                                    *)
LEMMA Counts ==
  ASSUME LibTypeOK
  PROVE  /\ Len(file) \in Nat /\ DOMAIN file = 1 .. Len(file) /\ ring_pnt \in Nat
         /\ buf_pnt \in Nat /\ buf_data \in Nat /\ entryLen \in Nat
  BY RingAssumption DEF LibTypeOK, Slots, BufEnd

\* A file that has just been opened has read nothing.
LEMMA ReadingOpens ==
  ASSUME TypeInv, Loop0Parts, UNCHANGED hookVars, Open
  PROVE  Reading'
<1>1. /\ rpc' = "tail" /\ buf_pnt' = 0 /\ ring_pnt' = 0 /\ ring_loop' = 0
      /\ file' = <<>> /\ Len(file') = 0 /\ DOMAIN file' = {}
  BY DEF Open
<1>2. Shown' \in Nat
  BY LayoutStays, ShownRange
<1>3. FileRight' /\ InHand'
  BY <1>1, <1>2 DEF FileRight, InHand
<1>4. OnTrack'
  BY <1>1 DEF OnTrack, Reach
<1> QED
  BY <1>3, <1>4 DEF Reading

(* Looking at the next packet.                                             *)
LEMMA ReadingLooks ==
  ASSUME TypeInv, LibTypeOK, Loop0Parts, Reading, UNCHANGED hookVars,
         SeeData \/ ReadWord \/ ReadLength
  PROVE  Reading'
<1>1. /\ rpc \in {"tail", "word", "length"} /\ rpc' \in {"word", "length", "loop"}
      /\ UNCHANGED <<buf_pnt, ring_pnt, ring_loop, buf_data, file>>
  BY DEF SeeData, ReadWord, ReadLength, position, output
<1>2. FileRight /\ (OnTrack \/ OffTrack) /\ Laid
  BY <1>1 DEF Reading, Loop0Parts
<1>3. /\ Shown' = Shown /\ ring_pnt_2' = ring_pnt_2
      /\ \A k : Since(k)' = Since(k) /\ Reach(k)' = Reach(k)
  BY LayoutStays
<1>4. /\ Len(file) \in Nat /\ ring_pnt \in Nat /\ ring_pnt_2 \in Nat /\ Shown \in Nat
      /\ Shown <= ring_pnt_2
  BY Counts, ShownRange
<1>5. FileRight' /\ InHand'
  BY <1>1, <1>2, <1>3 DEF FileRight, InHand
<1>6. CASE OnTrack
  <2>1. /\ ring_loop = 0 /\ ring_pnt = Len(file) /\ buf_pnt = Reach(ring_pnt)
    BY <1>1, <1>4, <1>6 DEF OnTrack
  <2>2. ring_pnt + 1 <= Shown
    <3>1. CASE SeeData
      <4>1. Reach(ring_pnt) # Reach(Shown)
        BY <2>1, <3>1 DEF SeeData, Loop0Parts, Published0
      <4>2. ring_pnt <= Shown
        BY <1>2, <2>1 DEF FileRight
      <4> QED
        BY <1>4, <4>1, <4>2
    <3>2. CASE ReadWord \/ ReadLength
      BY <1>6, <3>2 DEF OnTrack, ReadWord, ReadLength
    <3> QED
      BY <3>1, <3>2
  <2>3. /\ word[ring_pnt].loop = 0 /\ word[ring_pnt].id = Since(ring_pnt + 1).id
        /\ length[ring_pnt] = Since(ring_pnt + 1).len
    <3>1. ring_pnt + 1 \in 1 .. ring_pnt_2 /\ (ring_pnt + 1) - 1 = ring_pnt
      BY <1>4, <2>2
    <3> QED
      BY <1>2, <3>1, EntryOfSince
  <2>4. rpc' \in {"length", "loop"} => entry'.loop = 0 /\ entry'.id = Since(ring_pnt + 1).id
    <3>1. CASE SeeData
      BY <3>1 DEF SeeData
    <3>2. CASE ReadWord
      BY <2>3, <3>2 DEF ReadWord
    <3>3. CASE ReadLength
      BY <1>6, <3>3 DEF ReadLength, OnTrack
    <3> QED
      BY <3>1, <3>2, <3>3
  <2>5. rpc' = "loop" => entryLen' = Since(ring_pnt + 1).len
    BY <2>3 DEF SeeData, ReadWord, ReadLength
  <2>6. OnTrack'
    <3>1. Since(ring_pnt + 1)' = Since(ring_pnt + 1) /\ Reach(ring_pnt)' = Reach(ring_pnt)
      BY <1>1, <1>3 DEF Since, Reach
    <3>2. /\ ring_loop' = 0 /\ ring_pnt' = Len(file') + (IF rpc' = "copy" THEN 1 ELSE 0)
          /\ buf_pnt' = Reach(ring_pnt)'
      BY <1>1, <1>4, <2>1, <3>1
    <3>3. ring_pnt' + 1 <= Shown'
      BY <1>1, <1>3, <2>2
    <3> QED
      BY <2>4, <2>5, <3>1, <3>2, <3>3 DEF OnTrack
  <2> QED
    BY <1>5, <2>6 DEF Reading
<1>7. CASE OffTrack
  <2>1. PICK k \in 1 .. Shown : ~ Since(k).eevent
    BY <1>7 DEF OffTrack
  <2>2. word[0].loop = 0
    <3>1. 1 \in 1 .. ring_pnt_2 /\ 1 - 1 = 0
      BY <1>4, <2>1
    <3> QED
      BY <1>2, <3>1, EntryOfSince
  <2>3. rpc' \in {"length", "loop"} => entry'.loop = 0
    BY <1>7, <2>2 DEF SeeData, ReadWord, ReadLength, OffTrack
  <2>4. OffTrack'
    BY <1>1, <1>3, <1>7, <2>1, <2>3 DEF OffTrack
  <2> QED
    BY <1>5, <2>4 DEF Reading
<1> QED
  BY <1>2, <1>6, <1>7

(* Moving on.                                                              *)
LEMMA ReadingConsumes ==
  ASSUME TypeInv, LibTypeOK, Loop0Parts, Reading, UNCHANGED hookVars, Consume
  PROVE  Reading'
<1> DEFINE k == ring_pnt + 1
           wraps == WrapsAt(TakesForEnd, buf_pnt + entryLen, ring_pnt + 1)
<1>1. /\ rpc = "loop" /\ rpc' = "copy" /\ entry.loop = ring_loop
      /\ UNCHANGED <<entry, entryLen, file>> /\ buf_data' = buf_pnt
      /\ buf_pnt'   = IF wraps THEN 0 ELSE buf_pnt + entryLen
      /\ ring_pnt'  = IF wraps THEN 0 ELSE ring_pnt + 1
      /\ ring_loop' = IF wraps THEN (ring_loop + 1) % LoopRange ELSE ring_loop
  BY DEF Consume, loaded, output
<1>2. FileRight /\ (OnTrack \/ OffTrack) /\ Laid
  BY <1>1 DEF Reading, Loop0Parts
<1>3. OnTrack
  BY <1>1, <1>2 DEF OffTrack
<1>4. /\ Shown' = Shown /\ ring_pnt_2' = ring_pnt_2
      /\ \A i : Since(i)' = Since(i) /\ Reach(i)' = Reach(i)
  BY LayoutStays
<1>5. /\ Len(file) \in Nat /\ ring_pnt \in Nat /\ ring_pnt_2 \in Nat /\ Shown \in Nat
      /\ Shown <= ring_pnt_2
  BY Counts, ShownRange
<1>6. /\ ring_loop = 0 /\ ring_pnt = Len(file) /\ buf_pnt = Reach(ring_pnt)
      /\ k <= Shown /\ entry.id = Since(k).id /\ entryLen = Since(k).len
  BY <1>1, <1>3, <1>5 DEF OnTrack
<1>7. k \in 1 .. ring_pnt_2 /\ k - 1 = ring_pnt /\ k = Len(file) + 1 /\ k \in 1 .. Shown
  BY <1>5, <1>6
<1>8. /\ Since(k).off = Reach(ring_pnt) /\ Reach(k) = buf_pnt + entryLen
      /\ ~ WrapsAt(Since(k).eevent, Reach(k), k) /\ Since(k).eevent \in BOOLEAN
  BY <1>2, <1>6, <1>7, SinceFacts DEF Laid
<1>9. FileRight'
  BY <1>1, <1>2, <1>4 DEF FileRight
<1>10. InHand'
  <2>1. Since(Len(file) + 1)' = Since(k)
    BY <1>1, <1>4, <1>7 DEF Since
  <2> QED
    BY <1>1, <1>4, <1>6, <1>7, <1>8, <2>1 DEF InHand
<1>11. CASE wraps
  <2>1. ~ Since(k).eevent
    BY <1>8, <1>11 DEF WrapsAt, TakesForEnd
  <2>2. 1 % LoopRange = 1
    <3>1. /\ 1 = LoopRange * 0 + 1 /\ LoopRange \in Nat \ {0} /\ 1 \in 0 .. LoopRange - 1
          /\ 0 \in Int /\ 1 \in Int
      BY RingAssumption DEF LoopRange
    <3> QED
      BY <3>1, ModUnique
  <2>3. ring_loop' = 1 /\ ring_pnt' = 0 /\ buf_pnt' = 0
    BY <1>1, <1>6, <1>11, <2>2
  <2>4. OffTrack'
    BY <1>1, <1>4, <1>7, <2>1, <2>3 DEF OffTrack
  <2> QED
    BY <1>9, <1>10, <2>4 DEF Reading
<1>12. CASE ~ wraps
  <2>1. ring_loop' = 0 /\ ring_pnt' = k /\ buf_pnt' = Reach(k)
    BY <1>1, <1>6, <1>8, <1>12
  <2>2. Reach(ring_pnt)' = Reach(k)
    BY <1>4, <2>1 DEF Reach, Since
  <2>3. OnTrack'
    BY <1>1, <1>7, <2>1, <2>2 DEF OnTrack
  <2> QED
    BY <1>9, <1>10, <2>3 DEF Reading
<1> QED
  BY <1>11, <1>12

(* Copying the packet in hand.                                             *)
LEMMA ReadingCopies ==
  ASSUME TypeInv, LibTypeOK, Loop0Parts, Reading, UNCHANGED hookVars, Copy
  PROVE  Reading' /\ rpc' = "tail"
<1> DEFINE k == Len(file) + 1
           got == [u \in 1 .. entryLen |-> mem[buf_data + u - 1]]
<1>1. /\ rpc = "copy" /\ UNCHANGED <<buf_pnt, ring_pnt, ring_loop, buf_data, entry>>
  BY DEF Copy, position, loaded
<1>2. FileRight /\ InHand /\ (OnTrack \/ OffTrack) /\ Laid
  BY <1>1 DEF Reading, Loop0Parts
<1>3. /\ Shown' = Shown /\ ring_pnt_2' = ring_pnt_2
      /\ \A i : Since(i)' = Since(i) /\ Reach(i)' = Reach(i)
  BY LayoutStays
<1>4. /\ Len(file) \in Nat /\ DOMAIN file = 1 .. Len(file) /\ ring_pnt \in Nat
      /\ ring_pnt_2 \in Nat /\ Shown \in Nat /\ Shown <= ring_pnt_2 /\ file \in Seq([id : Nat, got : Seq(Nat), bytes : Seq(Nat)])
  BY Counts, ShownRange DEF LibTypeOK
<1>5. /\ k <= Shown /\ buf_data = Since(k).off /\ entryLen = Since(k).len
      /\ entry.id = Since(k).id
  BY <1>1, <1>2 DEF InHand
<1>6. /\ k \in 1 .. ring_pnt_2 /\ Since(k).off \in Nat /\ Since(k).len \in Nat \ {0}
  <2>1. k \in 1 .. ring_pnt_2
    BY <1>4, <1>5
  <2> QED
    BY <1>2, <2>1, SinceFacts
<1>7. got = [u \in 1 .. Since(k).len |-> Since(k).id]
  <2>1. \A u \in 1 .. Since(k).len : mem[buf_data + u - 1] = Since(k).id
    <3> TAKE u \in 1 .. Since(k).len
    <3>1. buf_data + u - 1 \in Since(k).off .. Since(k).off + Since(k).len - 1
      BY <1>5, <1>6
    <3> QED
      BY <1>2, <1>6, <3>1, EntryOfSince
  <2> QED
    BY <1>5, <2>1
<1>8. entryLen # 0
  BY <1>5, <1>6
<1>9. rpc' = "tail" /\ \E r : file' = Append(file, r) /\ r.id = entry.id /\ r.got = got
  <2> HIDE DEF got
  <2>1. rpc' = "tail"
    BY <1>8 DEF Copy
  <2>2. file' = Append(file,
          [ id |-> entry.id, got |-> got,
            bytes |-> [u \in 1 .. entryLen |-> IF u <= Len(rbuf') THEN rbuf'[u] ELSE 0] ])
    BY <1>8 DEF Copy, got
  <2> QED
    BY <2>1, <2>2
<1>10. PICK r : file' = Append(file, r) /\ r.id = entry.id /\ r.got = got
  BY <1>9
<1>11. /\ Len(file') = k /\ DOMAIN file' = 1 .. k /\ file'[k] = r
       /\ \A i \in 1 .. Len(file) : file'[i] = file[i]
  BY <1>4, <1>10
<1>12. FileRight'
  <2>1. ASSUME NEW i \in 1 .. k
        PROVE  file'[i].id = Since(i).id /\ file'[i].got = [u \in 1 .. Since(i).len |-> Since(i).id]
    <3> HIDE DEF got
    <3>1. CASE i = k
      BY <1>5, <1>7, <1>10, <1>11, <3>1
    <3>2. CASE i # k
      <4>1. i \in 1 .. Len(file)
        BY <1>4, <3>2
      <4> QED
        BY <1>2, <1>4, <1>11, <4>1 DEF FileRight
    <3> QED
      BY <3>1, <3>2
  <2> QED
    BY <1>3, <1>5, <1>11, <2>1 DEF FileRight
<1>13. InHand'
  BY <1>9 DEF InHand
<1>14. CASE OnTrack
  <2>1. ring_loop = 0 /\ ring_pnt = k /\ buf_pnt = Reach(ring_pnt)
    BY <1>1, <1>14 DEF OnTrack
  <2>2. Reach(ring_pnt)' = Reach(ring_pnt)
    BY <1>1, <1>3 DEF Reach, Since
  <2>3. OnTrack'
    BY <1>1, <1>4, <1>9, <1>11, <2>1, <2>2 DEF OnTrack
  <2> QED
    BY <1>9, <1>12, <1>13, <2>3 DEF Reading
<1>15. CASE OffTrack
  <2>1. OffTrack'
    BY <1>1, <1>3, <1>9, <1>15 DEF OffTrack
  <2> QED
    BY <1>9, <1>12, <1>13, <2>1 DEF Reading
<1> QED
  BY <1>2, <1>14, <1>15

-----------------------------------------------------------------------------
(* The invariant.                                                          *)

\* At the start nothing has been written.
LEMMA RecentInit == Init => RecentInv
<1> SUFFICES ASSUME Init PROVE RecentInv
  OBVIOUS
<1>1. /\ rpc = "closed" /\ reset = "no" /\ lap = 0 /\ ring_loop_2 = 0 /\ ring_pnt_2 = 0 /\ buf_pnt_2 = 0
      /\ tail = 0 /\ written = <<>> /\ Len(written) = 0 /\ flag_eevent_2 = TRUE
      /\ \A c \in CPUs : pc[c] = "idle"
  BY DEF Init, HookInit, LibInit, ShmInit
<1>2. Reach(0) = 0
  BY DEF Reach
<1>3. Resetting /\ LoopCounts /\ Flags
  BY <1>1 DEF Resetting, LoopCounts, Flags, Writing
<1>4. Laid
  BY <1>1, <1>2 DEF Laid
<1>5. Published0
  BY <1>1, <1>2 DEF Published0, Shown, Pushing
<1>6. DataInPlace /\ WordInPlace /\ LengthInPlace /\ Reading
  BY <1>1 DEF DataInPlace, WordInPlace, LengthInPlace, Reading
<1> QED
  BY <1>3, <1>4, <1>5, <1>6 DEF RecentInv, Loop0Parts

(* The driver's steps in loop 0.                                           *)
LEMMA Loop0Hook ==
  ASSUME TypeInv, LibTypeOK, Mutex, Flags, ring_loop_2 = 0, Loop0Parts, Reading,
         UNCHANGED libVars, NEW c \in CPUs, HookStep(c),
         Advance(c) => ~ WrapsAt(masks[c].eevent, buf_pnt_2 + skb[c].len, ring_pnt_2 + 1)
  PROVE  Loop0Parts' /\ Reading'
<1>0. /\ pc \in [CPUs -> Places] /\ masks \in [CPUs -> Masks]
      /\ Laid /\ Shown \in 0 .. ring_pnt_2 /\ Shown \in Nat
  BY ShownRange DEF TypeInv, HookTypeOK, Loop0Parts
<1>1. CASE Lock(c) \/ Classify(c)
  <2>1. /\ UNCHANGED <<mem, word, length, tail, positions, ring_pnt_2, written>>
        /\ \A d \in CPUs \ {c} : pc'[d] = pc[d] /\ skb'[d] = skb[d] /\ masks'[d] = masks[d]
        /\ pc[c] # "tail" /\ pc'[c] # "tail"
        /\ \/ pc'[c] \notin {"classify", "word", "length", "advance"}
           \/ pc[c] = "classify" /\ pc'[c] = "word" /\ skb'[c] = skb[c]
    BY <1>0, <1>1 DEF Lock, Classify, shm, positions, ghosts
  <2>2. Loop0Parts' /\ Shown' = Shown /\ Start' = Start
    BY <2>1, LayoutQuiet
  <2>3. \A k \in 1 .. ring_pnt_2 : Since(k)' = Since(k)
    BY <2>1, SinceStays
  <2> QED
    BY <1>0, <2>2, <2>3, ReadingStays
<1>2. CASE CopyData(c) \/ PutWord(c) \/ PutLength(c)
  <2>1. UNCHANGED <<ring_pnt_2, written>>
    BY <1>2 DEF CopyData, PutWord, PutLength, positions, ghosts
  <2>2. Loop0Parts' /\ Shown' = Shown /\ Start' = Start
    BY <1>2, LayoutStores
  <2>3. \A k \in 1 .. ring_pnt_2 : Since(k)' = Since(k)
    BY <2>1, SinceStays
  <2> QED
    BY <1>0, <2>2, <2>3, ReadingStays
<1>3. CASE Advance(c)
  <2>1. /\ Loop0Parts' /\ Shown' = Shown /\ Start' = Start
        /\ \A k \in 1 .. ring_pnt_2 : Since(k)' = Since(k)
    BY <1>3, LayoutAdvance
  <2> QED
    BY <1>0, <2>1, ReadingStays
<1>4. CASE PutTail(c)
  <2>1. UNCHANGED <<ring_pnt_2, written>>
    BY <1>4 DEF PutTail, positions, ghosts
  <2>2. Loop0Parts' /\ Shown' = Shown + 1 /\ Start' = Start
    BY <1>4, LayoutTail
  <2>3. \A k \in 1 .. ring_pnt_2 : Since(k)' = Since(k)
    BY <2>1, SinceStays
  <2> QED
    BY <1>0, <2>2, <2>3, ReadingStays
<1> QED
  BY <1>1, <1>2, <1>3, <1>4 DEF HookStep

(* Packets that arrive.                                                    *)
LEMMA Loop0Arrivals ==
  ASSUME TypeInv, LibTypeOK, Loop0Parts, Reading, Arrivals
  PROVE  Loop0Parts' /\ Reading'
<1>0. /\ pc \in [CPUs -> Places] /\ skb \in [CPUs -> Packets \cup {NoPacket}]
      /\ Laid /\ Shown \in 0 .. ring_pnt_2 /\ Shown \in Nat
  BY ShownRange DEF TypeInv, HookTypeOK, Loop0Parts
<1>1. /\ UNCHANGED <<mem, word, length, tail, positions, ring_pnt_2, written, masks>>
      /\ UNCHANGED libVars
  BY DEF Arrivals, Environment, Lose, Receive, shm, positions, ghosts, cpus
<1>2. CASE \E c \in CPUs, size \in Lens, ends \in BOOLEAN : Receive(c, size, ends)
  <2>1. PICK c \in CPUs, size \in Lens, ends \in BOOLEAN : Receive(c, size, ends)
    BY <1>2
  <2>2. /\ \A d \in CPUs \ {c} : pc'[d] = pc[d] /\ skb'[d] = skb[d] /\ masks'[d] = masks[d]
        /\ pc[c] = "idle" /\ pc'[c] = "lock"
    BY <1>0, <2>1 DEF Receive
  <2>3. Loop0Parts' /\ Shown' = Shown /\ Start' = Start
    BY <1>1, <2>2, LayoutQuiet
  <2>4. \A k \in 1 .. ring_pnt_2 : Since(k)' = Since(k)
    BY <1>1, SinceStays
  <2> QED
    BY <1>0, <1>1, <2>3, <2>4, ReadingStays
<1>3. CASE ~ \E c \in CPUs, size \in Lens, ends \in BOOLEAN : Receive(c, size, ends)
  <2>1. UNCHANGED <<pc, skb, buf_pnt_2, ring_loop_2>>
    BY <1>3 DEF Arrivals, Environment, Lose, cpus, positions
  <2>2. Pushing' = Pushing
    BY <2>1 DEF Pushing
  <2>3. Shown' = Shown /\ Start' = Start /\ \A k : Since(k)' = Since(k) /\ Reach(k)' = Reach(k)
    BY <1>1, <2>2, ShownStays, SinceStays
  <2>4. Laid' /\ Published0'
    BY <1>0, <1>1, <2>2, <2>3, MemoryStays DEF Loop0Parts, Published0
  <2>5. DataInPlace' /\ WordInPlace' /\ LengthInPlace'
    BY <1>1, <2>1 DEF Loop0Parts, DataInPlace, WordInPlace, LengthInPlace
  <2> QED
    BY <1>0, <1>1, <2>3, <2>4, <2>5, ReadingStays DEF Loop0Parts
<1> QED
  BY <1>2, <1>3

\* Every step keeps the invariant about the recent packets.
LEMMA RecentNext ==
  ASSUME TypeInv, LibTypeOK, Mutex, RecentInv, [Next]_vars
  PROVE  RecentInv'
<1>1. Resetting' /\ LoopCounts' /\ Flags'
  BY ResettingNext, LoopCountsNext, FlagsNext DEF RecentInv
<1>2. ASSUME InLoop0' PROVE Loop0Parts' /\ Reading'
  <2>1. CASE ResetTail /\ rpc' = "closed"
    BY <2>1, LayoutReset DEF RecentInv, Reading
  <2>2. CASE /\ InLoop0 /\ ~ ResetEth
             /\ \A c \in CPUs : Advance(c) =>
                  ~ WrapsAt(masks[c].eevent, buf_pnt_2 + skb[c].len, ring_pnt_2 + 1)
    <3>1. Loop0Parts /\ Reading /\ Flags /\ ring_loop_2 = 0 /\ reset = "no"
      BY <2>2 DEF RecentInv, InLoop0
    <3>2. CASE Arrivals
      BY <3>1, <3>2, Loop0Arrivals
    <3>3. CASE \E c \in CPUs : Hook(c)
      BY <2>2, <3>1, <3>3, Loop0Hook DEF Hook
    <3>4. CASE StartWriteEth
      BY <3>1, <3>4, LayoutStays, ReadingOpens DEF StartWriteEth, OpenFails, Reading
    <3>5. CASE WriteEth
      <4>1. UNCHANGED hookVars /\ Loop0Parts'
        BY <3>1, <3>5, LayoutStays DEF WriteEth
      <4>2. CASE SkipRead \/ NoData \/ Overwritten
        BY <4>1, <4>2 DEF SkipRead, NoData, Overwritten, Reading
      <4> QED
        BY <3>1, <3>5, <4>1, <4>2, ReadingLooks, ReadingConsumes, ReadingCopies DEF WriteEth, LibStep
    <3>6. CASE UNCHANGED vars
      <4>1. UNCHANGED hookVars /\ UNCHANGED libVars
        BY <3>6 DEF vars
      <4>2. /\ Loop0Parts' /\ Shown' = Shown /\ Start' = Start /\ \A k : Since(k)' = Since(k)
            /\ Shown \in 0 .. ring_pnt_2 /\ Laid
        BY <3>1, <4>1, LayoutStays, ShownRange DEF Loop0Parts
      <4> QED
        BY <3>1, <4>1, <4>2, ReadingStays
    <3> QED
      BY <2>2, <3>2, <3>3, <3>4, <3>5, <3>6 DEF Next
  <2> QED
    BY <1>2, <2>1, <2>2, BeforeLoop0 DEF RecentInv
<1> QED
  BY <1>1, <1>2 DEF RecentInv

(* What is known of every reachable state.                                 *)
EthDaqInv == TypeInv /\ LibTypeOK /\ Mutex /\ RecentInv

(* It holds for any number of CPUs, any sizes and any resets between two   *)
(* commands.                                                               *)
THEOREM EthDaqInvariant == Spec => []EthDaqInv
<1>1. Spec => []TypeInv /\ []DataInv
  BY DriverAlone, TypeInvariant, DataInvariant, PTL
<1>2. DataInv => Mutex
  BY DEF DataInv
<1>3. Init => LibTypeOK /\ RecentInv
  BY LibTypeInit, RecentInit
<1>4. TypeInv /\ DataInv /\ LibTypeOK /\ RecentInv /\ [Next]_vars => LibTypeOK' /\ RecentInv'
  BY <1>2, LibTypeNext, RecentNext
<1> QED
  BY <1>1, <1>2, <1>3, <1>4, PTL DEF Spec, EthDaqInv

-----------------------------------------------------------------------------
(* What WRITE_ETH reads.                                                   *)

(* The packets since the last reset are the last ring_pnt_2 ones.          *)
LEMMA RecentIs ==
  ASSUME TypeInv, Laid, ring_loop_2 = 0
  PROVE  /\ Recent \in Seq(Entries) /\ Len(Recent) = ring_pnt_2 /\ DOMAIN Recent = 1 .. ring_pnt_2
         /\ \A k \in 1 .. ring_pnt_2 : Recent[k] = Since(k)
<1> DEFINE starts == {k \in DOMAIN written : written[k].loop = 0 /\ written[k].slot = 0}
           first  == IF starts = {} \/ (buf_pnt_2 = 0 /\ ring_pnt_2 = 0 /\ ring_loop_2 = 0)
                     THEN Len(written) + 1
                     ELSE CHOOSE k \in starts : \A j \in starts : j <= k
<1>1. /\ Len(written) \in Nat /\ DOMAIN written = 1 .. Len(written) /\ ring_pnt_2 \in Nat
      /\ Start \in Nat /\ Start + ring_pnt_2 = Len(written) /\ written \in Seq(Entries)
  BY SinceFacts DEF TypeInv, HookTypeOK
<1>2. first = Start + 1
  <2>1. CASE ring_pnt_2 = 0
    <3>1. buf_pnt_2 = 0
      BY <2>1 DEF Laid, Reach
    <3> QED
      BY <1>1, <2>1, <3>1
  <2>2. CASE ring_pnt_2 # 0
    <3>1. Start + 1 \in starts
      <4>1. 1 \in 1 .. ring_pnt_2
        BY <1>1, <2>2
      <4>2. Since(1).loop = 0 /\ Since(1).slot = 0
        BY <4>1 DEF Laid
      <4> QED
        BY <1>1, <4>1, <4>2 DEF Since
    <3>2. ASSUME NEW j \in starts PROVE j <= Start + 1 /\ j \in Nat
      <4>1. j \in 1 .. Start + ring_pnt_2
        BY <1>1
      <4>2. CASE j > Start + 1
        <5>1. PICK k \in 1 .. ring_pnt_2 : j = Start + k /\ k # 1
          <6>1. j - Start \in 1 .. ring_pnt_2 /\ j = Start + (j - Start) /\ j - Start # 1
            BY <1>1, <4>1, <4>2
          <6> QED
            BY <6>1
        <5>2. Since(k).slot = k - 1 /\ Since(k) = written[j]
          BY <5>1 DEF Laid, Since
        <5> QED
          BY <5>1, <5>2
      <4> QED
        BY <1>1, <4>1, <4>2
    <3>3. \A k \in starts : (\A j \in starts : j <= k) => k = Start + 1
      <4> TAKE k \in starts
      <4> HAVE \A j \in starts : j <= k
      <4>1. Start + 1 <= k /\ k <= Start + 1 /\ k \in Nat
        BY <3>1, <3>2
      <4> QED
        BY <1>1, <4>1
    <3>4. \A j \in starts : j <= Start + 1
      BY <3>2
    <3> HIDE DEF starts
    <3>5. (CHOOSE k \in starts : \A j \in starts : j <= k) = Start + 1
      BY <3>1, <3>3, <3>4
    <3>6. starts # {}
      BY <3>1
    <3> QED
      BY <2>2, <3>5, <3>6
  <2> QED
    BY <2>1, <2>2
<1>3. Recent = SubSeq(written, first, Len(written))
  BY DEF Recent
<1>4. Recent = SubSeq(written, Start + 1, Start + ring_pnt_2)
  <2> HIDE DEF first
  <2> QED
    BY <1>1, <1>2, <1>3
<1> HIDE DEF first, starts
<1>5. Len(Recent) = ring_pnt_2 /\ Recent \in Seq(Entries)
  BY <1>1, <1>4
<1>6. \A k \in 1 .. ring_pnt_2 : Recent[k] = written[Start + k]
  <2> TAKE k \in 1 .. ring_pnt_2
  <2>1. k \in 1 .. (Start + ring_pnt_2 - (Start + 1) + 1)
    BY <1>1
  <2>2. Recent[k] = written[(Start + 1) + k - 1]
    BY <1>1, <1>4, <2>1
  <2> QED
    BY <1>1, <2>2
<1> QED
  BY <1>1, <1>5, <1>6 DEF Since

(* As long as the driver did not fill its loop since RESET_ETH, WRITE_ETH  *)
(* reads the packets that came since, each once, in order and with its own *)
(* bytes, while the hook goes on storing: no entry or byte that the ring   *)
(* still holds from before the reset is among them (eth_readmm). The laps  *)
(* are bounded because the driver's 16-bit loop count is 0 again after     *)
(* LoopRange of them.                                                      *)
THEOREM FirstLoopIsRead == Spec => [](lap < LoopRange => ReadsTheData)
<1>1. EthDaqInv => (lap < LoopRange => ReadsTheData)
  <2> SUFFICES ASSUME EthDaqInv, lap < LoopRange, rpc # "closed", InFirstLoop
               PROVE  /\ Len(file) <= Len(Recent)
                      /\ \A k \in DOMAIN file :
                           /\ file[k].id = Recent[k].id
                           /\ file[k].got = [u \in 1 .. Recent[k].len |-> Recent[k].id]
    BY DEF ReadsTheData
  <2>1. ring_loop_2 = 0 /\ InLoop0
    BY DEF InFirstLoop, EthDaqInv, RecentInv, Resetting, InLoop0
  <2>2. TypeInv /\ LibTypeOK /\ Loop0Parts /\ Laid /\ FileRight
    BY <2>1 DEF EthDaqInv, RecentInv, Loop0Parts, Reading
  <2>3. /\ Len(Recent) = ring_pnt_2
        /\ \A k \in 1 .. ring_pnt_2 : Recent[k] = Since(k)
    BY <2>1, <2>2, RecentIs
  <2>4. /\ Len(file) \in Nat /\ DOMAIN file = 1 .. Len(file) /\ ring_pnt_2 \in Nat
        /\ Shown \in Nat /\ Shown <= ring_pnt_2
    BY <2>2, Counts, ShownRange
  <2>5. Len(file) <= Shown
    BY <2>2 DEF FileRight
  <2>6. \A k \in DOMAIN file : Recent[k] = Since(k)
    BY <2>3, <2>4, <2>5
  <2> QED
    BY <2>2, <2>3, <2>4, <2>5, <2>6 DEF FileRight
<1> QED
  BY <1>1, EthDaqInvariant, PTL

(* Where all packets are events, WRITE_ETH stays on track, and finds the   *)
(* end of the data only there.                                             *)
LEMMA EndIsTheEnd ==
  ASSUME EthDaqInv, lap < LoopRange, rpc' = "closed", NoData \/ Overwritten \/ Copy,
         UNCHANGED hookVars, InFirstLoop, \A k \in DOMAIN Recent : Recent[k].ends
  PROVE  \/ Len(file) = Len(Recent)
         \/ Len(file) = Len(Recent) - 1 /\ \E c \in CPUs : pc[c] = "tail"
<1>1. rpc \in {"tail", "loop", "copy"}
  BY DEF NoData, Overwritten, Copy
<1>2. ring_loop_2 = 0 /\ InLoop0
  BY <1>1 DEF InFirstLoop, EthDaqInv, RecentInv, Resetting, InLoop0
<1>3. /\ TypeInv /\ LibTypeOK /\ Loop0Parts /\ Laid /\ Published0 /\ Reading
      /\ FileRight /\ (OnTrack \/ OffTrack)
  BY <1>1, <1>2 DEF EthDaqInv, RecentInv, Loop0Parts, Reading
<1>4. /\ Len(Recent) = ring_pnt_2 /\ DOMAIN Recent = 1 .. ring_pnt_2
      /\ \A k \in 1 .. ring_pnt_2 : Recent[k] = Since(k)
  BY <1>2, <1>3, RecentIs
<1>5. /\ Len(file) \in Nat /\ ring_pnt_2 \in Nat /\ ring_pnt \in Nat
      /\ Shown \in Nat /\ Shown <= ring_pnt_2
      /\ Shown # ring_pnt_2 => Shown = ring_pnt_2 - 1 /\ Pushing
  BY <1>3, Counts, ShownRange
<1>6. OnTrack
  <2> SUFFICES ASSUME OffTrack PROVE FALSE
    BY <1>3
  <2>1. PICK k \in 1 .. Shown : ~ Since(k).eevent
    BY DEF OffTrack
  <2>2. k \in 1 .. ring_pnt_2 /\ Since(k).ends
    BY <1>4, <1>5
  <2> QED
    BY <1>3, <2>1, <2>2 DEF Laid
<1>7. CASE NoData
  <2>1. ring_pnt = Len(file) /\ buf_pnt = Reach(ring_pnt)
    BY <1>5, <1>6, <1>7 DEF NoData, OnTrack
  <2>2. Reach(ring_pnt) = Reach(Shown)
    BY <1>3, <1>7, <2>1 DEF NoData, Published0
  <2>3. Len(file) <= Shown
    BY <1>3 DEF FileRight
  <2>4. Len(file) = Shown
    <3>1. ring_pnt \in 0 .. ring_pnt_2 /\ Shown \in 0 .. ring_pnt_2
      BY <1>5, <2>1, <2>3
    <3>2. ring_pnt = Shown
      BY <1>3, <2>2, <3>1, ReachRises
    <3> QED
      BY <2>1, <3>2
  <2> QED
    BY <1>4, <1>5, <2>4 DEF Pushing
<1>8. CASE Overwritten
  <2>1. ring_loop = 0 /\ entry.loop = 0 /\ ring_pnt + 1 <= Shown
    BY <1>6, <1>8 DEF Overwritten, OnTrack
  <2>2. word[0].loop = 0
    <3>1. 1 \in 1 .. ring_pnt_2 /\ 1 - 1 = 0
      BY <1>5, <2>1
    <3> QED
      BY <1>3, <3>1, EntryOfSince
  <2> QED
    BY <1>8, <2>1, <2>2 DEF Overwritten, Overtaken
<1>9. CASE Copy
  <2>1. rpc' = "tail"
    BY <1>3, <1>9, ReadingCopies
  <2> QED
    BY <2>1
<1> QED
  BY <1>7, <1>8, <1>9

(* When WRITE_ETH ends because eth_readmm finds no more data, it has left  *)
(* out none of the packets since RESET_ETH but one whose hook is just      *)
(* about to publish it, at least if each is an event.                      *)
THEOREM WriteEthIsComplete == Spec /\ [](lap < LoopRange) => FileIsComplete
<1>1. EthDaqInv /\ lap < LoopRange /\ [Next]_vars
        => [ /\ rpc' = "closed"
             /\ NoData \/ Overwritten \/ Copy
             /\ InFirstLoop /\ \A k \in DOMAIN Recent : Recent[k].ends
             => \/ Len(file) = Len(Recent)
                \/ Len(file) = Len(Recent) - 1 /\ \E c \in CPUs : pc[c] = "tail"]_vars
  <2> SUFFICES ASSUME EthDaqInv, lap < LoopRange, Next,
                      rpc' = "closed", NoData \/ Overwritten \/ Copy,
                      InFirstLoop, \A k \in DOMAIN Recent : Recent[k].ends
               PROVE  \/ Len(file) = Len(Recent)
                      \/ Len(file) = Len(Recent) - 1 /\ \E c \in CPUs : pc[c] = "tail"
    OBVIOUS
  <2>1. rpc # "closed" /\ rpc' # rpc
    BY DEF NoData, Overwritten, Copy
  <2>2. UNCHANGED hookVars
    BY <2>1 DEF Next, Arrivals, Hook, StartWriteEth, Open, OpenFails, WriteEth, ResetEth, libVars
  <2> QED
    BY <2>2, EndIsTheEnd
<1> QED
  BY <1>1, EthDaqInvariant, PTL DEF Spec, FileIsComplete
=============================================================================
