---------------------------- MODULE EthHookProofs ----------------------------
(***************************************************************************)
(* Proofs about the driver alone, for any number of CPUs, any sizes of the *)
(* data area, the ring and the packets, and any number of packets, losses  *)
(* and resets.                                                             *)
(***************************************************************************)
EXTENDS EthHook, TLAPS

-----------------------------------------------------------------------------
(* Operators of the model.                                                 *)

(* A remainder lies below the modulus (the loop counts and the packet      *)
(* counter of netif_rx_hook_2 wrap).                                       *)
LEMMA ModBound ==
  ASSUME NEW a \in Int, NEW m \in Nat \ {0}
  PROVE  a % m \in 0 .. m - 1
  OBVIOUS

(* What the driver puts into an entry is a proper ring entry.              *)
LEMMA EntryWordType ==
  ASSUME NEW loop \in Nat, NEW missing \in BOOLEAN, NEW eevent \in BOOLEAN, NEW id \in Nat
  PROVE  EntryWord(loop, missing, eevent, id) \in Words
<1>1. loop % LoopMod \in 0 .. LoopMod - 1
  BY ModBound, RingAssumption
<1> QED
  BY <1>1 DEF EntryWord, Words

(* A write position that does not wrap leaves room for one more packet and *)
(* has a ring entry (the loop-back condition of netif_rx_hook_2).          *)
LEMMA NoWrapInBounds ==
  ASSUME NEW eevent \in BOOLEAN, NEW pnt \in Nat, NEW slot \in Nat,
         ~ WrapsAt(eevent, pnt, slot)
  PROVE  pnt \in 0 .. BufEnd /\ slot \in Slots
  BY RingAssumption DEF WrapsAt, BufEnd, Slots

(* A packet, and what the copy spills behind it, is no larger than the     *)
(* largest packet the driver leaves room for.                              *)
LEMMA LengthFits ==
  ASSUME NEW size \in Lens
  PROVE  /\ size \in Nat \ {0} /\ Spill \in Nat
         /\ size \in 0 .. MaxPacket /\ size + Spill <= MaxPacket
  BY HookAssumption, RingAssumption

-----------------------------------------------------------------------------
(* Type correctness.  HookTypeOK is not inductive: that a packet begins an *)
(* event with a proper id, and that a CPU inside the hook handles a packet,*)
(* has to be known as well.                                                *)

EventHasBegun == ddu.first <= ddu.sent + 1

Handling == \A c \in CPUs : pc[c] # "idle" => skb[c] \in Packets

TypeInv == HookTypeOK /\ EventHasBegun /\ Handling

(* The initial states have it.                                             *)
LEMMA TypeInit == HookInit => TypeInv
<1> SUFFICES ASSUME HookInit PROVE TypeInv
  OBVIOUS
<1> USE DEF HookInit, ShmInit
<1>1. EntryWord(0, FALSE, FALSE, 0) \in Words
  BY EntryWordType
<1>2. ShmTypeOK
  <2>1. 0 \in 0 .. MaxPacket /\ 0 \in 0 .. BufEnd
    BY RingAssumption DEF BufEnd
  <2> QED
    BY <1>1, <2>1 DEF ShmTypeOK
<1>3. NoPacket \in Packets \cup {NoPacket} /\ NoMasks \in Masks
  BY DEF NoMasks, Masks
<1>4. HookTypeOK
  BY <1>2, <1>3, RingAssumption, HookAssumption
     DEF HookTypeOK, Places, BufEnd, Slots, LoopRange
<1>5. EventHasBegun /\ Handling
  BY DEF EventHasBegun, Handling
<1> QED
  BY <1>4, <1>5 DEF TypeInv

(* A packet that the DDU numbers keeps its account proper.                 *)
LEMMA NextPacketType ==
  ASSUME TypeInv, NEW size \in Lens, NEW ends \in BOOLEAN, NextPacket(size, ends)
  PROVE  /\ ddu' \in [ sent : 0 .. MaxSent, first : 1 .. MaxSent + 1, size : Nat ]
         /\ ddu'.first <= ddu'.sent + 1
         /\ [ id |-> ddu.sent + 1, first |-> ddu.first, len |-> size, ends |-> ends ] \in Packets
<1>1. /\ ddu.sent \in 0 .. MaxSent /\ ddu.first \in 1 .. MaxSent + 1 /\ ddu.size \in Nat
      /\ ddu.sent < MaxSent /\ ddu.first <= ddu.sent + 1 /\ size \in Nat /\ MaxSent \in Nat
  BY HookAssumption DEF TypeInv, HookTypeOK, EventHasBegun, NextPacket
<1>2. PICK n \in Nat, f \in Nat, z \in Nat, m \in Nat :
        n = ddu.sent /\ f = ddu.first /\ z = ddu.size /\ m = MaxSent
  BY <1>1
<1>3. ddu' = [ sent  |-> n + 1,
               first |-> IF ends THEN n + 2 ELSE f,
               size  |-> IF ends THEN 0 ELSE z + size ]
  BY <1>2 DEF NextPacket
<1>4. /\ n + 1 \in 0 .. m /\ n + 1 \in 1 .. m /\ n + 2 \in 1 .. m + 1 /\ f \in 1 .. m + 1
      /\ f <= n + 1 /\ z + size \in Nat
  BY <1>1, <1>2
<1>5. /\ ddu' \in [ sent : 0 .. MaxSent, first : 1 .. MaxSent + 1, size : Nat ]
      /\ ddu'.first <= ddu'.sent + 1
  <2>1. CASE ends
    BY <1>2, <1>3, <1>4, <2>1
  <2>2. CASE ~ ends
    BY <1>2, <1>3, <1>4, <2>2
  <2> QED
    BY <2>1, <2>2
<1>6. [ id |-> n + 1, first |-> f, len |-> size, ends |-> ends ] \in Packets
  BY <1>2, <1>4 DEF Packets
<1> QED
  BY <1>2, <1>5, <1>6

(* What the environment does keeps it.                                     *)
LEMMA TypeEnvironment == TypeInv /\ Environment => TypeInv'
<1> SUFFICES ASSUME TypeInv, Environment PROVE TypeInv'
  OBVIOUS
<1> USE DEF TypeInv
<1>1. PICK size \in Lens, ends \in BOOLEAN : Lose(size, ends) \/ \E c \in CPUs : Receive(c, size, ends)
  BY DEF Environment
<1>2. NextPacket(size, ends)
  BY <1>1 DEF Lose, Receive
<1>3. /\ ddu' \in [ sent : 0 .. MaxSent, first : 1 .. MaxSent + 1, size : Nat ]
      /\ ddu'.first <= ddu'.sent + 1
  BY <1>2, NextPacketType
<1>4. CASE Lose(size, ends)
  <2>1. lost' \in 0 .. MaxLost
    BY <1>4, HookAssumption DEF Lose, HookTypeOK
  <2>2. HookTypeOK'
    BY <1>3, <1>4, <2>1
       DEF Lose, HookTypeOK, ShmTypeOK, shm, cpus, positions, counters, switches, ioctl, ghosts
  <2>3. EventHasBegun' /\ Handling'
    BY <1>3, <1>4 DEF Lose, EventHasBegun, Handling, cpus
  <2> QED
    BY <2>2, <2>3
<1>5. CASE \E c \in CPUs : Receive(c, size, ends)
  <2>1. PICK c \in CPUs : Receive(c, size, ends)
    BY <1>5
  <2>2. [ id |-> ddu.sent + 1, first |-> ddu.first, len |-> size, ends |-> ends ] \in Packets
    BY <1>2, NextPacketType
  <2>3. HookTypeOK'
    BY <1>3, <2>1, <2>2
       DEF Receive, HookTypeOK, ShmTypeOK, Places, shm, positions, counters, switches, ioctl, ghosts
  <2>4. EventHasBegun'
    BY <1>3 DEF EventHasBegun
  <2>5. Handling'
    BY <2>1, <2>2 DEF Receive, Handling, HookTypeOK
  <2> QED
    BY <2>3, <2>4, <2>5
<1> QED
  BY <1>1, <1>4, <1>5

(* Every step of the hook keeps it.                                        *)
LEMMA TypeHook == ASSUME TypeInv, NEW c \in CPUs, HookStep(c) PROVE TypeInv'
<1> USE DEF TypeInv
<1>0. skb[c] \in Packets \cup {NoPacket} /\ masks[c] \in Masks /\ (pc[c] # "idle" => skb[c] \in Packets)
  BY DEF HookTypeOK, Handling
<1>1. CASE Lock(c)
  BY <1>1 DEF Lock, HookTypeOK, ShmTypeOK, Places, EventHasBegun, Handling,
              shm, env, positions, counters, switches, ioctl, ghosts
<1>2. CASE CopyData(c)
  <2>1. skb[c].id \in Nat
    BY <1>0, <1>2 DEF CopyData, Packets
  <2>2. mem' \in [Units -> Nat]
    BY <1>2, <2>1 DEF CopyData, HookTypeOK, ShmTypeOK
  <2> QED
    BY <1>2, <2>2
       DEF CopyData, HookTypeOK, ShmTypeOK, Places, EventHasBegun, Handling,
           env, positions, counters, switches, ioctl, ghosts
<1>3. CASE Classify(c)
  <2>1. skb[c].id \in Nat
    BY <1>0, <1>3 DEF Classify, Packets
  <2>2. skb[c].id % CtrMod \in 0 .. CtrMod - 1
    <3>1. \A a \in Nat : a % CtrMod \in 0 .. CtrMod - 1
      BY ModBound, HookAssumption
    <3> QED
      BY <2>1, <3>1
  <2>3. [ missing |-> PacketsMissing(skb[c].id % CtrMod), eevent |-> EndsEvent(skb[c]),
          checked |-> flag_pmissing_2 ] \in Masks
    BY DEF Masks, PacketsMissing, Skips, EndsEvent, HookTypeOK
  <2>4. masks' \in [CPUs -> Masks]
    BY <1>3, <2>3 DEF Classify, HookTypeOK
  <2>5. proc_last_pmissing_2' \in 0 .. CtrMod - 1 /\ proc_pmissing_2' \in Nat
    BY <1>3, <2>2 DEF Classify, HookTypeOK
  <2> QED
    BY <1>3, <2>4, <2>5
       DEF Classify, HookTypeOK, ShmTypeOK, Places, EventHasBegun, Handling,
           shm, env, positions, counters, switches, ioctl, ghosts
<1>4. CASE PutWord(c)
  <2>1. skb[c].id \in Nat /\ ring_loop_2 \in Nat
    BY <1>0, <1>4 DEF PutWord, Packets, HookTypeOK, LoopRange
  <2>2. EntryWord(ring_loop_2, masks[c].missing, masks[c].eevent, skb[c].id) \in Words
    BY <1>0, <2>1, EntryWordType DEF Masks
  <2>3. word' \in [Slots -> Words]
    BY <1>4, <2>2 DEF PutWord, HookTypeOK, ShmTypeOK
  <2> QED
    BY <1>4, <2>3
       DEF PutWord, HookTypeOK, ShmTypeOK, Places, EventHasBegun, Handling,
           env, positions, counters, switches, ioctl, ghosts
<1>5. CASE PutLength(c)
  <2>1. skb[c].len \in 0 .. MaxPacket
    BY <1>0, <1>5, LengthFits DEF PutLength, Packets
  <2>2. length' \in [Slots -> 0 .. MaxPacket]
    BY <1>5, <2>1 DEF PutLength, HookTypeOK, ShmTypeOK
  <2> QED
    BY <1>5, <2>2
       DEF PutLength, HookTypeOK, ShmTypeOK, Places, EventHasBegun, Handling,
           env, positions, counters, switches, ioctl, ghosts
<1>6. CASE Advance(c)
  <2> DEFINE pnt   == buf_pnt_2 + skb[c].len
             slot  == ring_pnt_2 + 1
             wraps == WrapsAt(masks[c].eevent, pnt, slot)
             entry == EntryOf(skb[c], masks[c], buf_pnt_2, ring_pnt_2, ring_loop_2)
  <2>1. skb[c] \in Packets
    BY <1>0, <1>6 DEF Advance
  <2>2. pnt \in Nat /\ slot \in Nat /\ masks[c].eevent \in BOOLEAN
    <3>1. skb[c].len \in Nat
      BY <2>1, LengthFits DEF Packets
    <3>2. ring_pnt_2 \in Nat /\ buf_pnt_2 \in Nat /\ masks[c].eevent \in BOOLEAN
      BY <1>0 DEF Masks, HookTypeOK, Slots
    <3> QED
      BY <3>1, <3>2
  <2>3. buf_pnt_2' \in 0 .. BufEnd /\ ring_pnt_2' \in Slots
    <3>1. CASE wraps
      BY <1>6, <3>1, RingAssumption DEF Advance, BufEnd, Slots
    <3>2. CASE ~ wraps
      BY <1>6, <2>2, <3>2, NoWrapInBounds DEF Advance
    <3> QED
      BY <3>1, <3>2
  <2>4. ring_loop_2' \in 0 .. LoopRange - 1
    <3>1. ring_loop_2 + 1 \in Int /\ LoopRange \in Nat \ {0}
      BY RingAssumption DEF HookTypeOK, LoopRange
    <3>2. (ring_loop_2 + 1) % LoopRange \in 0 .. LoopRange - 1
      BY <3>1, ModBound
    <3> QED
      BY <1>6, <3>2 DEF Advance, HookTypeOK
  <2>5. entry \in Entries
    BY <1>0, <2>1 DEF EntryOf, Entries, Packets, Masks, HookTypeOK
  <2>6. lap' \in Nat /\ written' \in Seq(Entries)
    BY <1>6, <2>5 DEF Advance, HookTypeOK
  <2> QED
    BY <1>6, <2>3, <2>4, <2>6
       DEF Advance, HookTypeOK, ShmTypeOK, Places, EventHasBegun, Handling,
           shm, env, counters, switches, ioctl
<1>7. CASE PutTail(c)
  <2>1. NoMasks \in Masks
    BY DEF NoMasks, Masks
  <2> QED
    BY <1>7, <2>1
       DEF PutTail, HookTypeOK, ShmTypeOK, Places, EventHasBegun, Handling,
           env, positions, counters, switches, ioctl, ghosts
<1> QED
  BY <1>1, <1>2, <1>3, <1>4, <1>5, <1>6, <1>7 DEF HookStep

(* So does every store of an ioctl, whenever it comes.                     *)
LEMMA TypeIoctl == TypeInv /\ (ResetStep \/ Switch) => TypeInv'
<1> SUFFICES ASSUME TypeInv, ResetStep \/ Switch PROVE TypeInv'
  OBVIOUS
<1> USE RingAssumption, HookAssumption
    DEF TypeInv, HookTypeOK, ShmTypeOK, EventHasBegun, Handling,
        shm, env, positions, counters, switches, cpus, ioctl, ghosts
<1>1. CASE ResetBuf
  BY <1>1 DEF ResetBuf, BufEnd
<1>2. CASE ResetRing
  <2>1. 0 \in Slots
    BY DEF Slots
  <2> QED
    BY <1>2, <2>1 DEF ResetRing
<1>3. CASE ResetLoop
  BY <1>3 DEF ResetLoop, LoopRange
<1>4. CASE ResetProc
  BY <1>4 DEF ResetProc
<1>5. CASE ResetTail
  BY <1>5 DEF ResetTail, BufEnd
<1>6. CASE SwitchPmissing
  BY <1>6 DEF SwitchPmissing, RaisePmissing, LowerPmissing
<1>7. CASE SwitchEevent
  BY <1>7 DEF SwitchEevent, RaiseEevent, LowerEevent
<1> QED
  BY <1>1, <1>2, <1>3, <1>4, <1>5, <1>6, <1>7 DEF ResetStep, Switch

(* What a step of the hook may find and leave while schar_reset_2 runs.    *)
LEMMA ClearedType ==
  ASSUME NEW x \in Nat, NEW n \in Nat, NEW falls, NEW store
  PROVE  /\ Cleared(x, store, falls) \in 0 .. x
         /\ Mixed(x, store, falls) \subseteq 0 .. x
         /\ Added(x, n, store, falls) \subseteq Nat
BY DEF Cleared, Mixed, Added

(* The stores that fall into the step keep what they clear proper.         *)
LEMMA TypeCleared ==
  ASSUME TypeInv, NEW falls
  PROVE  /\ ClearPositions(falls) => /\ buf_pnt_2' \in 0 .. BufEnd /\ ring_pnt_2' \in Slots
                                     /\ ring_loop_2' \in 0 .. LoopRange - 1
         /\ ClearCounters(falls) => /\ proc_last_pmissing_2' \in 0 .. CtrMod - 1
                                    /\ proc_rpackets_2' \in Nat /\ proc_pmissing_2' \in Nat
         /\ ClearTail(falls) => tail' \in 0 .. BufEnd
<1>1. \A x, store : Cleared(x, store, falls) \in {x, 0}
  BY DEF Cleared
<1>2. /\ 0 \in 0 .. BufEnd /\ 0 \in Slots /\ 0 \in 0 .. LoopRange - 1 /\ 0 \in 0 .. CtrMod - 1
      /\ 0 \in Nat
  BY RingAssumption, HookAssumption DEF BufEnd, Slots, LoopRange
<1>3. /\ buf_pnt_2 \in 0 .. BufEnd /\ ring_pnt_2 \in Slots /\ ring_loop_2 \in 0 .. LoopRange - 1
      /\ proc_last_pmissing_2 \in 0 .. CtrMod - 1 /\ proc_rpackets_2 \in Nat
      /\ proc_pmissing_2 \in Nat /\ tail \in 0 .. BufEnd
  BY DEF TypeInv, HookTypeOK, ShmTypeOK
<1> HIDE DEF Cleared
<1>4. /\ Cleared(buf_pnt_2, "buf", falls) \in 0 .. BufEnd
      /\ Cleared(ring_pnt_2, "ring", falls) \in Slots
      /\ Cleared(ring_loop_2, "loop", falls) \in 0 .. LoopRange - 1
      /\ Cleared(proc_last_pmissing_2, "proc", falls) \in 0 .. CtrMod - 1
      /\ Cleared(proc_rpackets_2, "proc", falls) \in Nat
      /\ Cleared(proc_pmissing_2, "proc", falls) \in Nat
      /\ Cleared(tail, "tail", falls) \in 0 .. BufEnd
  BY <1>1, <1>2, <1>3
<1> QED
  BY <1>4 DEF ClearPositions, ClearCounters, ClearTail

(* A step of the hook that a reset falls into keeps it as well.            *)
LEMMA TypeRaced == ASSUME TypeInv, NEW c \in CPUs, RacedStep(c) PROVE TypeInv'
<1> USE DEF TypeInv
<1>0. /\ skb[c] \in Packets \cup {NoPacket} /\ masks[c] \in Masks
      /\ (pc[c] # "idle" => skb[c] \in Packets)
  BY DEF HookTypeOK, Handling
<1>1. PICK falls :
        /\ reset' \in {"no", "ring", "loop", "proc", "tail"} /\ resets' \in 0 .. MaxResets
        /\ UNCHANGED <<env, switches, raised>>
        /\ \/ RacedCopy(c, falls) \/ RacedClassify(c, falls) \/ RacedWord(c, falls)
           \/ RacedAdvance(c, falls) \/ RacedTail(c, falls)
  <2>1. PICK from \in 1 .. 5, to \in 2 .. 6 :
          /\ reset' = ResetPlaces[to]
          /\ IF from = 1 THEN resets < MaxResets /\ resets' = resets + 1
                         ELSE resets' = resets
          /\ LET falls == {ResetStores[k] : k \in from .. to - 1}
             IN  \/ RacedCopy(c, falls) \/ RacedClassify(c, falls) \/ RacedWord(c, falls)
                 \/ RacedAdvance(c, falls) \/ RacedTail(c, falls)
          /\ UNCHANGED <<env, switches, raised>>
    BY DEF RacedStep
  <2>3. reset' \in {"no", "ring", "loop", "proc", "tail"}
    BY <2>1 DEF ResetPlaces
  <2>4. resets' \in 0 .. MaxResets
    BY <2>1, HookAssumption DEF HookTypeOK
  <2> QED
    BY <2>1, <2>3, <2>4
<1>2. /\ ClearPositions(falls) => /\ buf_pnt_2' \in 0 .. BufEnd /\ ring_pnt_2' \in Slots
                                  /\ ring_loop_2' \in 0 .. LoopRange - 1
      /\ ClearCounters(falls) => /\ proc_last_pmissing_2' \in 0 .. CtrMod - 1
                                 /\ proc_rpackets_2' \in Nat /\ proc_pmissing_2' \in Nat
      /\ ClearTail(falls) => tail' \in 0 .. BufEnd
  BY TypeCleared
<1>3. proc_last_pmissing_2 \in Nat /\ proc_rpackets_2 \in Nat /\ proc_pmissing_2 \in Nat
  BY HookAssumption DEF HookTypeOK
<1>4. EventHasBegun'
  BY <1>1 DEF EventHasBegun, env
<1>5. CASE RacedCopy(c, falls)
  <2>1. skb[c].id \in Nat
    BY <1>0, <1>5 DEF RacedCopy, Packets
  <2>2. mem' \in [Units -> Nat]
    BY <1>5, <2>1 DEF RacedCopy, HookTypeOK, ShmTypeOK
  <2>3. /\ proc_rpackets_2' \in Nat /\ proc_pmissing_2' \in Nat
        /\ proc_last_pmissing_2' \in 0 .. CtrMod - 1
    BY <1>3, <1>5, ClearedType, HookAssumption DEF RacedCopy, HookTypeOK, Cleared
  <2>4. HookTypeOK'
    BY <1>1, <1>2, <1>5, <2>2, <2>3
       DEF RacedCopy, HookTypeOK, ShmTypeOK, Places, env, switches, ghosts
  <2>5. Handling'
    BY <1>5 DEF RacedCopy, Handling, HookTypeOK
  <2> QED
    BY <1>4, <2>4, <2>5
<1>6. CASE RacedClassify(c, falls)
  <2>0. skb[c].id % CtrMod \in 0 .. CtrMod - 1
    <3>1. \A a \in Nat : a % CtrMod \in 0 .. CtrMod - 1
      BY ModBound, HookAssumption
    <3> QED
      BY <1>0, <1>6, <3>1 DEF RacedClassify, Packets
  <2>1. masks' \in [CPUs -> Masks] /\ proc_pmissing_2' \in Nat
    <3>1. PICK last, slot, loop :
            LET missing == flag_pmissing_2 /\ Skips(skb[c].id % CtrMod, last, slot, loop)
            IN  /\ masks' = [masks EXCEPT ![c] = [ missing |-> missing, eevent |-> EndsEvent(skb[c]),
                                                   checked |-> flag_pmissing_2 ]]
                /\ proc_pmissing_2' \in
                     IF missing THEN Added(proc_pmissing_2, 1, "proc", falls)
                                ELSE {Cleared(proc_pmissing_2, "proc", falls)}
      BY <1>6 DEF RacedClassify
    <3>2. Added(proc_pmissing_2, 1, "proc", falls) \subseteq Nat
          /\ Cleared(proc_pmissing_2, "proc", falls) \in Nat
      BY <1>3, ClearedType
    <3>3. [ missing |-> flag_pmissing_2 /\ Skips(skb[c].id % CtrMod, last, slot, loop),
            eevent |-> EndsEvent(skb[c]), checked |-> flag_pmissing_2 ] \in Masks
      BY DEF Masks, Skips, EndsEvent, HookTypeOK
    <3> QED
      BY <3>1, <3>2, <3>3 DEF HookTypeOK
  <2>2. proc_last_pmissing_2' \in 0 .. CtrMod - 1 /\ proc_rpackets_2' \in Nat
    <3>1. /\ proc_last_pmissing_2' \in
                IF flag_pmissing_2 THEN Mixed(skb[c].id % CtrMod, "proc", falls)
                                   ELSE {Cleared(proc_last_pmissing_2, "proc", falls)}
          /\ proc_rpackets_2' = Cleared(proc_rpackets_2, "proc", falls)
      BY <1>6 DEF RacedClassify
    <3>2. \A x : /\ Cleared(x, "proc", falls) \in {x, 0}
                 /\ Mixed(x, "proc", falls) \subseteq {x, 0}
      BY DEF Cleared, Mixed
    <3>3. /\ 0 \in 0 .. CtrMod - 1 /\ proc_last_pmissing_2 \in 0 .. CtrMod - 1
          /\ proc_rpackets_2 \in Nat
      BY HookAssumption DEF HookTypeOK
    <3> QED
      BY <2>0, <3>1, <3>2, <3>3
  <2>4. HookTypeOK'
    BY <1>1, <1>2, <1>6, <2>1, <2>2
       DEF RacedClassify, HookTypeOK, ShmTypeOK, Places, env, switches, ghosts
  <2>5. Handling'
    BY <1>6 DEF RacedClassify, Handling, HookTypeOK
  <2> QED
    BY <1>4, <2>4, <2>5
<1>7. CASE RacedWord(c, falls)
  <2>1. PICK slot \in Mixed(ring_pnt_2, "ring", falls), loop \in Mixed(ring_loop_2, "loop", falls) :
          word' = [word EXCEPT ![slot] =
                     EntryWord(loop, masks[c].missing, masks[c].eevent, skb[c].id)]
    BY <1>7 DEF RacedWord
  <2>2. loop \in Nat /\ skb[c].id \in Nat
    BY <1>0, <1>7 DEF RacedWord, Packets, HookTypeOK, Mixed, Cleared
  <2>3. EntryWord(loop, masks[c].missing, masks[c].eevent, skb[c].id) \in Words
    BY <1>0, <2>2, EntryWordType DEF Masks
  <2>4. word' \in [Slots -> Words]
    BY <2>1, <2>3 DEF HookTypeOK, ShmTypeOK
  <2>5. HookTypeOK'
    BY <1>1, <1>2, <1>7, <2>4
       DEF RacedWord, HookTypeOK, ShmTypeOK, Places, env, switches, ghosts
  <2>6. Handling'
    BY <1>7 DEF RacedWord, Handling, HookTypeOK
  <2> QED
    BY <1>4, <2>5, <2>6
<1>8. CASE RacedAdvance(c, falls)
  <2>0. skb[c] \in Packets
    BY <1>0, <1>8 DEF RacedAdvance
  <2>1. /\ buf_pnt_2 \in Nat /\ ring_pnt_2 \in Nat /\ ring_loop_2 \in Nat /\ skb[c].len \in Nat
        /\ masks[c].eevent \in BOOLEAN
    BY <1>0, <2>0, LengthFits DEF Packets, Masks, HookTypeOK, Slots
  <2>2. /\ buf_pnt_2' \in 0 .. BufEnd /\ ring_pnt_2' \in Slots
        /\ ring_loop_2' \in 0 .. LoopRange - 1 /\ lap' \in Nat
    <3>1. PICK pnt \in Added(buf_pnt_2, skb[c].len, "buf", falls),
               slot \in Added(ring_pnt_2, 1, "ring", falls) :
            IF WrapsAt(masks[c].eevent, pnt, slot)
            THEN /\ buf_pnt_2' = 0 /\ ring_pnt_2' = 0
                 /\ \E loop \in Added(ring_loop_2, 1, "loop", falls) : ring_loop_2' = loop % LoopRange
                 /\ lap' = lap + 1
            ELSE /\ buf_pnt_2'  \in Mixed(pnt, "buf", falls)
                 /\ ring_pnt_2' \in Mixed(slot, "ring", falls)
                 /\ ring_loop_2' = Cleared(ring_loop_2, "loop", falls)
                 /\ lap' = lap
      BY <1>8 DEF RacedAdvance
    <3>2. pnt \in Nat /\ slot \in Nat
      BY <2>1, ClearedType
    <3>3. CASE WrapsAt(masks[c].eevent, pnt, slot)
      <4>1. PICK loop \in Added(ring_loop_2, 1, "loop", falls) : ring_loop_2' = loop % LoopRange
        BY <3>1, <3>3
      <4>2. loop \in Int /\ LoopRange \in Nat \ {0}
        BY <2>1, ClearedType, RingAssumption DEF LoopRange
      <4>3. ring_loop_2' \in 0 .. LoopRange - 1
        BY <4>1, <4>2, ModBound
      <4> QED
        BY <3>1, <3>3, <4>3, RingAssumption DEF HookTypeOK, BufEnd, Slots
    <3>4. CASE ~ WrapsAt(masks[c].eevent, pnt, slot)
      <4>1. pnt \in 0 .. BufEnd /\ slot \in Slots
        BY <2>1, <3>2, <3>4, NoWrapInBounds
      <4>2. Mixed(pnt, "buf", falls) \subseteq 0 .. pnt /\ Mixed(slot, "ring", falls) \subseteq 0 .. slot
        BY <3>2, ClearedType
      <4>3. buf_pnt_2' \in 0 .. pnt /\ ring_pnt_2' \in 0 .. slot /\ lap' = lap
            /\ ring_loop_2' = Cleared(ring_loop_2, "loop", falls)
        BY <3>1, <3>4, <4>2
      <4> QED
        BY <4>1, <4>3, RingAssumption DEF HookTypeOK, BufEnd, Slots, Cleared, LoopRange
    <3> QED
      BY <3>3, <3>4
  <2>3. EntryOf(skb[c], masks[c], buf_pnt_2, ring_pnt_2, ring_loop_2) \in Entries
    BY <1>0, <2>0 DEF EntryOf, Entries, Packets, Masks, HookTypeOK
  <2>4. written' \in Seq(Entries)
    BY <1>8, <2>3 DEF RacedAdvance, HookTypeOK
  <2>5. HookTypeOK'
    BY <1>1, <1>2, <1>8, <2>2, <2>4
       DEF RacedAdvance, HookTypeOK, ShmTypeOK, Places, env, switches
  <2>6. Handling'
    BY <1>8 DEF RacedAdvance, Handling, HookTypeOK
  <2> QED
    BY <1>4, <2>5, <2>6
<1>9. CASE RacedTail(c, falls)
  <2>1. tail' \in 0 .. BufEnd
    <3>1. buf_pnt_2 \in 0 .. BufEnd /\ BufEnd \in Nat
      BY RingAssumption DEF HookTypeOK, BufEnd
    <3>2. PICK pnt \in Mixed(buf_pnt_2, "buf", falls) : tail' \in Mixed(pnt, "tail", falls)
      BY <1>9 DEF RacedTail
    <3> QED
      BY <3>1, <3>2 DEF Mixed, Cleared
  <2>2. NoMasks \in Masks
    BY DEF NoMasks, Masks
  <2>3. HookTypeOK'
    BY <1>1, <1>2, <1>9, <2>1, <2>2
       DEF RacedTail, HookTypeOK, ShmTypeOK, Places, env, switches, ghosts
  <2>4. Handling'
    BY <1>9 DEF RacedTail, Handling, HookTypeOK
  <2> QED
    BY <1>4, <2>3, <2>4
<1> QED
  BY <1>1, <1>5, <1>6, <1>7, <1>8, <1>9

(* Nothing changes if nothing changes.                                     *)
LEMMA TypeStutter == TypeInv /\ UNCHANGED hookVars => TypeInv'
  BY DEF TypeInv, HookTypeOK, ShmTypeOK, EventHasBegun, Handling, hookVars,
         shm, env, positions, counters, switches, cpus, ioctl, ghosts

\* Every step of the driver keeps the types.
LEMMA TypeNext == TypeInv /\ [DriverNext]_hookVars => TypeInv'
  BY TypeEnvironment, TypeHook, TypeRaced, TypeIoctl, TypeStutter DEF DriverNext

(* The invariant, as a fact about every reachable state.                   *)
THEOREM TypeInvariant == DriverSpec => []TypeInv
  BY TypeInit, TypeNext, PTL DEF DriverSpec

(* The driver never leaves the shared memory: whatever CPUs the packets    *)
(* come in on, and even if an ioctl resets it in the middle of a packet,   *)
(* its write position leaves room for the largest packet, its entry lies   *)
(* in the ring, and what it publishes is a proper entry and offset         *)
(* (netif_rx_hook_2 and schar_reset_2).                                    *)
THEOREM TypeCorrect == DriverSpec => []HookTypeOK
<1>1. TypeInv => HookTypeOK
  BY DEF TypeInv
<1> QED
  BY TypeInvariant, <1>1, PTL

-----------------------------------------------------------------------------
(* Entries and data belong together.                                       *)

Writing == {"copy", "classify", "word", "length", "advance", "tail"}

(* At most one CPU is inside the part of the hook that eth_lock guards.    *)
Mutex == \A c \in CPUs : pc[c] \in Writing <=> eth_lock = c

(* What was written in the present loop lies behind the write position.    *)
Behind ==
  \A k \in DOMAIN written :
    \/ written[k].lap < lap
    \/ /\ written[k].lap = lap
       /\ written[k].off + written[k].len <= buf_pnt_2
       /\ written[k].slot < ring_pnt_2

(* What a CPU has already written of its packet is at the write position.  *)
DataInPlace ==
  \A c \in CPUs : pc[c] \in {"classify", "word", "length", "advance"} =>
    \A u \in buf_pnt_2 .. buf_pnt_2 + skb[c].len - 1 : mem[u] = skb[c].id
WordInPlace ==
  \A c \in CPUs : pc[c] \in {"length", "advance"} =>
    word[ring_pnt_2] = EntryWord(ring_loop_2, masks[c].missing, masks[c].eevent, skb[c].id)
LengthInPlace ==
  \A c \in CPUs : pc[c] = "advance" => length[ring_pnt_2] = skb[c].len

Intact == \A k \in Survivors : Holds(k)

Undisturbed ==
  reset = "no" /\ Behind /\ DataInPlace /\ WordInPlace /\ LengthInPlace /\ Intact

DataInv == Mutex /\ (resets = 0 => Undisturbed)

(* Where a written packet and its entry are.                               *)
LEMMA EntryFacts ==
  ASSUME TypeInv, NEW k \in DOMAIN written
  PROVE  /\ written[k] \in Entries
         /\ written[k].off \in 0 .. BufEnd /\ written[k].slot \in Slots
         /\ written[k].len \in 1 .. MaxPacket /\ written[k].lap \in Nat
         /\ \A u \in written[k].off .. written[k].off + written[k].len - 1 : u \in Units
<1>1. written[k] \in Entries
  BY DEF TypeInv, HookTypeOK
<1>2. /\ written[k].off \in 0 .. BufEnd /\ written[k].slot \in Slots
      /\ written[k].len \in Lens /\ written[k].lap \in Nat
  BY <1>1 DEF Entries
<1>3. written[k].len \in 1 .. MaxPacket
  BY <1>2, LengthFits
<1>4. \A u \in written[k].off .. written[k].off + written[k].len - 1 : u \in Units
  BY <1>2, <1>3, RingAssumption DEF Units, BufEnd
<1> QED
  BY <1>1, <1>2, <1>3, <1>4

(* The packet in hand and the place it goes to.                            *)
LEMMA PacketFacts ==
  ASSUME TypeInv, NEW c \in CPUs, pc[c] \in Writing
  PROVE  /\ skb[c] \in Packets /\ skb[c].id \in Nat /\ skb[c].len \in 1 .. MaxPacket
         /\ Spill \in Nat /\ skb[c].len + Spill <= MaxPacket
         /\ buf_pnt_2 \in 0 .. BufEnd /\ ring_pnt_2 \in Slots /\ ring_loop_2 \in Nat
         /\ lap \in Nat
         /\ \A u \in buf_pnt_2 .. buf_pnt_2 + skb[c].len - 1 : u \in Units
<1>1. skb[c] \in Packets
  BY DEF TypeInv, Handling, Writing
<1>2. skb[c].id \in Nat /\ skb[c].len \in Lens
  BY <1>1 DEF Packets
<1>3. skb[c].len \in 1 .. MaxPacket /\ Spill \in Nat /\ skb[c].len + Spill <= MaxPacket
  BY <1>2, LengthFits
<1>4. buf_pnt_2 \in 0 .. BufEnd /\ ring_pnt_2 \in Slots /\ ring_loop_2 \in Nat /\ lap \in Nat
  BY DEF TypeInv, HookTypeOK
<1>5. \A u \in buf_pnt_2 .. buf_pnt_2 + skb[c].len - 1 : u \in Units
  BY <1>3, <1>4, RingAssumption DEF Units, BufEnd
<1> QED
  BY <1>1, <1>2, <1>3, <1>4, <1>5

(* Nothing has been written at first.                                      *)
LEMMA DataInit == HookInit => DataInv
  BY HookAssumption
     DEF HookInit, DataInv, Mutex, Writing, Undisturbed, Behind, DataInPlace, WordInPlace,
         LengthInPlace, Intact, Survivors

(* While one CPU writes, no other does.                                    *)
LEMMA Alone ==
  ASSUME Mutex, NEW c \in CPUs, pc[c] \in Writing, NEW d \in CPUs, d # c
  PROVE  pc[d] \notin Writing
  BY DEF Mutex

(* The hook keeps the CPUs apart.                                          *)
LEMMA MutexHook ==
  ASSUME TypeInv, Mutex, NEW c \in CPUs, HookStep(c)
  PROVE  Mutex'
<1>0. pc \in [CPUs -> Places]
  BY DEF TypeInv, HookTypeOK
<1>1. CASE Lock(c)
  BY <1>0, <1>1, HookAssumption DEF Lock, Mutex, Writing
<1>2. CASE PutTail(c)
  BY <1>0, <1>2, HookAssumption DEF PutTail, Mutex, Writing
<1>3. CASE CopyData(c) \/ Classify(c) \/ PutWord(c) \/ PutLength(c) \/ Advance(c)
  BY <1>0, <1>3 DEF CopyData, Classify, PutWord, PutLength, Advance, Mutex, Writing
<1> QED
  BY <1>1, <1>2, <1>3 DEF HookStep

(* So does a hook that a reset falls into; and then there has been one.    *)
LEMMA MutexRaced ==
  ASSUME TypeInv, DataInv, NEW c \in CPUs, RacedStep(c)
  PROVE  Mutex' /\ resets' # 0
<1>0. pc \in [CPUs -> Places] /\ resets \in Nat /\ Mutex /\ (resets = 0 => reset = "no")
  BY DEF TypeInv, HookTypeOK, DataInv, Undisturbed
<1>1. PICK from \in 1 .. 5, to \in 2 .. 6 :
        /\ reset = ResetPlaces[from]
        /\ IF from = 1 THEN resets' = resets + 1 ELSE resets' = resets
        /\ LET falls == {ResetStores[k] : k \in from .. to - 1}
           IN  \/ RacedCopy(c, falls) \/ RacedClassify(c, falls) \/ RacedWord(c, falls)
               \/ RacedAdvance(c, falls) \/ RacedTail(c, falls)
  BY DEF RacedStep
<1>2. resets' # 0
  <2>1. CASE from = 1
    BY <1>0, <1>1, <2>1
  <2>2. CASE from # 1
    <3>1. reset # "no"
      BY <1>1, <2>2 DEF ResetPlaces
    <3> QED
      BY <1>0, <1>1, <2>2, <3>1
  <2> QED
    BY <2>1, <2>2
<1>3. PICK falls : \/ RacedCopy(c, falls) \/ RacedClassify(c, falls) \/ RacedWord(c, falls)
                   \/ RacedAdvance(c, falls) \/ RacedTail(c, falls)
  BY <1>1
<1>4. CASE RacedTail(c, falls)
  <2>1. pc[c] = "tail" /\ pc' = [pc EXCEPT ![c] = "idle"] /\ eth_lock' = None
    BY <1>4 DEF RacedTail
  <2> QED
    BY <1>0, <1>2, <2>1, HookAssumption DEF Mutex, Writing
<1>5. CASE RacedCopy(c, falls) \/ RacedClassify(c, falls) \/ RacedWord(c, falls) \/ RacedAdvance(c, falls)
  <2>1. /\ eth_lock' = eth_lock /\ pc[c] \in {"copy", "classify", "word", "advance"}
        /\ \E place \in {"classify", "word", "length", "tail"} : pc' = [pc EXCEPT ![c] = place]
    <3>1. CASE RacedCopy(c, falls)
      BY <3>1 DEF RacedCopy
    <3>2. CASE RacedClassify(c, falls)
      BY <3>2 DEF RacedClassify
    <3>3. CASE RacedWord(c, falls)
      BY <3>3 DEF RacedWord
    <3>4. CASE RacedAdvance(c, falls)
      BY <3>4 DEF RacedAdvance
    <3> QED
      BY <1>5, <3>1, <3>2, <3>3, <3>4
  <2> QED
    BY <1>0, <1>2, <2>1 DEF Mutex, Writing
<1> QED
  BY <1>2, <1>3, <1>4, <1>5

(* The steps that write nothing into the shared memory and move nothing.   *)
LEMMA DataQuiet ==
  ASSUME Undisturbed, NEW c \in CPUs,
         UNCHANGED <<mem, word, length, positions, reset, ghosts>>,
         \A d \in CPUs \ {c} : pc'[d] = pc[d] /\ skb'[d] = skb[d] /\ masks'[d] = masks[d],
         \/ pc'[c] \notin {"classify", "word", "length", "advance"}
         \/ pc[c] = "classify" /\ pc'[c] = "word" /\ skb'[c] = skb[c]
  PROVE  Undisturbed'
<1>1. Behind' /\ Intact'
  BY DEF Undisturbed, Behind, Intact, Survivors, Holds, positions, ghosts
<1>2. DataInPlace'
  BY DEF Undisturbed, DataInPlace, positions
<1>3. WordInPlace' /\ LengthInPlace'
  BY DEF Undisturbed, WordInPlace, LengthInPlace, positions
<1> QED
  BY <1>1, <1>2, <1>3 DEF Undisturbed

(* The copy spares whatever survives: the packets of this loop lie behind  *)
(* it, those of the last one beyond the largest packet.                    *)
LEMMA DataCopy ==
  ASSUME TypeInv, Mutex, Undisturbed, NEW c \in CPUs, CopyData(c)
  PROVE  Undisturbed'
<1> USE DEF Undisturbed
<1>0. /\ pc[c] \in Writing /\ pc[c] = "copy" /\ pc \in [CPUs -> Places]
      /\ mem \in [Units -> Nat]
  BY DEF CopyData, Writing, TypeInv, HookTypeOK, ShmTypeOK
<1>1. /\ UNCHANGED <<buf_pnt_2, ring_pnt_2, ring_loop_2, lap, written, word, length, skb, masks, reset>>
      /\ pc' = [pc EXCEPT ![c] = "classify"]
  BY DEF CopyData, positions, ghosts, ioctl
<1>2. \A d \in CPUs \ {c} : pc'[d] = pc[d] /\ pc[d] \notin Writing
  BY <1>0, <1>1, Alone
<1>3. pc'[c] = "classify"
  BY <1>0, <1>1
<1>4. Behind' /\ WordInPlace' /\ LengthInPlace'
  BY <1>1, <1>2, <1>3 DEF Behind, WordInPlace, LengthInPlace, Writing
<1>5. DataInPlace'
  <2>1. \A u \in buf_pnt_2 .. buf_pnt_2 + skb[c].len - 1 : mem'[u] = skb[c].id
    <3> TAKE u \in buf_pnt_2 .. buf_pnt_2 + skb[c].len - 1
    <3>1. u \in Units /\ u \in buf_pnt_2 .. buf_pnt_2 + skb[c].len + Spill - 1
      BY <1>0, PacketFacts
    <3> QED
      BY <3>1 DEF CopyData
  <2> QED
    BY <2>1, <1>1, <1>2, <1>3 DEF DataInPlace, Writing
<1>6. Intact'
  <2> SUFFICES ASSUME NEW k \in Survivors PROVE Holds(k)'
    BY <1>1 DEF Intact, Survivors
  <2>1. k \in DOMAIN written /\ Holds(k)
    BY DEF Survivors, Intact
  <2>2. \A u \in written[k].off .. written[k].off + written[k].len - 1 : mem'[u] = mem[u]
    <3> TAKE u \in written[k].off .. written[k].off + written[k].len - 1
    <3>1. u \in Units
      BY <2>1, EntryFacts
    <3>2. u \notin buf_pnt_2 .. buf_pnt_2 + skb[c].len + Spill - 1
      <4>1. /\ written[k].off \in 0 .. BufEnd /\ written[k].len \in 1 .. MaxPacket
            /\ written[k].lap \in Nat
        BY <2>1, EntryFacts
      <4>2. /\ skb[c].len \in 1 .. MaxPacket /\ Spill \in Nat /\ skb[c].len + Spill <= MaxPacket
            /\ buf_pnt_2 \in 0 .. BufEnd /\ lap \in Nat
        BY <1>0, PacketFacts
      <4>3. MaxPacket \in Nat /\ BufEnd \in Int
        BY RingAssumption DEF BufEnd
      <4>4. \/ written[k].lap = lap /\ written[k].off + written[k].len <= buf_pnt_2
            \/ written[k].off >= buf_pnt_2 + MaxPacket
        BY <2>1, <4>1, <4>2 DEF Survivors, Behind
      <4> QED
        BY <4>1, <4>2, <4>3, <4>4
    <3> QED
      BY <3>1, <3>2, <1>0 DEF CopyData
  <2> QED
    BY <1>1, <2>1, <2>2 DEF Holds
<1> QED
  BY <1>1, <1>4, <1>5, <1>6

(* The ring entry of a survivor is not the one being written.              *)
LEMMA OtherSlot ==
  ASSUME TypeInv, Undisturbed, NEW k \in Survivors
  PROVE  k \in DOMAIN written /\ written[k].slot \in Slots /\ written[k].slot # ring_pnt_2
<1>1. k \in DOMAIN written
  BY DEF Survivors
<1>2. written[k].lap \in Nat /\ written[k].slot \in Slots
  BY <1>1, EntryFacts
<1>3. lap \in Nat /\ ring_pnt_2 \in Slots
  BY DEF TypeInv, HookTypeOK
<1>4. written[k].slot < ring_pnt_2 \/ written[k].slot > ring_pnt_2
  BY <1>1, <1>2, <1>3 DEF Survivors, Undisturbed, Behind
<1> QED
  BY <1>1, <1>2, <1>3, <1>4 DEF Slots

(* The entry's word.                                                       *)
LEMMA DataWord ==
  ASSUME TypeInv, Mutex, Undisturbed, NEW c \in CPUs, PutWord(c)
  PROVE  Undisturbed'
<1> USE DEF Undisturbed
<1>0. /\ pc[c] \in Writing /\ pc[c] = "word" /\ pc \in [CPUs -> Places]
      /\ word \in [Slots -> Words] /\ ring_pnt_2 \in Slots
  BY DEF PutWord, Writing, TypeInv, HookTypeOK, ShmTypeOK
<1>1. /\ UNCHANGED <<buf_pnt_2, ring_pnt_2, ring_loop_2, lap, written, mem, length, skb, masks, reset>>
      /\ pc' = [pc EXCEPT ![c] = "length"]
  BY DEF PutWord, positions, ghosts, ioctl
<1>2. \A d \in CPUs \ {c} : pc'[d] = pc[d] /\ pc[d] \notin Writing
  BY <1>0, <1>1, Alone
<1>3. pc'[c] = "length"
  BY <1>0, <1>1
<1>4. Behind' /\ DataInPlace' /\ LengthInPlace'
  BY <1>0, <1>1, <1>2, <1>3 DEF Behind, DataInPlace, LengthInPlace, Writing
<1>5. word'[ring_pnt_2] = EntryWord(ring_loop_2, masks[c].missing, masks[c].eevent, skb[c].id)
  BY <1>0 DEF PutWord
<1>6. WordInPlace'
  BY <1>1, <1>2, <1>3, <1>5 DEF WordInPlace, Writing
<1>7. Intact'
  <2> SUFFICES ASSUME NEW k \in Survivors PROVE Holds(k)'
    BY <1>1 DEF Intact, Survivors
  <2>1. /\ k \in DOMAIN written /\ Holds(k)
        /\ written[k].slot \in Slots /\ written[k].slot # ring_pnt_2
    BY OtherSlot DEF Intact
  <2>2. word'[written[k].slot] = word[written[k].slot]
    BY <1>0, <2>1 DEF PutWord
  <2> QED
    BY <1>1, <2>1, <2>2 DEF Holds
<1> QED
  BY <1>1, <1>4, <1>6, <1>7

(* The entry's length.                                                     *)
LEMMA DataLength ==
  ASSUME TypeInv, Mutex, Undisturbed, NEW c \in CPUs, PutLength(c)
  PROVE  Undisturbed'
<1> USE DEF Undisturbed
<1>0. /\ pc[c] \in Writing /\ pc[c] = "length" /\ pc \in [CPUs -> Places]
      /\ length \in [Slots -> 0 .. MaxPacket] /\ ring_pnt_2 \in Slots
  BY DEF PutLength, Writing, TypeInv, HookTypeOK, ShmTypeOK
<1>1. /\ UNCHANGED <<buf_pnt_2, ring_pnt_2, ring_loop_2, lap, written, mem, word, skb, masks, reset>>
      /\ pc' = [pc EXCEPT ![c] = "advance"]
  BY DEF PutLength, positions, ghosts, ioctl
<1>2. \A d \in CPUs \ {c} : pc'[d] = pc[d] /\ pc[d] \notin Writing
  BY <1>0, <1>1, Alone
<1>3. pc'[c] = "advance"
  BY <1>0, <1>1
<1>4. Behind' /\ DataInPlace' /\ WordInPlace'
  BY <1>0, <1>1, <1>2, <1>3 DEF Behind, DataInPlace, WordInPlace, Writing
<1>5. length'[ring_pnt_2] = skb[c].len
  BY <1>0 DEF PutLength
<1>6. LengthInPlace'
  BY <1>1, <1>2, <1>3, <1>5 DEF LengthInPlace, Writing
<1>7. Intact'
  <2> SUFFICES ASSUME NEW k \in Survivors PROVE Holds(k)'
    BY <1>1 DEF Intact, Survivors
  <2>1. /\ k \in DOMAIN written /\ Holds(k)
        /\ written[k].slot \in Slots /\ written[k].slot # ring_pnt_2
    BY OtherSlot DEF Intact
  <2>2. length'[written[k].slot] = length[written[k].slot]
    BY <1>0, <2>1 DEF PutLength
  <2> QED
    BY <1>1, <2>1, <2>2 DEF Holds
<1> QED
  BY <1>1, <1>4, <1>6, <1>7

(* Moving on makes the packet in hand a written one, and of the others     *)
(* lets none survive that did not survive before.                          *)
LEMMA DataAdvance ==
  ASSUME TypeInv, Mutex, Undisturbed, NEW c \in CPUs, Advance(c)
  PROVE  Undisturbed'
<1> USE DEF Undisturbed
<1> DEFINE pnt   == buf_pnt_2 + skb[c].len
           slot  == ring_pnt_2 + 1
           wraps == WrapsAt(masks[c].eevent, pnt, slot)
           new   == EntryOf(skb[c], masks[c], buf_pnt_2, ring_pnt_2, ring_loop_2)
           W     == Len(written)
<1>0. /\ pc[c] \in Writing /\ pc[c] = "advance" /\ pc \in [CPUs -> Places]
      /\ written \in Seq(Entries)
  BY DEF Advance, Writing, TypeInv, HookTypeOK
<1>1. /\ UNCHANGED <<mem, word, length, skb, masks, reset>>
      /\ pc' = [pc EXCEPT ![c] = "tail"]
  BY DEF Advance, shm, ioctl
<1>2. \A d \in CPUs \ {c} : pc'[d] = pc[d] /\ pc[d] \notin Writing
  BY <1>0, <1>1, Alone
<1>3. pc'[c] = "tail"
  BY <1>0, <1>1
<1>4. /\ DOMAIN written = 1 .. W /\ DOMAIN written' = 1 .. W + 1 /\ W \in Nat
      /\ \A k \in 1 .. W : written'[k] = written[k]
      /\ written'[W + 1] = new
  BY <1>0 DEF Advance
<1>5. /\ skb[c].len \in 1 .. MaxPacket /\ buf_pnt_2 \in 0 .. BufEnd
      /\ ring_pnt_2 \in Slots /\ lap \in Nat
  BY <1>0, PacketFacts
<1>6. /\ MaxPacket \in Nat /\ BufEnd \in Int /\ Slots \subseteq Nat
  BY RingAssumption DEF BufEnd, Slots
<1>7. /\ new.off = buf_pnt_2 /\ new.len = skb[c].len /\ new.slot = ring_pnt_2
      /\ new.lap = lap /\ new.id = skb[c].id /\ new.loop = ring_loop_2
      /\ new.missing = masks[c].missing /\ new.eevent = masks[c].eevent
  BY DEF EntryOf
<1>8. \/ wraps /\ lap' = lap + 1 /\ buf_pnt_2' = 0 /\ ring_pnt_2' = 0
      \/ ~ wraps /\ lap' = lap /\ buf_pnt_2' = pnt /\ ring_pnt_2' = slot
  BY DEF Advance
<1>9. DataInPlace' /\ WordInPlace' /\ LengthInPlace'
  BY <1>2, <1>3 DEF DataInPlace, WordInPlace, LengthInPlace, Writing
<1> HIDE DEF wraps, new, W
<1>10. \A k \in 1 .. W :
         /\ written[k].off \in 0 .. BufEnd /\ written[k].len \in 1 .. MaxPacket
         /\ written[k].lap \in Nat /\ written[k].slot \in Nat
  BY <1>4, <1>6, EntryFacts
<1>11. Behind'
  <2> SUFFICES ASSUME NEW k \in 1 .. W + 1
               PROVE  \/ written'[k].lap < lap'
                      \/ /\ written'[k].lap = lap'
                         /\ written'[k].off + written'[k].len <= buf_pnt_2'
                         /\ written'[k].slot < ring_pnt_2'
    BY <1>4 DEF Behind
  <2>1. CASE k = W + 1
    BY <2>1, <1>4, <1>5, <1>6, <1>7, <1>8
  <2>2. CASE k \in 1 .. W
    <3>1. \/ written[k].lap < lap
          \/ /\ written[k].lap = lap
             /\ written[k].off + written[k].len <= buf_pnt_2
             /\ written[k].slot < ring_pnt_2
      BY <2>2, <1>4 DEF Behind
    <3>2. /\ written[k].off \in Nat /\ written[k].len \in Nat /\ written[k].lap \in Nat
          /\ written[k].slot \in Nat
      BY <2>2, <1>6, <1>10
    <3>3. /\ skb[c].len \in Nat /\ buf_pnt_2 \in Nat /\ ring_pnt_2 \in Nat
      BY <1>5, <1>6
    <3>4. CASE wraps
      BY <3>1, <3>2, <3>4, <2>2, <1>4, <1>5, <1>8
    <3>5. CASE ~ wraps
      <4>1. /\ lap' = lap /\ buf_pnt_2' = buf_pnt_2 + skb[c].len
            /\ ring_pnt_2' = ring_pnt_2 + 1 /\ written'[k] = written[k]
        BY <3>5, <2>2, <1>4, <1>8
      <4> QED
        BY <3>1, <3>2, <3>3, <4>1
    <3> QED
      BY <3>4, <3>5
  <2> QED
    BY <2>1, <2>2, <1>4
<1>12. Intact'
  <2> SUFFICES ASSUME NEW k \in Survivors' PROVE Holds(k)'
    BY DEF Intact
  <2>1. k \in 1 .. W + 1
    BY <1>4 DEF Survivors
  <2>2. CASE k = W + 1
    <3>1. \A u \in buf_pnt_2 .. buf_pnt_2 + skb[c].len - 1 : mem[u] = skb[c].id
      BY <1>0 DEF DataInPlace
    <3>2. word[ring_pnt_2] = EntryWord(ring_loop_2, masks[c].missing, masks[c].eevent, skb[c].id)
      BY <1>0 DEF WordInPlace
    <3>3. length[ring_pnt_2] = skb[c].len
      BY <1>0 DEF LengthInPlace
    <3> QED
      BY <2>2, <3>1, <3>2, <3>3, <1>1, <1>4, <1>7 DEF Holds
  <2>3. CASE k \in 1 .. W
    <3>1. \/ written[k].lap = lap'
          \/ /\ written[k].lap = lap' - 1
             /\ written[k].slot > ring_pnt_2'
             /\ written[k].off >= buf_pnt_2' + MaxPacket
      BY <2>3, <1>4 DEF Survivors
    <3>2. written[k].lap \in Nat /\ written[k].off \in Nat /\ written[k].slot \in Nat
      BY <2>3, <1>6, <1>10
    <3>3. k \in Survivors
      <4>1. written[k].lap < lap \/ written[k].lap = lap
        BY <2>3, <1>4 DEF Behind
      <4>2. CASE wraps
        BY <3>1, <3>2, <4>1, <4>2, <1>5, <1>8, <2>3, <1>4 DEF Survivors
      <4>3. ASSUME ~ wraps
            PROVE  \/ written[k].lap = lap
                   \/ /\ written[k].lap = lap - 1
                      /\ written[k].slot > ring_pnt_2
                      /\ written[k].off >= buf_pnt_2 + MaxPacket
        BY <3>1, <3>2, <4>3, <1>5, <1>6, <1>8
      <4> QED
        BY <4>2, <4>3, <2>3, <1>4 DEF Survivors
    <3> QED
      BY <3>3, <2>3, <1>1, <1>4 DEF Intact, Holds
  <2> QED
    BY <2>1, <2>2, <2>3, <1>4
<1> QED
  BY <1>1, <1>9, <1>11, <1>12

(* Every step of the hook.                                                 *)
LEMMA DataHook ==
  ASSUME TypeInv, Mutex, Undisturbed, NEW c \in CPUs, HookStep(c)
  PROVE  Undisturbed'
<1>0. /\ pc \in [CPUs -> Places] /\ skb \in [CPUs -> Packets \cup {NoPacket}]
      /\ masks \in [CPUs -> Masks]
  BY DEF TypeInv, HookTypeOK
<1>1. CASE Lock(c)
  BY <1>0, <1>1, DataQuiet DEF Lock, shm, ioctl
<1>2. CASE Classify(c)
  BY <1>0, <1>2, DataQuiet DEF Classify, shm, ioctl
<1>3. CASE PutTail(c)
  BY <1>0, <1>3, DataQuiet DEF PutTail, ioctl
<1> QED
  BY <1>1, <1>2, <1>3, DataCopy, DataWord, DataLength, DataAdvance DEF HookStep

(* The environment and the ioctl's.                                        *)
LEMMA DataOthers ==
  ASSUME TypeInv, DataInv, Environment \/ ResetStep \/ Switch
  PROVE  DataInv'
<1>0. /\ pc \in [CPUs -> Places] /\ skb \in [CPUs -> Packets \cup {NoPacket}] /\ resets \in Nat
  BY DEF TypeInv, HookTypeOK
<1>1. CASE \E c \in CPUs, size \in Lens, ends \in BOOLEAN : Receive(c, size, ends)
  <2>1. PICK c \in CPUs, size \in Lens, ends \in BOOLEAN : Receive(c, size, ends)
    BY <1>1
  <2>2. UNCHANGED <<mem, word, length, positions, reset, resets, ghosts, eth_lock>>
    BY <2>1 DEF Receive, shm, ioctl
  <2>3. /\ pc[c] = "idle" /\ pc' = [pc EXCEPT ![c] = "lock"] /\ masks' = masks
        /\ \A d \in CPUs \ {c} : skb'[d] = skb[d]
    BY <2>1, <1>0 DEF Receive
  <2>4. Mutex'
    BY <2>2, <2>3, <1>0 DEF DataInv, Mutex, Writing
  <2>5. Undisturbed => Undisturbed'
    BY <2>2, <2>3, <1>0, DataQuiet
  <2> QED
    BY <2>2, <2>4, <2>5 DEF DataInv
<1>2. CASE \/ \E size \in Lens, ends \in BOOLEAN : Lose(size, ends)
           \/ Switch
  <2>1. UNCHANGED <<mem, word, length, positions, reset, resets, ghosts, eth_lock, cpus>>
    BY <1>2 DEF Lose, Switch, SwitchPmissing, SwitchEevent, RaisePmissing, LowerPmissing,
                RaiseEevent, LowerEevent, shm, ioctl
  <2>2. Mutex'
    BY <2>1 DEF DataInv, Mutex, cpus
  <2>3. Undisturbed => Undisturbed'
    BY <2>1 DEF Undisturbed, Behind, DataInPlace, WordInPlace, LengthInPlace, Intact, Survivors,
                Holds, positions, ghosts, cpus
  <2> QED
    BY <2>1, <2>2, <2>3 DEF DataInv
<1>3. CASE ResetStep
  <2>1. UNCHANGED <<eth_lock, cpus>>
    BY <1>3 DEF ResetStep, ResetBuf, ResetRing, ResetLoop, ResetProc, ResetTail
  <2>2. Mutex'
    BY <2>1 DEF DataInv, Mutex, cpus
  <2>3. resets' # 0
    BY <1>3, <1>0
       DEF ResetStep, ResetBuf, ResetRing, ResetLoop, ResetProc, ResetTail, DataInv, Undisturbed
  <2> QED
    BY <2>2, <2>3 DEF DataInv
<1> QED
  BY <1>1, <1>2, <1>3 DEF Environment

(* The invariant is preserved.                                             *)
LEMMA DataNext == TypeInv /\ DataInv /\ [DriverNext]_hookVars => DataInv'
<1> SUFFICES ASSUME TypeInv, DataInv, [DriverNext]_hookVars PROVE DataInv'
  OBVIOUS
<1>1. CASE Environment \/ ResetStep \/ Switch
  BY <1>1, DataOthers
<1>2. ASSUME NEW c \in CPUs, HookStep(c) PROVE DataInv'
  <2>1. Mutex'
    BY <1>2, MutexHook DEF DataInv
  <2>2. resets' = resets
    BY <1>2 DEF HookStep, Lock, CopyData, Classify, PutWord, PutLength, Advance, PutTail, ioctl
  <2> QED
    BY <1>2, <2>1, <2>2, DataHook DEF DataInv
<1>3. CASE UNCHANGED hookVars
  BY <1>3 DEF DataInv, Mutex, Undisturbed, Behind, DataInPlace, WordInPlace, LengthInPlace,
              Intact, Survivors, Holds, hookVars, shm, positions, cpus, ioctl, ghosts
<1>4. ASSUME NEW c \in CPUs, RacedStep(c) PROVE DataInv'
  BY <1>4, MutexRaced DEF DataInv
<1> QED
  BY <1>1, <1>2, <1>3, <1>4 DEF DriverNext

(* The invariant, as a fact about every reachable state.                   *)
THEOREM DataInvariant == DriverSpec => []DataInv
  BY DataInit, DataNext, TypeInvariant, PTL DEF DriverSpec

(* Whichever CPUs the packets come in on, the entry and the data of every  *)
(* packet that the driver has not come round to again are in the shared    *)
(* memory as one packet's (eth_lock and the loop-back in netif_rx_hook_2). *)
THEOREM EntriesCorrect == DriverSpec => []EntriesDescribeData
<1>1. DataInv => EntriesDescribeData
  BY DEF DataInv, Undisturbed, Intact, EntriesDescribeData
<1> QED
  BY DataInvariant, <1>1, PTL
-----------------------------------------------------------------------------
(* Remainders, for the packet counter.                                     *)

(* The quotient and the remainder of a division.                           *)
LEMMA ModDef ==
  ASSUME NEW a \in Int, NEW m \in Nat \ {0}
  PROVE  /\ a \div m \in Int /\ a % m \in 0 .. m - 1
         /\ a = m * (a \div m) + (a % m)
  OBVIOUS

(* There is only one of each.                                              *)
LEMMA ModUnique ==
  ASSUME NEW a \in Int, NEW m \in Nat \ {0}, NEW q \in Int, NEW r \in 0 .. m - 1,
         a = m * q + r
  PROVE  a % m = r
<1>0. PICK e \in Int, s \in 0 .. m - 1 : a = m * e + s /\ a % m = s
  BY ModDef
<1>1. PICK d \in Int : d = e - q
  OBVIOUS
<1>2. m * d = m * e - m * q /\ m * e \in Int /\ m * q \in Int
  BY <1>1
<1>3. m * d < m /\ 0 - m < m * d
  BY <1>0, <1>2
<1>4. CASE d >= 1
  <2>1. m * d >= m * 1
    BY <1>4
  <2> QED
    BY <1>3, <2>1
<1>5. CASE d <= -1
  <2>1. m * d <= m * (-1)
    BY <1>5
  <2> QED
    BY <1>3, <2>1
<1>6. CASE d = 0
  BY <1>0, <1>1, <1>6
<1> QED
  BY <1>4, <1>5, <1>6

(* The counter is compared with the one after the last, both reduced: that *)
(* tells exactly whether the packets are one apart, up to the modulus.     *)
LEMMA CounterFollows ==
  ASSUME NEW a \in Int, NEW b \in Int, NEW m \in Nat \ {0, 1}
  PROVE  a % m = ((b % m) + 1) % m <=> (a - b) % m = 1
<1>1. PICK x \in Int, r \in 0 .. m - 1 : a = m * x + r /\ a % m = r
  BY ModDef
<1>2. PICK y \in Int, s \in 0 .. m - 1 : b = m * y + s /\ b % m = s
  BY ModDef
<1>3. m * (x - y) = m * x - m * y /\ m * (x - y - 1) = m * x - m * y - m
      /\ m * x \in Int /\ m * y \in Int
  BY <1>1, <1>2
<1>4. (s + 1) % m = IF s = m - 1 THEN 0 ELSE s + 1
  <2>1. CASE s = m - 1
    <3>1. s + 1 = m * 1 + 0 /\ 0 \in 0 .. m - 1
      BY <2>1
    <3> QED
      BY <2>1, <3>1, ModUnique
  <2>2. CASE s # m - 1
    <3>1. s + 1 = m * 0 + (s + 1) /\ s + 1 \in 0 .. m - 1
      BY <2>2
    <3> QED
      BY <2>2, <3>1, ModUnique
  <2> QED
    BY <2>1, <2>2
<1>5. (a - b) % m = IF r >= s THEN r - s ELSE r - s + m
  <2>1. CASE r >= s
    <3>1. a - b = m * (x - y) + (r - s) /\ r - s \in 0 .. m - 1
      BY <1>1, <1>2, <1>3, <2>1
    <3>2. a - b \in Int /\ x - y \in Int
      OBVIOUS
    <3>3. \A i, q \in Int, e \in 0 .. m - 1 : i = m * q + e => i % m = e
      BY ModUnique
    <3>4. (a - b) % m = r - s
      BY <3>1, <3>2, <3>3
    <3> QED
      BY <2>1, <3>4
  <2>2. CASE r < s
    <3>1. a - b = m * (x - y - 1) + (r - s + m) /\ r - s + m \in 0 .. m - 1
      BY <1>1, <1>2, <1>3, <2>2
    <3>2. a - b \in Int /\ x - y - 1 \in Int
      OBVIOUS
    <3>3. \A i, q \in Int, e \in 0 .. m - 1 : i = m * q + e => i % m = e
      BY ModUnique
    <3>4. (a - b) % m = r - s + m
      BY <3>1, <3>2, <3>3
    <3> QED
      BY <2>2, <3>4
  <2> QED
    BY <2>1, <2>2
<1> QED
  BY <1>1, <1>2, <1>4, <1>5

-----------------------------------------------------------------------------
(* Gaps.                                                                   *)

(* Packet q, to be written at this slot and loop, is a gap after the one   *)
(* with the number last.                                                   *)
Gap(last, q, slot, loop) == (q.id - last) % CtrMod # 1 /\ (slot # 0 \/ loop # 0)

IdOf(j) == IF j = 0 THEN 0 ELSE written[j].id

(* Between the check of a packet's counter and its becoming a written one. *)
Past(c) == pc[c] \in {"word", "length", "advance"}

AllFlagged ==
  \A k \in DOMAIN written : \A j \in 0 .. k - 1 : LastChecked(j, k) =>
    (written[k].missing <=>
       written[k].checked /\ Gap(IdOf(j), written[k], written[k].slot, written[k].loop))

(* The counter that was seen last is that of the packet in hand, once it   *)
(* was checked, else that of the last packet written that was.             *)
CheckInv ==
  /\ AllFlagged
  /\ \A c \in CPUs : Past(c) /\ masks[c].checked => proc_last_pmissing_2 = skb[c].id % CtrMod
  /\ \A j \in 0 .. Len(written) : LastChecked(j, Len(written) + 1) =>
       /\ \A c \in CPUs : Past(c) =>
            /\ masks[c].missing <=>
                 masks[c].checked /\ Gap(IdOf(j), skb[c], ring_pnt_2, ring_loop_2)
            /\ ~ masks[c].checked => proc_last_pmissing_2 = IdOf(j) % CtrMod
       /\ (\A c \in CPUs : ~ Past(c)) => proc_last_pmissing_2 = IdOf(j) % CtrMod

GapInv == resets = 0 => CheckInv

(* The check of netif_rx_hook_2 sees the gaps.                             *)
LEMMA CheckSeesGap ==
  ASSUME NEW last \in Nat, NEW q, q.id \in Nat, proc_last_pmissing_2 = last % CtrMod
  PROVE  PacketsMissing(q.id % CtrMod)
           <=> flag_pmissing_2 /\ Gap(last, q, ring_pnt_2, ring_loop_2)
<1>1. q.id % CtrMod = ((last % CtrMod) + 1) % CtrMod <=> (q.id - last) % CtrMod = 1
  <2>1. q.id \in Int /\ last \in Int
    OBVIOUS
  <2> QED
    BY <2>1, CounterFollows, HookAssumption
<1> QED
  BY <1>1 DEF PacketsMissing, Skips, Gap

(* A step that moves no CPU into or out of the checked part.               *)
LEMMA GapQuiet ==
  ASSUME CheckInv, UNCHANGED <<written, proc_last_pmissing_2, ring_pnt_2, ring_loop_2>>,
         \A d \in CPUs : Past(d)' <=> Past(d),
         \A d \in CPUs : Past(d) => skb'[d] = skb[d] /\ masks'[d] = masks[d]
  PROVE  CheckInv'
<1>1. /\ \A j, k : LastChecked(j, k)' <=> LastChecked(j, k)
      /\ \A j : IdOf(j)' = IdOf(j)
  BY DEF LastChecked, IdOf
<1>2. AllFlagged'
  BY <1>1 DEF CheckInv, AllFlagged, Gap
<1> QED
  BY <1>1, <1>2 DEF CheckInv, Gap

(* The counter check.                                                      *)
LEMMA GapClassify ==
  ASSUME TypeInv, Mutex, CheckInv, NEW c \in CPUs, Classify(c)
  PROVE  CheckInv'
<1>0. /\ pc[c] = "classify" /\ pc[c] \in Writing /\ pc \in [CPUs -> Places]
      /\ masks \in [CPUs -> Masks] /\ written \in Seq(Entries) /\ flag_pmissing_2 \in BOOLEAN
  BY DEF Classify, Writing, TypeInv, HookTypeOK
<1>1. /\ UNCHANGED <<written, ring_pnt_2, ring_loop_2, skb>>
      /\ pc' = [pc EXCEPT ![c] = "word"]
      /\ masks'[c].missing = PacketsMissing(skb[c].id % CtrMod)
      /\ masks'[c].checked = flag_pmissing_2
      /\ proc_last_pmissing_2' = IF flag_pmissing_2 THEN skb[c].id % CtrMod
                                                    ELSE proc_last_pmissing_2
  BY <1>0 DEF Classify, positions, ghosts
<1>2. \A d \in CPUs \ {c} : ~ Past(d) /\ ~ Past(d)'
  BY <1>0, <1>1, Alone DEF Past, Writing
<1>3. ~ Past(c) /\ Past(c)'
  BY <1>0, <1>1 DEF Past
<1>4. /\ \A j, k : LastChecked(j, k)' <=> LastChecked(j, k)
      /\ \A j : IdOf(j)' = IdOf(j)
  BY <1>1 DEF LastChecked, IdOf
<1>5. AllFlagged'
  BY <1>1, <1>4 DEF CheckInv, AllFlagged, Gap
<1>6. ASSUME NEW j \in 0 .. Len(written), LastChecked(j, Len(written) + 1)
      PROVE  /\ masks'[c].missing <=>
                  masks'[c].checked /\ Gap(IdOf(j), skb[c], ring_pnt_2, ring_loop_2)
             /\ ~ masks'[c].checked => proc_last_pmissing_2' = IdOf(j) % CtrMod
  <2>1. proc_last_pmissing_2 = IdOf(j) % CtrMod
    BY <1>2, <1>3, <1>6 DEF CheckInv
  <2>2. IdOf(j) \in Nat
    <3>1. j # 0 => j \in DOMAIN written
      BY <1>0
    <3> QED
      BY <3>1, EntryFacts DEF IdOf, Entries
  <2>3. skb[c].id \in Nat
    BY <1>0, PacketFacts
  <2>4. PacketsMissing(skb[c].id % CtrMod)
          <=> flag_pmissing_2 /\ Gap(IdOf(j), skb[c], ring_pnt_2, ring_loop_2)
    BY <2>1, <2>2, <2>3, CheckSeesGap
  <2> QED
    BY <1>0, <1>1, <2>1, <2>4
<1> QED
  BY <1>1, <1>2, <1>3, <1>4, <1>5, <1>6 DEF CheckInv, Gap

(* The packet in hand becomes the last one written.                        *)
LEMMA GapAdvance ==
  ASSUME TypeInv, Mutex, CheckInv, NEW c \in CPUs, Advance(c)
  PROVE  CheckInv'
<1> DEFINE new == EntryOf(skb[c], masks[c], buf_pnt_2, ring_pnt_2, ring_loop_2)
<1>0. /\ pc[c] = "advance" /\ pc[c] \in Writing /\ pc \in [CPUs -> Places]
      /\ written \in Seq(Entries)
  BY DEF Advance, Writing, TypeInv, HookTypeOK
<1>10. PICK W \in Nat : W = Len(written)
  BY <1>0
<1>1. /\ UNCHANGED <<proc_last_pmissing_2, skb, masks>>
      /\ pc' = [pc EXCEPT ![c] = "tail"]
  BY DEF Advance, counters
<1>2. \A d \in CPUs : ~ Past(d)'
  BY <1>0, <1>1, Alone DEF Past, Writing
<1>3. /\ W \in Nat /\ Len(written') = W + 1
      /\ DOMAIN written = 1 .. W /\ DOMAIN written' = 1 .. W + 1
      /\ \A k \in 1 .. W : written'[k] = written[k]
      /\ written'[W + 1] = new
  BY <1>0, <1>10 DEF Advance
<1>4. /\ new.id = skb[c].id /\ new.missing = masks[c].missing /\ new.checked = masks[c].checked
      /\ new.slot = ring_pnt_2 /\ new.loop = ring_loop_2
  BY DEF EntryOf
<1>5. /\ masks[c].checked => proc_last_pmissing_2 = skb[c].id % CtrMod
      /\ \A j \in 0 .. W : LastChecked(j, W + 1) =>
           /\ masks[c].missing <=>
                masks[c].checked /\ Gap(IdOf(j), skb[c], ring_pnt_2, ring_loop_2)
           /\ ~ masks[c].checked => proc_last_pmissing_2 = IdOf(j) % CtrMod
  BY <1>0, <1>10 DEF CheckInv, Past
<1> HIDE DEF new
<1>6. /\ \A k \in 1 .. W + 1, j \in 0 .. W : j < k => (LastChecked(j, k)' <=> LastChecked(j, k))
      /\ \A j \in 0 .. W : IdOf(j)' = IdOf(j)
  BY <1>3 DEF LastChecked, IdOf
<1>7. AllFlagged'
  <2> SUFFICES ASSUME NEW k \in 1 .. W + 1, NEW j \in 0 .. k - 1, LastChecked(j, k)'
               PROVE  written'[k].missing <=>
                        written'[k].checked /\ Gap(IdOf(j)', written'[k], written'[k].slot, written'[k].loop)
    BY <1>3 DEF AllFlagged, Gap
  <2>1. j \in 0 .. W /\ LastChecked(j, k) /\ IdOf(j)' = IdOf(j)
    BY <1>3, <1>6
  <2>2. CASE k = W + 1
    BY <2>1, <2>2, <1>3, <1>4, <1>5 DEF Gap
  <2>3. CASE k # W + 1
    <3>1. k \in DOMAIN written /\ written'[k] = written[k]
      BY <2>3, <1>3
    <3> QED
      BY <2>1, <3>1 DEF CheckInv, AllFlagged
  <2> QED
    BY <2>2, <2>3
<1>8. ASSUME NEW j \in 0 .. W + 1, LastChecked(j, W + 2)'
      PROVE  proc_last_pmissing_2' = IdOf(j)' % CtrMod
  <2>1. CASE j = W + 1
    <3>1. masks[c].checked /\ IdOf(j)' = skb[c].id
      BY <2>1, <1>3, <1>4, <1>8 DEF LastChecked, IdOf
    <3> QED
      BY <1>1, <1>5, <3>1
  <2>2. CASE j # W + 1
    <3>1. j \in 0 .. W /\ W + 1 \in j + 1 .. (W + 2) - 1
      BY <2>2, <1>3
    <3>2. ~ written'[W + 1].checked
      BY <1>8, <3>1 DEF LastChecked
    <3>3. ~ masks[c].checked
      BY <1>3, <1>4, <3>2
    <3>4. LastChecked(j, W + 1)'
      BY <1>3, <1>8, <3>1 DEF LastChecked
    <3>5. LastChecked(j, W + 1) /\ IdOf(j)' = IdOf(j)
      BY <1>3, <1>6, <3>1, <3>4
    <3> QED
      BY <1>1, <1>5, <3>1, <3>3, <3>5
  <2> QED
    BY <2>1, <2>2
<1>9. Len(written') + 1 = W + 2
  BY <1>3
<1> QED
  BY <1>2, <1>3, <1>7, <1>8, <1>9 DEF CheckInv

(* Every step of the hook.                                                 *)
LEMMA GapHook ==
  ASSUME TypeInv, Mutex, CheckInv, NEW c \in CPUs, HookStep(c)
  PROVE  CheckInv'
<1>0. pc \in [CPUs -> Places] /\ skb \in [CPUs -> Packets \cup {NoPacket}]
      /\ masks \in [CPUs -> Masks]
  BY DEF TypeInv, HookTypeOK
<1>1. CASE Lock(c) \/ CopyData(c) \/ PutWord(c) \/ PutLength(c) \/ PutTail(c)
  <2>1. UNCHANGED <<written, proc_last_pmissing_2, ring_pnt_2, ring_loop_2>>
    BY <1>1 DEF Lock, CopyData, PutWord, PutLength, PutTail, counters, positions, ghosts
  <2>2. \A d \in CPUs : Past(d)' <=> Past(d)
    BY <1>0, <1>1 DEF Lock, CopyData, PutWord, PutLength, PutTail, Past
  <2>3. \A d \in CPUs : Past(d) => skb'[d] = skb[d] /\ masks'[d] = masks[d]
    BY <1>0, <1>1 DEF Lock, CopyData, PutWord, PutLength, PutTail, Past
  <2> QED
    BY <2>1, <2>2, <2>3, GapQuiet
<1> QED
  BY <1>1, GapClassify, GapAdvance DEF HookStep

(* The invariant is preserved.                                             *)
LEMMA GapNext == TypeInv /\ DataInv /\ GapInv /\ [DriverNext]_hookVars => GapInv'
<1> SUFFICES ASSUME TypeInv, DataInv, GapInv, [DriverNext]_hookVars, resets' = 0
             PROVE  CheckInv'
  BY DEF GapInv
<1>0. /\ pc \in [CPUs -> Places] /\ skb \in [CPUs -> Packets \cup {NoPacket}] /\ resets \in Nat
      /\ Mutex /\ (resets = 0 => reset = "no")
  BY DEF TypeInv, HookTypeOK, DataInv, Undisturbed
<1>1. ASSUME NEW c \in CPUs, HookStep(c) PROVE CheckInv'
  <2>1. UNCHANGED resets
    BY <1>1 DEF HookStep, Lock, CopyData, Classify, PutWord, PutLength, Advance, PutTail, ioctl
  <2> QED
    BY <1>0, <1>1, <2>1, GapHook DEF GapInv
<1>2. CASE Environment \/ Switch \/ UNCHANGED hookVars
  <2>1. UNCHANGED <<resets, written, proc_last_pmissing_2, ring_pnt_2, ring_loop_2, masks>>
    BY <1>2 DEF Environment, Receive, Lose, Switch, SwitchPmissing, SwitchEevent, RaisePmissing,
                LowerPmissing, RaiseEevent, LowerEevent, hookVars, ioctl, ghosts, counters,
                positions, cpus
  <2>2. /\ \A d \in CPUs : Past(d)' <=> Past(d)
        /\ \A d \in CPUs : Past(d) => skb'[d] = skb[d]
    BY <1>0, <1>2 DEF Environment, Receive, Lose, Switch, SwitchPmissing, SwitchEevent,
                      RaisePmissing, LowerPmissing, RaiseEevent, LowerEevent, Past, hookVars, cpus
  <2> QED
    BY <2>1, <2>2, GapQuiet DEF GapInv
<1>3. CASE ResetStep
  BY <1>0, <1>3 DEF ResetStep, ResetBuf, ResetRing, ResetLoop, ResetProc, ResetTail
<1>4. ASSUME NEW c \in CPUs, RacedStep(c) PROVE FALSE
  BY <1>4, MutexRaced
<1> QED
  BY <1>1, <1>2, <1>3, <1>4 DEF DriverNext

\* At the start no counter was seen.
LEMMA GapInit == HookInit => GapInv
<1> SUFFICES ASSUME HookInit PROVE CheckInv
  BY DEF GapInv
<1>1. Len(written) = 0 /\ DOMAIN written = {} /\ \A c \in CPUs : ~ Past(c)
  BY DEF HookInit, Past
<1>2. IdOf(0) % CtrMod = 0 /\ proc_last_pmissing_2 = 0
  <2>1. 0 = CtrMod * 0 + 0 /\ 0 \in 0 .. CtrMod - 1 /\ CtrMod \in Nat \ {0}
    BY HookAssumption
  <2>2. 0 % CtrMod = 0
    BY <2>1, ModUnique
  <2> QED
    BY <2>2 DEF IdOf, HookInit
<1>3. \A j \in 0 .. Len(written) : j = 0
  BY <1>1
<1> QED
  BY <1>1, <1>2, <1>3 DEF CheckInv, AllFlagged

(* Exactly the packets that do not follow the one checked before them are  *)
(* flagged, however the CPUs overtake each other, however often the packet *)
(* counter and the loop count wrap around, and whenever an ioctl lets the  *)
(* check lapse or brings it up for a moment (the packet counter check of   *)
(* netif_rx_hook_2, SCHAR_PMISSING).                                       *)
THEOREM GapsFlagged == DriverSpec => []GapsAreFlagged
<1>1. GapInv => GapsAreFlagged
  BY DEF GapInv, CheckInv, AllFlagged, IdOf, Gap, GapsAreFlagged
<1> QED
  BY <1>1, GapInit, GapNext, TypeInvariant, DataInvariant, PTL DEF DriverSpec

(***************************************************************************)
(* Where the driver puts its packets: one behind the other, in a sequence  *)
(* of laps of the data area and the ring, of which a reader can tell the   *)
(* next position from the entry at the present one. This holds until the   *)
(* driver is reset or its loop count no longer fits the 14 bits that an    *)
(* entry keeps of it (see the run loop_count).                             *)
(***************************************************************************)
Regular == resets = 0 /\ lap < LoopMod

(* The position of packet k; that of the next one is the write position.   *)
Places1 == 1 .. Len(written) + 1
Off(k)  == IF k \in DOMAIN written THEN written[k].off  ELSE buf_pnt_2
Slot(k) == IF k \in DOMAIN written THEN written[k].slot ELSE ring_pnt_2
Lap(k)  == IF k \in DOMAIN written THEN written[k].lap  ELSE lap

(* Each packet begins where the one before it ended, or the next lap.      *)
Wraps(k) ==
  WrapsAt(written[k].eevent, written[k].off + written[k].len, written[k].slot + 1)

Chain ==
  /\ Off(1) = 0 /\ Slot(1) = 0 /\ Lap(1) = 0
  /\ \A k \in DOMAIN written :
       IF Wraps(k)
       THEN Off(k + 1) = 0 /\ Slot(k + 1) = 0 /\ Lap(k + 1) = written[k].lap + 1
       ELSE /\ Off(k + 1)  = written[k].off + written[k].len
            /\ Slot(k + 1) = written[k].slot + 1
            /\ Lap(k + 1)  = written[k].lap

(* So a later packet is in a later lap, or behind in the same one.         *)
Rising ==
  \A i \in DOMAIN written, k \in Places1 : i < k =>
    \/ Lap(i) < Lap(k)
    \/ /\ Lap(i) = Lap(k)
       /\ written[i].off + written[i].len <= Off(k)
       /\ Slot(i) < Slot(k)

(* The loop count is the lap.                                              *)
LoopIsLap ==
  /\ ring_loop_2 = lap
  /\ \A k \in DOMAIN written : written[k].loop = written[k].lap

(* The present lap began somewhere.                                        *)
LapBegan == \E s \in Places1 : Off(s) = 0 /\ Slot(s) = 0 /\ Lap(s) = lap

(* The first entry of the ring has the lap's count once it is written.     *)
FirstEntry ==
  /\ word[0].loop <= lap
  /\ lap > 0 /\ ring_pnt_2 = 0 /\ (\A c \in CPUs : pc[c] \notin {"length", "advance"})
       => word[0].loop < lap

(* How many packets the tail word shows to the readers.                    *)
AtTail == \E c \in CPUs : pc[c] = "tail"
Published == IF AtTail THEN Len(written) - 1 ELSE Len(written)

TailShows == tail = Off(Published + 1) /\ Published \in Nat

OrderInv ==
  Regular => Chain /\ Rising /\ LoopIsLap /\ LapBegan /\ FirstEntry /\ TailShows

(* No packet is written twice.                                             *)
Arrived ==
  /\ \A k \in DOMAIN written : written[k].id <= ddu.sent
  /\ \A c \in CPUs : skb[c].id <= ddu.sent

Distinct ==
  /\ \A i, k \in DOMAIN written : written[i].id = written[k].id => i = k
  /\ \A c \in CPUs, d \in CPUs : skb[c].id = skb[d].id /\ skb[c].id # 0 => c = d
  /\ \A c \in CPUs, k \in DOMAIN written :
       pc[c] # "tail" => skb[c].id # written[k].id

OnceInv == Arrived /\ Distinct

-----------------------------------------------------------------------------
(* The packets written are numbered from 1.                                *)
LEMMA WrittenFacts ==
  ASSUME TypeInv
  PROVE  written \in Seq(Entries) /\ Len(written) \in Nat /\ DOMAIN written = 1 .. Len(written)
<1>1. written \in Seq(Entries)
  BY DEF TypeInv, HookTypeOK
<1> QED
  BY <1>1

\* The packets written are a sequence after a step as well.
LEMMA WrittenFactsThen ==
  ASSUME TypeInv'
  PROVE  Len(written') \in Nat /\ DOMAIN written' = 1 .. Len(written')
<1>1. written' \in Seq(Entries)
  BY DEF TypeInv, HookTypeOK
<1> QED
  BY <1>1

-----------------------------------------------------------------------------
(* What the steps of the driver change.                                    *)

(* Neither a reset nor a lap is ever taken back.                           *)
LEMMA ResetsGrow ==
  ASSUME [DriverNext]_hookVars
  PROVE  resets' \in {resets, resets + 1} /\ lap' \in {lap, lap + 1}
 <1>1. CASE Environment \/ Switch \/ UNCHANGED hookVars
  BY <1>1 DEF Environment, Receive, Lose, Switch, SwitchPmissing, SwitchEevent, RaisePmissing,
              LowerPmissing, RaiseEevent, LowerEevent, hookVars, ioctl, ghosts
<1>2. ASSUME NEW c \in CPUs, HookStep(c) PROVE resets' = resets /\ lap' \in {lap, lap + 1}
  BY <1>2 DEF HookStep, Lock, CopyData, Classify, PutWord, PutLength, Advance, PutTail,
              ioctl, ghosts
<1>3. CASE ResetStep
  BY <1>3 DEF ResetStep, ResetBuf, ResetRing, ResetLoop, ResetProc, ResetTail, ghosts
<1>4. ASSUME NEW c \in CPUs, RacedStep(c)
      PROVE  resets' \in {resets, resets + 1} /\ lap' \in {lap, lap + 1}
  <2>1. resets' \in {resets, resets + 1}
    BY <1>4 DEF RacedStep
  <2>2. PICK falls : \/ RacedCopy(c, falls) \/ RacedClassify(c, falls) \/ RacedWord(c, falls)
                     \/ RacedAdvance(c, falls) \/ RacedTail(c, falls)
    BY <1>4 DEF RacedStep
  <2>3. CASE RacedCopy(c, falls) \/ RacedClassify(c, falls) \/ RacedWord(c, falls) \/ RacedTail(c, falls)
    BY <2>1, <2>3 DEF RacedCopy, RacedClassify, RacedWord, RacedTail, ghosts
  <2>4. CASE RacedAdvance(c, falls)
    BY <2>1, <2>4 DEF RacedAdvance
  <2> QED
    BY <2>2, <2>3, <2>4
<1> QED
  BY <1>1, <1>2, <1>3, <1>4 DEF DriverNext

\* So a driver that is regular has always been.
LEMMA RegularFalls ==
  ASSUME TypeInv, [DriverNext]_hookVars, Regular'
  PROVE  Regular /\ resets' = resets
<1>1. resets \in Nat /\ lap \in Nat /\ LoopMod \in Nat
  BY RingAssumption DEF TypeInv, HookTypeOK
<1>2. resets' \in {resets, resets + 1} /\ lap' \in {lap, lap + 1}
  BY ResetsGrow
<1> QED
  BY <1>1, <1>2 DEF Regular

(* Positions, of the packets written and of the next one.                  *)
LEMMA PositionTypes ==
  ASSUME TypeInv, NEW k \in Places1
  PROVE  /\ Off(k) \in 0 .. BufEnd /\ Off(k) \in Nat
         /\ Slot(k) \in Slots /\ Slot(k) \in Nat /\ Lap(k) \in Nat
<1>1. k \in DOMAIN written => /\ written[k].off \in 0 .. BufEnd /\ written[k].slot \in Slots
                              /\ written[k].lap \in Nat
  BY EntryFacts
<1>2. buf_pnt_2 \in 0 .. BufEnd /\ ring_pnt_2 \in Slots /\ lap \in Nat
  BY DEF TypeInv, HookTypeOK
<1> QED
  BY <1>1, <1>2, RingAssumption DEF Off, Slot, Lap, BufEnd, Slots

(* Moving on: the packet in hand becomes the last one written, its place   *)
(* was the write position, and the next place follows from it.             *)
LEMMA Moves ==
  ASSUME TypeInv, Mutex, NEW c \in CPUs, Advance(c), NEW W, W = Len(written)
  PROVE  /\ W \in Nat /\ Len(written') = W + 1
         /\ DOMAIN written = 1 .. W /\ DOMAIN written' = 1 .. W + 1
         /\ \A k \in 1 .. W : written'[k] = written[k]
         /\ written'[W + 1] = EntryOf(skb[c], masks[c], buf_pnt_2, ring_pnt_2, ring_loop_2)
         /\ \A k \in 1 .. W + 1 : Off(k)' = Off(k) /\ Slot(k)' = Slot(k) /\ Lap(k)' = Lap(k)
         /\ Off(W + 1) = buf_pnt_2 /\ Slot(W + 1) = ring_pnt_2 /\ Lap(W + 1) = lap
         /\ Off(W + 2)' = buf_pnt_2' /\ Slot(W + 2)' = ring_pnt_2' /\ Lap(W + 2)' = lap'
         /\ IF WrapsAt(masks[c].eevent, buf_pnt_2 + skb[c].len, ring_pnt_2 + 1)
            THEN buf_pnt_2' = 0 /\ ring_pnt_2' = 0 /\ lap' = lap + 1
            ELSE /\ buf_pnt_2' = buf_pnt_2 + skb[c].len
                 /\ ring_pnt_2' = ring_pnt_2 + 1 /\ lap' = lap
         /\ ~ AtTail /\ AtTail'
         /\ \A d \in CPUs : pc[d] \in Writing => d = c
         /\ pc[c] = "advance" /\ pc' = [pc EXCEPT ![c] = "tail"]
<1>0. /\ pc[c] = "advance" /\ pc[c] \in Writing /\ pc \in [CPUs -> Places]
      /\ written \in Seq(Entries)
  BY DEF Advance, Writing, TypeInv, HookTypeOK
<1>1. /\ W \in Nat /\ Len(written') = W + 1
      /\ DOMAIN written = 1 .. W /\ DOMAIN written' = 1 .. W + 1
      /\ \A k \in 1 .. W : written'[k] = written[k]
      /\ written'[W + 1] = EntryOf(skb[c], masks[c], buf_pnt_2, ring_pnt_2, ring_loop_2)
  BY <1>0 DEF Advance
<1>2. /\ EntryOf(skb[c], masks[c], buf_pnt_2, ring_pnt_2, ring_loop_2).off = buf_pnt_2
      /\ EntryOf(skb[c], masks[c], buf_pnt_2, ring_pnt_2, ring_loop_2).slot = ring_pnt_2
      /\ EntryOf(skb[c], masks[c], buf_pnt_2, ring_pnt_2, ring_loop_2).lap = lap
  BY DEF EntryOf
<1>3. Off(W + 1) = buf_pnt_2 /\ Slot(W + 1) = ring_pnt_2 /\ Lap(W + 1) = lap
  BY <1>1 DEF Off, Slot, Lap
<1>4. Off(W + 2)' = buf_pnt_2' /\ Slot(W + 2)' = ring_pnt_2' /\ Lap(W + 2)' = lap'
  BY <1>1 DEF Off, Slot, Lap
<1>5. \A k \in 1 .. W + 1 : Off(k)' = Off(k) /\ Slot(k)' = Slot(k) /\ Lap(k)' = Lap(k)
  <2> TAKE k \in 1 .. W + 1
  <2>1. CASE k = W + 1
    BY <2>1, <1>1, <1>2, <1>3 DEF Off, Slot, Lap
  <2>2. CASE k \in 1 .. W
    BY <2>2, <1>1 DEF Off, Slot, Lap
  <2> QED
    BY <2>1, <2>2, <1>1
<1>6. \A d \in CPUs : pc[d] \in Writing => d = c
  BY <1>0, Alone
<1>7. ~ AtTail /\ AtTail' /\ pc' = [pc EXCEPT ![c] = "tail"]
  BY <1>0, <1>6 DEF AtTail, Writing, Advance
<1>8. IF WrapsAt(masks[c].eevent, buf_pnt_2 + skb[c].len, ring_pnt_2 + 1)
      THEN buf_pnt_2' = 0 /\ ring_pnt_2' = 0 /\ lap' = lap + 1
      ELSE /\ buf_pnt_2' = buf_pnt_2 + skb[c].len
           /\ ring_pnt_2' = ring_pnt_2 + 1 /\ lap' = lap
  BY DEF Advance
<1> QED
  BY <1>0, <1>1, <1>3, <1>4, <1>5, <1>6, <1>7, <1>8

(* The entry of the packet that moving on adds.                            *)
LEMMA NewEntry ==
  ASSUME NEW p, NEW mask, NEW off, NEW slot, NEW loop
  PROVE  LET e == EntryOf(p, mask, off, slot, loop)
         IN  /\ e.id = p.id /\ e.len = p.len /\ e.missing = mask.missing
             /\ e.eevent = mask.eevent /\ e.off = off /\ e.slot = slot
             /\ e.loop = loop /\ e.lap = lap
  BY DEF EntryOf

-----------------------------------------------------------------------------
(* The order of the packets.                                               *)

OrderParts == Chain /\ Rising /\ LoopIsLap /\ LapBegan /\ FirstEntry /\ TailShows

\* At the start there is nothing to be out of order.
LEMMA OrderInit == HookInit => OrderInv
<1> SUFFICES ASSUME HookInit PROVE OrderParts
  BY DEF OrderInv, OrderParts
<1>1. /\ written = <<>> /\ DOMAIN written = {} /\ Len(written) = 0 /\ Places1 = {1}
      /\ buf_pnt_2 = 0 /\ ring_pnt_2 = 0 /\ ring_loop_2 = 0 /\ lap = 0 /\ tail = 0
      /\ ~ AtTail
  BY DEF HookInit, ShmInit, Places1, AtTail
<1>2. Off(1) = 0 /\ Slot(1) = 0 /\ Lap(1) = 0
  BY <1>1 DEF Off, Slot, Lap
<1>3. word[0].loop = 0
  <2>1. 0 \in Slots /\ 0 % LoopMod = 0
    BY RingAssumption DEF Slots
  <2> QED
    BY <2>1 DEF HookInit, ShmInit, EntryWord
<1>4. FirstEntry
  BY <1>1, <1>3 DEF FirstEntry
<1>5. TailShows
  BY <1>1, <1>2 DEF TailShows, Published
<1> QED
  BY <1>1, <1>2, <1>4, <1>5 DEF OrderParts, Chain, Rising, LoopIsLap, LapBegan

(* Steps that move nothing.                                                *)
LEMMA OrderQuiet ==
  ASSUME OrderParts, UNCHANGED <<positions, ghosts, tail>>,
         word'[0].loop = word[0].loop,
         \A c \in CPUs : pc'[c] = "tail" <=> pc[c] = "tail",
         \A c \in CPUs : pc'[c] \in {"length", "advance"} <=> pc[c] \in {"length", "advance"}
  PROVE  OrderParts'
<1>1. UNCHANGED <<buf_pnt_2, ring_pnt_2, ring_loop_2, lap, written>>
  BY DEF positions, ghosts
<1>2. /\ \A k : Off(k)' = Off(k) /\ Slot(k)' = Slot(k) /\ Lap(k)' = Lap(k) /\ Wraps(k)' = Wraps(k)
      /\ Places1' = Places1
  BY <1>1 DEF Off, Slot, Lap, Places1, Wraps
<1>3. Published' = Published
  BY <1>1 DEF Published, AtTail
<1>4. Chain' /\ Rising'
  BY <1>1, <1>2 DEF OrderParts, Chain, Rising
<1>5. LoopIsLap' /\ LapBegan'
  BY <1>1, <1>2 DEF OrderParts, LoopIsLap, LapBegan
<1>6. FirstEntry' /\ TailShows'
  BY <1>1, <1>2, <1>3 DEF OrderParts, FirstEntry, TailShows
<1> QED
  BY <1>4, <1>5, <1>6 DEF OrderParts

(* An entry's word: the first of the ring's gets the lap's count.          *)
LEMMA OrderWord ==
  ASSUME TypeInv, Mutex, Regular, OrderParts, NEW c \in CPUs, PutWord(c)
  PROVE  OrderParts'
<1>0. /\ pc[c] = "word" /\ pc' = [pc EXCEPT ![c] = "length"] /\ pc \in [CPUs -> Places]
      /\ word \in [Slots -> Words] /\ ring_pnt_2 \in Slots /\ lap \in Nat
      /\ LoopMod \in Nat \ {0} /\ 0 \in Slots
  <2>1. LoopMod \in Nat \ {0} /\ 0 \in Slots
    BY RingAssumption DEF Slots
  <2> QED
    BY <2>1 DEF PutWord, TypeInv, HookTypeOK, ShmTypeOK
<1>1. UNCHANGED <<buf_pnt_2, ring_pnt_2, ring_loop_2, lap, written, tail>>
  BY DEF PutWord, positions, ghosts
<1>2. /\ \A k : Off(k)' = Off(k) /\ Slot(k)' = Slot(k) /\ Lap(k)' = Lap(k) /\ Wraps(k)' = Wraps(k)
      /\ Places1' = Places1
  BY <1>1 DEF Off, Slot, Lap, Places1, Wraps
<1>3. Published' = Published
  BY <1>0, <1>1 DEF Published, AtTail
<1>4. Chain' /\ Rising' /\ LoopIsLap' /\ LapBegan' /\ TailShows'
  BY <1>1, <1>2, <1>3 DEF OrderParts, Chain, Rising, LoopIsLap, LapBegan, TailShows
<1>5. FirstEntry'
  <2>1. word'[0].loop <= lap
    <3>1. CASE ring_pnt_2 = 0
      <4>1. word'[0] = EntryWord(ring_loop_2, masks[c].missing, masks[c].eevent, skb[c].id)
        BY <1>0, <3>1 DEF PutWord
      <4>2. ring_loop_2 = lap /\ lap % LoopMod = lap
        <5>1. lap = LoopMod * 0 + lap /\ lap \in 0 .. LoopMod - 1
          BY <1>0 DEF Regular
        <5>2. lap \in Int /\ 0 \in Int
          BY <1>0
        <5> QED
          BY <1>0, <5>1, <5>2, ModUnique DEF OrderParts, LoopIsLap
      <4> QED
        BY <1>0, <4>1, <4>2 DEF EntryWord
    <3>2. CASE ring_pnt_2 # 0
      BY <1>0, <3>2 DEF PutWord, OrderParts, FirstEntry
    <3> QED
      BY <3>1, <3>2
  <2>2. pc'[c] = "length"
    BY <1>0
  <2> QED
    BY <1>1, <2>1, <2>2 DEF FirstEntry
<1> QED
  BY <1>4, <1>5 DEF OrderParts

(* Moving on.                                                              *)
LEMMA OrderAdvance ==
  ASSUME TypeInv, Mutex, Regular', OrderParts, NEW c \in CPUs, Advance(c)
  PROVE  OrderParts'
<1>0. PICK W \in Nat : W = Len(written)
  BY DEF TypeInv, HookTypeOK
<1> DEFINE pnt   == buf_pnt_2 + skb[c].len
           slot  == ring_pnt_2 + 1
           wraps == WrapsAt(masks[c].eevent, pnt, slot)
<1>1. /\ W \in Nat /\ Len(written') = W + 1
      /\ DOMAIN written = 1 .. W /\ DOMAIN written' = 1 .. W + 1
      /\ \A k \in 1 .. W : written'[k] = written[k]
      /\ written'[W + 1] = EntryOf(skb[c], masks[c], buf_pnt_2, ring_pnt_2, ring_loop_2)
  BY <1>0, Moves
<1>2. /\ \A k \in 1 .. W + 1 : Off(k)' = Off(k) /\ Slot(k)' = Slot(k) /\ Lap(k)' = Lap(k)
      /\ Off(W + 1) = buf_pnt_2 /\ Slot(W + 1) = ring_pnt_2 /\ Lap(W + 1) = lap
      /\ Off(W + 2)' = buf_pnt_2' /\ Slot(W + 2)' = ring_pnt_2' /\ Lap(W + 2)' = lap'
  BY <1>0, Moves
<1>3. IF wraps THEN buf_pnt_2' = 0 /\ ring_pnt_2' = 0 /\ lap' = lap + 1
               ELSE buf_pnt_2' = pnt /\ ring_pnt_2' = slot /\ lap' = lap
  BY <1>0, Moves
<1>4. /\ ~ AtTail /\ AtTail' /\ pc[c] = "advance"
      /\ \A d \in CPUs : pc[d] \in Writing => d = c
      /\ pc' = [pc EXCEPT ![c] = "tail"] /\ pc \in [CPUs -> Places]
  BY <1>0, Moves DEF TypeInv, HookTypeOK
<1>5. /\ skb[c].len \in 1 .. MaxPacket /\ buf_pnt_2 \in Nat /\ ring_pnt_2 \in Nat /\ lap \in Nat
      /\ skb[c].len \in Nat /\ ring_loop_2 \in Nat
  BY <1>4, PacketFacts, RingAssumption DEF Writing, BufEnd, Slots
<1>6. /\ written'[W + 1].off = buf_pnt_2 /\ written'[W + 1].len = skb[c].len
      /\ written'[W + 1].slot = ring_pnt_2 /\ written'[W + 1].lap = lap
      /\ written'[W + 1].loop = ring_loop_2 /\ written'[W + 1].eevent = masks[c].eevent
  BY <1>1, NewEntry
<1> HIDE DEF wraps
<1>7. Places1 = 1 .. W + 1 /\ Places1' = 1 .. W + 2
  BY <1>0, <1>1 DEF Places1
<1>8. \A k \in 1 .. W : Wraps(k)' = Wraps(k)
  BY <1>1 DEF Wraps
<1>9. Wraps(W + 1)' = wraps
  BY <1>6 DEF Wraps, wraps
<1>10. Chain'
  <2>1. Off(1)' = 0 /\ Slot(1)' = 0 /\ Lap(1)' = 0
    BY <1>1, <1>2 DEF OrderParts, Chain
  <2>2. ASSUME NEW k \in 1 .. W + 1
        PROVE  (IF Wraps(k)
                THEN Off(k + 1) = 0 /\ Slot(k + 1) = 0 /\ Lap(k + 1) = written[k].lap + 1
                ELSE /\ Off(k + 1)  = written[k].off + written[k].len
                     /\ Slot(k + 1) = written[k].slot + 1
                     /\ Lap(k + 1)  = written[k].lap)'
    <3>1. CASE k = W + 1
      <4>1. k + 1 = W + 2
        BY <3>1, <1>1
      <4> QED
        BY <3>1, <4>1, <1>2, <1>3, <1>6, <1>9
    <3>2. CASE k \in 1 .. W
      <4>1. k + 1 \in 1 .. W + 1
        BY <3>2, <1>1
      <4> QED
        BY <3>2, <4>1, <1>1, <1>2, <1>8 DEF OrderParts, Chain
    <3> QED
      BY <3>1, <3>2, <1>1
  <2> QED
    BY <2>1, <2>2, <1>1 DEF Chain
<1>11. Rising'
  <2> SUFFICES ASSUME NEW i \in 1 .. W + 1, NEW k \in 1 .. W + 2, i < k
               PROVE  (\/ Lap(i) < Lap(k)
                       \/ /\ Lap(i) = Lap(k)
                          /\ written[i].off + written[i].len <= Off(k)
                          /\ Slot(i) < Slot(k))'
    BY <1>1, <1>7 DEF Rising
  <2>0. \A e \in 1 .. W : /\ Lap(e) \in Nat /\ Slot(e) \in Nat
                          /\ written[e].off \in Nat /\ written[e].len \in Nat
    <3> TAKE e \in 1 .. W
    <3>1. e \in Places1 /\ e \in DOMAIN written
      BY <1>1, <1>7
    <3>2. written[e].off \in 0 .. BufEnd /\ written[e].len \in 1 .. MaxPacket
      BY <3>1, EntryFacts
    <3> QED
      BY <3>1, <3>2, PositionTypes, RingAssumption DEF BufEnd
  <2>1. CASE k \in 1 .. W + 1
    <3>1. i \in 1 .. W
      BY <2>1, <1>1
    <3> QED
      BY <2>1, <3>1, <1>1, <1>2, <1>7 DEF OrderParts, Rising
  <2>2. CASE k = W + 2 /\ i = W + 1
    BY <2>2, <1>1, <1>2, <1>3, <1>5, <1>6
  <2>3. CASE k = W + 2 /\ i \in 1 .. W
    <3>1. \/ Lap(i) < lap
          \/ /\ Lap(i) = lap
             /\ written[i].off + written[i].len <= buf_pnt_2
             /\ Slot(i) < ring_pnt_2
      <4>1. W + 1 \in Places1 /\ i < W + 1
        BY <2>3, <1>1, <1>7
      <4> QED
        BY <2>3, <4>1, <1>1, <1>2 DEF OrderParts, Rising
    <3>2. /\ Lap(i)' = Lap(i) /\ Slot(i)' = Slot(i) /\ written'[i] = written[i]
      BY <2>3, <1>1, <1>2
    <3>3. /\ Lap(k)' = lap' /\ Off(k)' = buf_pnt_2' /\ Slot(k)' = ring_pnt_2'
      BY <2>3, <1>2
    <3> QED
      BY <2>0, <2>3, <3>1, <3>2, <3>3, <1>3, <1>5
  <2> QED
    BY <2>1, <2>2, <2>3, <1>1
<1>12. LoopIsLap'
  <2>1. LoopIsLap
    BY DEF OrderParts
  <2>2. ASSUME NEW k \in 1 .. W + 1 PROVE written'[k].loop = written'[k].lap
    <3>1. CASE k = W + 1
      BY <3>1, <2>1, <1>6 DEF LoopIsLap
    <3>2. CASE k \in 1 .. W
      BY <3>2, <2>1, <1>1 DEF LoopIsLap
    <3> QED
      BY <3>1, <3>2, <1>1
  <2>3. ring_loop_2' = lap'
    <3>1. ring_loop_2' = IF wraps THEN (ring_loop_2 + 1) % LoopRange ELSE ring_loop_2
      BY DEF Advance, wraps
    <3>2. CASE wraps
      <4>1. lap + 1 < LoopMod /\ LoopMod \in Nat \ {0} /\ LoopRange \in Nat \ {0}
        BY <1>3, <3>2, RingAssumption DEF Regular, LoopRange
      <4>2. lap + 1 = LoopRange * 0 + (lap + 1) /\ lap + 1 \in 0 .. LoopRange - 1
        BY <1>5, <4>1 DEF LoopRange
      <4>3. (lap + 1) % LoopRange = lap + 1
        <5>1. lap + 1 \in Int /\ 0 \in Int
          BY <1>5
        <5> QED
          BY <4>1, <4>2, <5>1, ModUnique
      <4> QED
        BY <1>3, <2>1, <3>1, <3>2, <4>3 DEF LoopIsLap
    <3>3. CASE ~ wraps
      BY <1>3, <2>1, <3>1, <3>3 DEF LoopIsLap
    <3> QED
      BY <3>2, <3>3
  <2> QED
    BY <2>2, <2>3, <1>1 DEF LoopIsLap
<1>13. LapBegan'
  <2>1. CASE wraps
    <3>1. W + 2 \in Places1'
      BY <1>1, <1>7
    <3> QED
      BY <2>1, <3>1, <1>2, <1>3 DEF LapBegan
  <2>2. CASE ~ wraps
    <3>1. PICK s \in 1 .. W + 1 : Off(s) = 0 /\ Slot(s) = 0 /\ Lap(s) = lap
      BY <1>7 DEF OrderParts, LapBegan
    <3>2. s \in Places1'
      BY <1>1, <1>7
    <3> QED
      BY <2>2, <3>1, <3>2, <1>2, <1>3 DEF LapBegan
  <2> QED
    BY <2>1, <2>2
<1>14. FirstEntry'
  <2>1. word' = word /\ word[0].loop <= lap
    BY DEF Advance, shm, OrderParts, FirstEntry
  <2>2. word[0].loop \in Nat
    BY RingAssumption DEF TypeInv, HookTypeOK, ShmTypeOK, Words, Slots
  <2>3. CASE wraps
    BY <2>1, <2>2, <2>3, <1>3, <1>5 DEF FirstEntry
  <2>4. CASE ~ wraps
    BY <2>1, <2>4, <1>3, <1>5 DEF FirstEntry
  <2> QED
    BY <2>3, <2>4
<1>15. TailShows'
  <2>1. Published = W /\ Published' = W
    BY <1>0, <1>1, <1>4 DEF Published
  <2>2. tail' = tail /\ Off(W + 1)' = Off(W + 1)
    BY <1>1, <1>2 DEF Advance, shm
  <2>3. tail = Off(Published + 1)
    BY DEF OrderParts, TailShows
  <2>4. Off(Published + 1)' = Off(W + 1)'
    BY <2>1 DEF Off
  <2> QED
    BY <2>1, <2>2, <2>3, <2>4, <1>1 DEF TailShows
<1> QED
  BY <1>10, <1>11, <1>12, <1>13, <1>14, <1>15 DEF OrderParts

(* Publishing the write offset.                                            *)
LEMMA OrderTail ==
  ASSUME TypeInv, Mutex, OrderParts, NEW c \in CPUs, PutTail(c)
  PROVE  OrderParts'
<1>0. /\ pc[c] = "tail" /\ pc' = [pc EXCEPT ![c] = "idle"] /\ pc \in [CPUs -> Places]
      /\ written \in Seq(Entries)
  BY DEF PutTail, TypeInv, HookTypeOK
<1>1. UNCHANGED <<buf_pnt_2, ring_pnt_2, ring_loop_2, lap, written, word>> /\ tail' = buf_pnt_2
  BY DEF PutTail, positions, ghosts
<1>2. /\ \A k : Off(k)' = Off(k) /\ Slot(k)' = Slot(k) /\ Lap(k)' = Lap(k) /\ Wraps(k)' = Wraps(k)
      /\ Places1' = Places1
  BY <1>1 DEF Off, Slot, Lap, Places1, Wraps
<1>3. ~ AtTail'
  BY <1>0, Alone DEF AtTail, Writing
<1>4. Published' = Len(written) /\ Len(written) \in Nat /\ DOMAIN written = 1 .. Len(written)
  BY <1>0, <1>1, <1>3 DEF Published
<1>5. tail' = Off(Published + 1)'
  <2>1. Off(Len(written) + 1) = buf_pnt_2
    BY <1>4 DEF Off
  <2> QED
    BY <1>1, <1>2, <1>4, <2>1 DEF Off
<1>6. Chain' /\ Rising' /\ LoopIsLap' /\ LapBegan'
  BY <1>1, <1>2 DEF OrderParts, Chain, Rising, LoopIsLap, LapBegan
<1>7. FirstEntry'
  BY <1>0, <1>1 DEF OrderParts, FirstEntry
<1> QED
  BY <1>4, <1>5, <1>6, <1>7 DEF OrderParts, TailShows

(* Every step of the driver.                                               *)
LEMMA OrderNext == TypeInv /\ DataInv /\ OrderInv /\ [DriverNext]_hookVars => OrderInv'
<1> SUFFICES ASSUME TypeInv, DataInv, OrderInv, [DriverNext]_hookVars, Regular'
             PROVE  OrderParts'
  BY DEF OrderInv, OrderParts
<1>0. /\ pc \in [CPUs -> Places] /\ Mutex /\ Regular /\ resets' = resets /\ resets = 0
      /\ reset = "no"
  BY RegularFalls DEF TypeInv, HookTypeOK, DataInv, Undisturbed, Regular
<1>1. OrderParts
  BY <1>0 DEF OrderInv, OrderParts
<1>2. CASE Environment \/ Switch \/ UNCHANGED hookVars
  <2>1. /\ UNCHANGED <<positions, ghosts, tail, word>>
        /\ \A c \in CPUs : pc'[c] # pc[c] => pc[c] = "idle" /\ pc'[c] = "lock"
    BY <1>0, <1>2 DEF Environment, Receive, Lose, Switch, SwitchPmissing, SwitchEevent,
                      RaisePmissing, LowerPmissing, RaiseEevent, LowerEevent, hookVars, shm, cpus
  <2> QED
    BY <1>1, <2>1, OrderQuiet
<1>3. ASSUME NEW c \in CPUs, HookStep(c) PROVE OrderParts'
  <2>1. CASE Lock(c) \/ CopyData(c) \/ Classify(c) \/ PutLength(c)
    <3>1. UNCHANGED <<positions, ghosts, tail, word>>
      BY <2>1 DEF Lock, CopyData, Classify, PutLength, shm
    <3>2. \A d \in CPUs : /\ pc'[d] = "tail" <=> pc[d] = "tail"
                          /\ pc'[d] \in {"length", "advance"} <=> pc[d] \in {"length", "advance"}
      BY <1>0, <2>1 DEF Lock, CopyData, Classify, PutLength
    <3> QED
      BY <1>1, <3>1, <3>2, OrderQuiet
  <2> QED
    BY <1>0, <1>1, <1>3, <2>1, OrderWord, OrderAdvance, OrderTail DEF HookStep
<1>4. CASE ResetStep
  BY <1>0, <1>4 DEF ResetStep, ResetBuf, ResetRing, ResetLoop, ResetProc, ResetTail
<1>5. ASSUME NEW c \in CPUs, RacedStep(c) PROVE FALSE
  BY <1>0, <1>5, MutexRaced
<1> QED
  BY <1>2, <1>3, <1>4, <1>5 DEF DriverNext

(* Until it is reset or its loop count exceeds 14 bits, the driver's       *)
(* packets tile the data area and the ring lap by lap, and the tail word   *)
(* points behind the last one whose hook has finished.                     *)
THEOREM OrderInvariant == DriverSpec => []OrderInv
  BY OrderInit, OrderNext, TypeInvariant, DataInvariant, PTL DEF DriverSpec

-----------------------------------------------------------------------------
(* No packet is written twice.                                             *)

\* At the start nothing has been sent twice.
LEMMA OnceInit == HookInit => OnceInv
  BY DEF HookInit, NoPacket, OnceInv, Arrived, Distinct

(* A step that brings and writes no packet.                                *)
LEMMA OnceQuiet ==
  ASSUME OnceInv, UNCHANGED <<ddu, written, skb>>,
         \A c \in CPUs : pc[c] = "tail" => pc'[c] = "tail"
  PROVE  OnceInv'
<1>1. Arrived'
  BY DEF OnceInv, Arrived
<1>2. Distinct'
  BY DEF OnceInv, Distinct
<1> QED
  BY <1>1, <1>2 DEF OnceInv

(* A packet arrives.                                                       *)
LEMMA OnceReceive ==
  ASSUME TypeInv, OnceInv, NEW c \in CPUs, NEW size \in Lens, NEW ends \in BOOLEAN,
         Receive(c, size, ends)
  PROVE  OnceInv'
<1>0. /\ pc \in [CPUs -> Places] /\ skb \in [CPUs -> Packets \cup {NoPacket}]
      /\ ddu.sent \in Nat /\ \A d \in CPUs : skb[d].id \in Nat
      /\ \A k \in DOMAIN written : written[k].id \in Nat
  <2>1. pc \in [CPUs -> Places] /\ skb \in [CPUs -> Packets \cup {NoPacket}] /\ ddu.sent \in Nat
    BY DEF TypeInv, HookTypeOK
  <2>2. ASSUME NEW d \in CPUs PROVE skb[d].id \in Nat
    BY <2>1 DEF Packets, NoPacket
  <2>3. ASSUME NEW k \in DOMAIN written PROVE written[k].id \in Nat
    BY <2>3, EntryFacts DEF Entries
  <2> QED
    BY <2>1, <2>2, <2>3
<1>1. /\ ddu'.sent = ddu.sent + 1 /\ written' = written
      /\ skb'[c].id = ddu.sent + 1 /\ pc'[c] = "lock"
      /\ \A d \in CPUs \ {c} : skb'[d] = skb[d] /\ pc'[d] = pc[d]
  BY <1>0 DEF Receive, NextPacket, ghosts
<1>2. Arrived'
  BY <1>0, <1>1 DEF OnceInv, Arrived
<1>3. Distinct'
  BY <1>0, <1>1 DEF OnceInv, Arrived, Distinct
<1> QED
  BY <1>2, <1>3 DEF OnceInv

(* The packet in hand is written: no other CPU has it, nor was it written. *)
LEMMA OnceAdvance ==
  ASSUME TypeInv, Mutex, OnceInv, NEW c \in CPUs, pc[c] = "advance",
         pc' = [pc EXCEPT ![c] = "tail"], UNCHANGED <<ddu, skb>>,
         written' = Append(written, EntryOf(skb[c], masks[c], buf_pnt_2, ring_pnt_2, ring_loop_2))
  PROVE  OnceInv'
<1>0. PICK W \in Nat : W = Len(written) /\ written \in Seq(Entries)
  BY DEF TypeInv, HookTypeOK
<1>1. /\ DOMAIN written = 1 .. W /\ DOMAIN written' = 1 .. W + 1
      /\ \A k \in 1 .. W : written'[k] = written[k]
      /\ written'[W + 1] = EntryOf(skb[c], masks[c], buf_pnt_2, ring_pnt_2, ring_loop_2)
  BY <1>0
<1>2. /\ pc[c] = "advance" /\ pc' = [pc EXCEPT ![c] = "tail"] /\ pc \in [CPUs -> Places]
      /\ UNCHANGED <<ddu, skb>>
  BY DEF TypeInv, HookTypeOK
<1>3. written'[W + 1].id = skb[c].id
  BY <1>1, NewEntry
<1>4. skb[c].id # 0
  <2>1. skb[c] \in Packets
    BY <1>2 DEF TypeInv, Handling
  <2> QED
    BY <2>1 DEF Packets
<1>5. Arrived'
  BY <1>1, <1>2, <1>3 DEF OnceInv, Arrived
<1>6. ASSUME NEW i \in 1 .. W + 1, NEW k \in 1 .. W + 1, written'[i].id = written'[k].id
      PROVE  i = k
  BY <1>1, <1>2, <1>3, <1>6 DEF OnceInv, Distinct
<1>7. ASSUME NEW d \in CPUs, NEW k \in 1 .. W + 1, pc'[d] # "tail"
      PROVE  skb[d].id # written'[k].id
  <2>1. d # c /\ pc[d] # "tail"
    BY <1>2, <1>7
  <2> QED
    BY <2>1, <1>1, <1>2, <1>3, <1>4 DEF OnceInv, Distinct
<1>8. Distinct'
  BY <1>1, <1>2, <1>6, <1>7 DEF OnceInv, Distinct
<1> QED
  BY <1>5, <1>8 DEF OnceInv

(* The CPU is done with the packet.                                        *)
LEMMA OnceTail ==
  ASSUME TypeInv, OnceInv, NEW c \in CPUs, UNCHANGED <<ddu, written>>,
         skb' = [skb EXCEPT ![c] = NoPacket], pc' = [pc EXCEPT ![c] = "idle"]
  PROVE  OnceInv'
<1>1. /\ ddu.sent \in Nat /\ \A k \in DOMAIN written : written[k].id # 0
      /\ pc \in [CPUs -> Places] /\ skb \in [CPUs -> Packets \cup {NoPacket}]
  BY EntryFacts DEF TypeInv, HookTypeOK, Entries
<1>2. /\ UNCHANGED <<ddu, written>> /\ skb'[c].id = 0
      /\ \A d \in CPUs \ {c} : skb'[d] = skb[d] /\ pc'[d] = pc[d]
  BY <1>1 DEF NoPacket
<1>3. Arrived'
  BY <1>1, <1>2 DEF OnceInv, Arrived
<1>4. Distinct'
  BY <1>1, <1>2 DEF OnceInv, Distinct
<1> QED
  BY <1>3, <1>4 DEF OnceInv

(* Every step of the driver.                                               *)
LEMMA OnceNext == TypeInv /\ DataInv /\ OnceInv /\ [DriverNext]_hookVars => OnceInv'
<1> SUFFICES ASSUME TypeInv, DataInv, OnceInv, [DriverNext]_hookVars PROVE OnceInv'
  OBVIOUS
<1>0. pc \in [CPUs -> Places] /\ Mutex /\ ddu.sent \in Nat
  BY DEF TypeInv, HookTypeOK, DataInv
<1>1. CASE \E size \in Lens, ends \in BOOLEAN : Lose(size, ends)
  <2>1. UNCHANGED <<written, pc, skb>> /\ ddu'.sent = ddu.sent + 1
    BY <1>1 DEF Lose, NextPacket, cpus, ghosts
  <2>2. /\ \A c \in CPUs : skb[c].id \in Nat
        /\ \A k \in DOMAIN written : written[k].id \in Nat
    <3>1. ASSUME NEW c \in CPUs PROVE skb[c].id \in Nat
      BY DEF TypeInv, HookTypeOK, Packets, NoPacket
    <3>2. ASSUME NEW k \in DOMAIN written PROVE written[k].id \in Nat
      BY EntryFacts DEF Entries
    <3> QED
      BY <3>1, <3>2
  <2>3. Arrived'
    BY <1>0, <2>1, <2>2 DEF OnceInv, Arrived
  <2>4. Distinct'
    BY <2>1 DEF OnceInv, Distinct
  <2> QED
    BY <2>3, <2>4 DEF OnceInv
<1>2. ASSUME NEW c \in CPUs, NEW size \in Lens, NEW ends \in BOOLEAN, Receive(c, size, ends)
      PROVE  OnceInv'
  BY <1>2, OnceReceive
<1>3. CASE Switch \/ ResetStep \/ UNCHANGED hookVars
  <2>1. UNCHANGED <<ddu, written, skb, pc>>
    BY <1>3 DEF Switch, SwitchPmissing, SwitchEevent, RaisePmissing, LowerPmissing, RaiseEevent,
                LowerEevent, ResetStep, ResetBuf, ResetRing, ResetLoop, ResetProc, ResetTail,
                hookVars, env, cpus, ghosts
  <2> QED
    BY <2>1, OnceQuiet
<1>4. ASSUME NEW c \in CPUs, HookStep(c) PROVE OnceInv'
  <2>1. CASE Lock(c) \/ CopyData(c) \/ Classify(c) \/ PutWord(c) \/ PutLength(c)
    <3>1. UNCHANGED <<ddu, written, skb>>
      BY <2>1 DEF Lock, CopyData, Classify, PutWord, PutLength, env, ghosts
    <3>2. \A d \in CPUs : pc[d] = "tail" => pc'[d] = "tail"
      BY <1>0, <2>1 DEF Lock, CopyData, Classify, PutWord, PutLength
    <3> QED
      BY <3>1, <3>2, OnceQuiet
  <2>2. CASE Advance(c)
    BY <1>0, <2>2, OnceAdvance DEF Advance, env
  <2>3. CASE PutTail(c)
    BY <2>3, OnceTail DEF PutTail, env, ghosts
  <2> QED
    BY <1>4, <2>1, <2>2, <2>3 DEF HookStep
<1>5. ASSUME NEW c \in CPUs, RacedStep(c) PROVE OnceInv'
  <2>1. PICK falls : /\ \/ RacedCopy(c, falls) \/ RacedClassify(c, falls) \/ RacedWord(c, falls)
                        \/ RacedAdvance(c, falls) \/ RacedTail(c, falls)
                     /\ UNCHANGED ddu
    BY <1>5 DEF RacedStep, env
  <2>2. CASE RacedCopy(c, falls) \/ RacedClassify(c, falls) \/ RacedWord(c, falls)
    <3>1. UNCHANGED <<ddu, written, skb>>
      BY <2>1, <2>2 DEF RacedCopy, RacedClassify, RacedWord, ghosts
    <3>2. \A d \in CPUs : pc[d] = "tail" => pc'[d] = "tail"
      BY <1>0, <2>2 DEF RacedCopy, RacedClassify, RacedWord
    <3> QED
      BY <3>1, <3>2, OnceQuiet
  <2>3. CASE RacedAdvance(c, falls)
    BY <1>0, <2>1, <2>3, OnceAdvance DEF RacedAdvance
  <2>4. CASE RacedTail(c, falls)
    BY <2>1, <2>4, OnceTail DEF RacedTail, ghosts
  <2> QED
    BY <2>1, <2>2, <2>3, <2>4
<1> QED
  BY <1>1, <1>2, <1>3, <1>4, <1>5 DEF DriverNext, Environment

(* Whatever the CPUs do, and also over resets, no packet is written twice. *)
THEOREM OnceInvariant == DriverSpec => []OnceInv
  BY OnceInit, OnceNext, TypeInvariant, DataInvariant, PTL DEF DriverSpec
=============================================================================
