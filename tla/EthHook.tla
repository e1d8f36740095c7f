------------------------------- MODULE EthHook -------------------------------
(***************************************************************************)
(* The kernel driver eth_hook_2.c: netif_rx_hook_2, called for every       *)
(* packet of the DDU on whatever CPU received it, writes the packet and    *)
(* its ring entry under eth_lock; the ioctl's reset it and switch its      *)
(* checks, without that lock, so that their stores may come between any    *)
(* two loads and stores of the hook.                                       *)
(*                                                                         *)
(* The DDU and the network are outside src/: the DDU numbers its packets   *)
(* consecutively and cuts events into packets, the network may lose some.  *)
(***************************************************************************)
EXTENDS EthRing

CONSTANTS
  CPUs,        \* the CPUs that run the hook
  Lens,        \* the packet lengths the DDU sends
  MinLen,      \* the length of a minimum-size packet (64 bytes)
  CtrMod,      \* modulus of the packet counter (2^16)
  EventSizes,  \* the largest event the DDU sends
  Spill,       \* the copy runs at most this far past the packet's end
  MaxSent,     \* bound: packets the DDU numbers
  MaxLost,     \* bound: packets the network loses
  MaxResets,   \* bound: SCHAR_RESET ioctl's
  MaySwitch,   \* whether SCHAR_PMISSING and SCHAR_EEVENT are issued
  None         \* no CPU

ASSUME HookAssumption ==
  /\ Spill \in Nat
  /\ Lens \subseteq Nat \ {0}
  /\ \A size \in Lens : size + Spill <= MaxPacket
  /\ MinLen \in Nat /\ CtrMod \in Nat \ {0, 1} /\ EventSizes \in Nat
  /\ MaxSent \in Nat /\ MaxLost \in Nat /\ MaxResets \in Nat /\ MaySwitch \in BOOLEAN
  /\ None \notin CPUs

VARIABLES
  ddu,         \* external: packets numbered, start and size of the event being sent
  lost,        \* external: packets the network lost
  pc,          \* where each CPU is in netif_rx_hook_2
  skb,         \* the packet each CPU is handling
  masks,       \* missing_mask and eevent_mask of each CPU, and (ghost) whether it
               \* looked for missing packets
  eth_lock,
  buf_pnt_2, ring_pnt_2, ring_loop_2,
  proc_last_pmissing_2, proc_rpackets_2, proc_pmissing_2,
  flag_pmissing_2, flag_eevent_2,
  reset,       \* where the ioctl is in schar_reset_2
  resets,      \* SCHAR_RESET ioctl's so far
  raised,      \* the flags an ioctl has set in order to clear them
  lap,         \* ghost: how often the hook has looped back
  written      \* ghost: the packets whose entry is complete, in order

env       == <<ddu, lost>>
positions == <<buf_pnt_2, ring_pnt_2, ring_loop_2>>
counters  == <<proc_last_pmissing_2, proc_rpackets_2, proc_pmissing_2>>
switches  == <<flag_pmissing_2, flag_eevent_2>>
cpus      == <<pc, skb, masks>>
ioctl     == <<reset, resets, raised>>
ghosts    == <<lap, written>>
hookVars  == <<shm, env, positions, counters, switches, cpus, eth_lock, ioctl, ghosts>>

(* "first" is the id of the packet that started this packet's event,       *)
(* "ends" whether it is the event's last one: the hook sees the former     *)
(* never and the latter through the trailer words or the minimum length.   *)
Packets == [ id : 1 .. MaxSent, first : 1 .. MaxSent, len : Lens, ends : BOOLEAN ]
NoPacket == [ id |-> 0, first |-> 0, len |-> 0, ends |-> FALSE ]
Masks    == [ missing : BOOLEAN, eevent : BOOLEAN, checked : BOOLEAN ]
NoMasks  == [ missing |-> FALSE, eevent |-> FALSE, checked |-> FALSE ]

(* A packet together with where the driver put it and how it flagged it.   *)
Entries ==
  [ id : 1 .. MaxSent, first : 1 .. MaxSent, len : Lens, ends : BOOLEAN,
    missing : BOOLEAN, eevent : BOOLEAN, checked : BOOLEAN,
    off : 0 .. BufEnd, slot : Slots, loop : 0 .. LoopRange - 1, lap : Nat ]

EntryOf(p, mask, off, slot, loop) ==
  [ id |-> p.id, first |-> p.first, len |-> p.len, ends |-> p.ends,
    missing |-> mask.missing, eevent |-> mask.eevent, checked |-> mask.checked,
    off |-> off, slot |-> slot, loop |-> loop, lap |-> lap ]

Places == {"idle", "lock", "copy", "classify", "word", "length", "advance", "tail"}

HookTypeOK ==
  /\ ShmTypeOK
  /\ ddu \in [ sent : 0 .. MaxSent, first : 1 .. MaxSent + 1, size : Nat ]
  /\ lost \in 0 .. MaxLost
  /\ pc \in [CPUs -> Places]
  /\ skb \in [CPUs -> Packets \cup {NoPacket}]
  /\ masks \in [CPUs -> Masks]
  /\ eth_lock \in CPUs \cup {None}
  /\ buf_pnt_2 \in 0 .. BufEnd
  /\ ring_pnt_2 \in Slots
  /\ ring_loop_2 \in 0 .. LoopRange - 1
  /\ proc_last_pmissing_2 \in 0 .. CtrMod - 1
  /\ proc_rpackets_2 \in Nat
  /\ proc_pmissing_2 \in Nat
  /\ flag_pmissing_2 \in BOOLEAN
  /\ flag_eevent_2 \in BOOLEAN
  /\ reset \in {"no", "ring", "loop", "proc", "tail"}
  /\ resets \in 0 .. MaxResets
  /\ raised \subseteq {"pmissing", "eevent"}
  /\ lap \in Nat
  /\ written \in Seq(Entries)

HookInit ==
  /\ ShmInit
  /\ ddu = [ sent |-> 0, first |-> 1, size |-> 0 ]
  /\ lost = 0
  /\ pc = [c \in CPUs |-> "idle"]
  /\ skb = [c \in CPUs |-> NoPacket]
  /\ masks = [c \in CPUs |-> NoMasks]
  /\ eth_lock = None
  /\ buf_pnt_2 = 0 /\ ring_pnt_2 = 0 /\ ring_loop_2 = 0
  /\ proc_last_pmissing_2 = 0 /\ proc_rpackets_2 = 0 /\ proc_pmissing_2 = 0
  /\ flag_pmissing_2 = TRUE /\ flag_eevent_2 = TRUE
  /\ reset = "no" /\ resets = 0 /\ raised = {}
  /\ lap = 0 /\ written = <<>>

-----------------------------------------------------------------------------
(* External: the DDU numbers the next packet.  A minimum-size packet       *)
(* always ends an event, no event exceeds EventSizes, and every event can  *)
(* be completed.                                                           *)
NextPacket(size, ends) ==
  /\ ddu.sent < MaxSent
  /\ ddu.size + size + (IF ends THEN 0 ELSE MinLen) <= EventSizes
  /\ size = MinLen => ends
  /\ ddu' = [ sent  |-> ddu.sent + 1,
              first |-> IF ends THEN ddu.sent + 2 ELSE ddu.first,
              size  |-> IF ends THEN 0 ELSE ddu.size + size ]

(* External: the packet arrives on CPU c, which enters the hook.           *)
Receive(c, size, ends) ==
  /\ pc[c] = "idle"
  /\ NextPacket(size, ends)
  /\ skb' = [skb EXCEPT ![c] = [ id    |-> ddu.sent + 1, first |-> ddu.first,
                                 len   |-> size,         ends  |-> ends ]]
  /\ pc' = [pc EXCEPT ![c] = "lock"]
  /\ UNCHANGED <<shm, lost, masks, eth_lock, positions, counters, switches, ioctl, ghosts>>

(* External: the network loses the packet.                                 *)
Lose(size, ends) ==
  /\ lost < MaxLost
  /\ NextPacket(size, ends)
  /\ lost' = lost + 1
  /\ UNCHANGED <<shm, cpus, eth_lock, positions, counters, switches, ioctl, ghosts>>

(* Mutant of Lock: the lock is not waited for.                             *)
LockAnyway(c) ==
  /\ pc[c] = "lock"
  /\ eth_lock' = c
  /\ pc' = [pc EXCEPT ![c] = "copy"]
  /\ UNCHANGED <<shm, env, skb, masks, positions, counters, switches, ioctl, ghosts>>

Lock(c) ==
  /\ pc[c] = "lock"
  /\ eth_lock = None
  /\ eth_lock' = c
  /\ pc' = [pc EXCEPT ![c] = "copy"]
  /\ UNCHANGED <<shm, env, skb, masks, positions, counters, switches, ioctl, ghosts>>

Environment ==
  \E size \in Lens, ends \in BOOLEAN :
    Lose(size, ends) \/ \E c \in CPUs : Receive(c, size, ends)

(* Write the data to the data area, count the packet.  The copy is made of *)
(* whole words and may run past the packet's end.                          *)
CopyData(c) ==
  /\ pc[c] = "copy"
  /\ mem' = [u \in Units |-> IF u \in buf_pnt_2 .. buf_pnt_2 + skb[c].len + Spill - 1
                             THEN skb[c].id ELSE mem[u]]
  /\ proc_rpackets_2' = proc_rpackets_2 + 1
  /\ pc' = [pc EXCEPT ![c] = "classify"]
  /\ UNCHANGED <<word, length, tail, env, skb, masks, eth_lock, positions,
                 proc_last_pmissing_2, proc_pmissing_2, switches, ioctl, ghosts>>

(* Mutants of PacketsMissing: the counter's wrap is taken for a gap; the   *)
(* first packet of every loop is exempt.                                   *)
PacketsMissingAtWrap(packet_count) ==
  /\ flag_pmissing_2
  /\ packet_count # proc_last_pmissing_2 + 1
  /\ ring_pnt_2 # 0 \/ ring_loop_2 # 0
PacketsMissingInLoop(packet_count) ==
  /\ flag_pmissing_2
  /\ packet_count # (proc_last_pmissing_2 + 1) % CtrMod
  /\ ring_pnt_2 # 0

(* The packet counter does not follow the last one that was looked at.     *)
(* The packet at the start of loop 0 is exempt.                            *)
Skips(packet_count, last, slot, loop) ==
  /\ packet_count # (last + 1) % CtrMod
  /\ slot # 0 \/ loop # 0

PacketsMissing(packet_count) ==
  flag_pmissing_2 /\ Skips(packet_count, proc_last_pmissing_2, ring_pnt_2, ring_loop_2)

(* The trailer words, or the minimum length, say that the event ends here. *)
EndsEvent(p) == flag_eevent_2 /\ (p.len = MinLen \/ p.ends)

Classify(c) ==
  LET packet_count == skb[c].id % CtrMod
      missing      == PacketsMissing(packet_count)
  IN
  /\ pc[c] = "classify"
  /\ masks' = [masks EXCEPT ![c] = [ missing |-> missing, eevent  |-> EndsEvent(skb[c]),
                                     checked |-> flag_pmissing_2 ]]
  /\ proc_pmissing_2' = IF missing THEN proc_pmissing_2 + 1 ELSE proc_pmissing_2
  /\ proc_last_pmissing_2' = IF flag_pmissing_2 THEN packet_count ELSE proc_last_pmissing_2
  /\ pc' = [pc EXCEPT ![c] = "word"]
  /\ UNCHANGED <<shm, env, skb, eth_lock, positions, proc_rpackets_2, switches, ioctl, ghosts>>

PutWord(c) ==
  /\ pc[c] = "word"
  /\ word' = [word EXCEPT ![ring_pnt_2] =
                EntryWord(ring_loop_2, masks[c].missing, masks[c].eevent, skb[c].id)]
  /\ pc' = [pc EXCEPT ![c] = "length"]
  /\ UNCHANGED <<mem, length, tail, env, skb, masks, eth_lock, positions, counters, switches,
                 ioctl, ghosts>>

PutLength(c) ==
  /\ pc[c] = "length"
  /\ length' = [length EXCEPT ![ring_pnt_2] = skb[c].len]
  /\ pc' = [pc EXCEPT ![c] = "advance"]
  /\ UNCHANGED <<mem, word, tail, env, skb, masks, eth_lock, positions, counters, switches,
                 ioctl, ghosts>>

Advance(c) ==
  LET pnt   == buf_pnt_2 + skb[c].len
      slot  == ring_pnt_2 + 1
      wraps == WrapsAt(masks[c].eevent, pnt, slot)
  IN
  /\ pc[c] = "advance"
  /\ buf_pnt_2'   = IF wraps THEN 0 ELSE pnt
  /\ ring_pnt_2'  = IF wraps THEN 0 ELSE slot
  /\ ring_loop_2' = IF wraps THEN (ring_loop_2 + 1) % LoopRange ELSE ring_loop_2
  /\ lap' = IF wraps THEN lap + 1 ELSE lap
  /\ written' = Append(written, EntryOf(skb[c], masks[c], buf_pnt_2, ring_pnt_2, ring_loop_2))
  /\ pc' = [pc EXCEPT ![c] = "tail"]
  /\ UNCHANGED <<shm, env, skb, masks, eth_lock, counters, switches, ioctl>>

(* Publish the write offset and release the lock.                          *)
PutTail(c) ==
  /\ pc[c] = "tail"
  /\ tail' = buf_pnt_2
  /\ eth_lock' = None
  /\ skb' = [skb EXCEPT ![c] = NoPacket]
  /\ masks' = [masks EXCEPT ![c] = NoMasks]
  /\ pc' = [pc EXCEPT ![c] = "idle"]
  /\ UNCHANGED <<mem, word, length, env, positions, counters, switches, ioctl, ghosts>>

HookStep(c) ==
  \/ Lock(c) \/ CopyData(c) \/ Classify(c) \/ PutWord(c) \/ PutLength(c)
  \/ Advance(c) \/ PutTail(c)

-----------------------------------------------------------------------------
(* ioctl SCHAR_RESET: schar_reset_2, store by store and without eth_lock.  *)
ResetBuf ==
  /\ reset = "no" /\ resets < MaxResets
  /\ resets' = resets + 1
  /\ buf_pnt_2' = 0
  /\ reset' = "ring"
  /\ UNCHANGED <<shm, env, cpus, eth_lock, ring_pnt_2, ring_loop_2, counters, switches,
                 raised, ghosts>>

ResetRing ==
  /\ reset = "ring"
  /\ ring_pnt_2' = 0
  /\ reset' = "loop"
  /\ UNCHANGED <<shm, env, cpus, eth_lock, buf_pnt_2, ring_loop_2, counters, switches,
                 resets, raised, ghosts>>

ResetLoop ==
  /\ reset = "loop"
  /\ ring_loop_2' = 0
  /\ reset' = "proc"
  /\ UNCHANGED <<shm, env, cpus, eth_lock, buf_pnt_2, ring_pnt_2, counters, switches,
                 resets, raised, ghosts>>

ResetProc ==
  /\ reset = "proc"
  /\ proc_last_pmissing_2' = 0 /\ proc_rpackets_2' = 0 /\ proc_pmissing_2' = 0
  /\ reset' = "tail"
  /\ UNCHANGED <<shm, env, cpus, eth_lock, positions, switches, resets, raised, ghosts>>

(* Mutant of ResetTail: the published write offset is left alone.          *)
ResetTailLeft ==
  /\ reset = "tail"
  /\ reset' = "no"
  /\ UNCHANGED <<shm, env, cpus, eth_lock, positions, counters, switches, resets, raised, ghosts>>

ResetTail ==
  /\ reset = "tail"
  /\ tail' = 0
  /\ reset' = "no"
  /\ UNCHANGED <<mem, word, length, env, cpus, eth_lock, positions, counters, switches,
                 resets, raised, ghosts>>

ResetStep == ResetBuf \/ ResetRing \/ ResetLoop \/ ResetProc \/ ResetTail

-----------------------------------------------------------------------------
(* The ioctl's that are to switch a check on and off do without eth_lock   *)
(*   if(flag==0)flag=1; if(flag>0)flag=0;                                  *)
(* so a flag that is down comes up until the second store: the hook of     *)
(* another CPU may check its packet meanwhile.                             *)
RaisePmissing ==
  /\ ~ flag_pmissing_2
  /\ flag_pmissing_2' = TRUE
  /\ raised' = raised \cup {"pmissing"}
  /\ UNCHANGED <<shm, env, cpus, eth_lock, positions, counters, flag_eevent_2,
                 reset, resets, ghosts>>

LowerPmissing ==
  /\ flag_pmissing_2
  /\ flag_pmissing_2' = FALSE
  /\ raised' = raised \ {"pmissing"}
  /\ UNCHANGED <<shm, env, cpus, eth_lock, positions, counters, flag_eevent_2,
                 reset, resets, ghosts>>

RaiseEevent ==
  /\ ~ flag_eevent_2
  /\ flag_eevent_2' = TRUE
  /\ raised' = raised \cup {"eevent"}
  /\ UNCHANGED <<shm, env, cpus, eth_lock, positions, counters, flag_pmissing_2,
                 reset, resets, ghosts>>

LowerEevent ==
  /\ flag_eevent_2
  /\ flag_eevent_2' = FALSE
  /\ raised' = raised \ {"eevent"}
  /\ UNCHANGED <<shm, env, cpus, eth_lock, positions, counters, flag_pmissing_2,
                 reset, resets, ghosts>>

(* ioctl's SCHAR_PMISSING and SCHAR_EEVENT.                                *)
SwitchPmissing == RaisePmissing \/ LowerPmissing
SwitchEevent   == RaiseEevent \/ LowerEevent

Switch == MaySwitch /\ (SwitchPmissing \/ SwitchEevent)

-----------------------------------------------------------------------------
(* Stores of schar_reset_2 between the loads and the stores of one step of *)
(* the hook.  "falls" says which: those of buf_pnt_2, ring_pnt_2,          *)
(* ring_loop_2, the counters and the tail word, in this order.  A load     *)
(* finds the value or the 0, a store is cleared again or is not.           *)
ResetPlaces == <<"no", "ring", "loop", "proc", "tail", "no">>
ResetStores == <<"buf", "ring", "loop", "proc", "tail">>

Cleared(x, store, falls) == IF store \in falls THEN 0 ELSE x
Mixed(x, store, falls)   == {x, Cleared(x, store, falls)}
(* x := x + n                                                              *)
Added(x, n, store, falls) == IF store \in falls THEN {x + n, n, 0} ELSE {x + n}

ClearPositions(falls) ==
  /\ buf_pnt_2'   = Cleared(buf_pnt_2, "buf", falls)
  /\ ring_pnt_2'  = Cleared(ring_pnt_2, "ring", falls)
  /\ ring_loop_2' = Cleared(ring_loop_2, "loop", falls)

ClearCounters(falls) ==
  /\ proc_last_pmissing_2' = Cleared(proc_last_pmissing_2, "proc", falls)
  /\ proc_rpackets_2' = Cleared(proc_rpackets_2, "proc", falls)
  /\ proc_pmissing_2' = Cleared(proc_pmissing_2, "proc", falls)

ClearTail(falls) == tail' = Cleared(tail, "tail", falls)

(* buf_pnt_2 is loaded for every word: n units are copied to where it was, *)
(* the rest from as far behind its new value.                              *)
RacedCopy(c, falls) ==
  LET size == skb[c].len + Spill
  IN
  /\ pc[c] = "copy"
  /\ \E n \in 0 .. size :
       mem' = [u \in Units |->
                 IF \/ u \in buf_pnt_2 .. buf_pnt_2 + n - 1
                    \/ u \in Cleared(buf_pnt_2, "buf", falls) + n
                           .. Cleared(buf_pnt_2, "buf", falls) + size - 1
                 THEN skb[c].id ELSE mem[u]]
  /\ proc_rpackets_2' \in Added(proc_rpackets_2, 1, "proc", falls)
  /\ proc_last_pmissing_2' = Cleared(proc_last_pmissing_2, "proc", falls)
  /\ proc_pmissing_2' = Cleared(proc_pmissing_2, "proc", falls)
  /\ ClearPositions(falls) /\ ClearTail(falls)
  /\ pc' = [pc EXCEPT ![c] = "classify"]
  /\ UNCHANGED <<word, length, skb, masks, eth_lock, ghosts>>

RacedClassify(c, falls) ==
  LET packet_count == skb[c].id % CtrMod
  IN
  /\ pc[c] = "classify"
  /\ \E last \in Mixed(proc_last_pmissing_2, "proc", falls),
        slot \in Mixed(ring_pnt_2, "ring", falls),
        loop \in Mixed(ring_loop_2, "loop", falls) :
       LET missing == flag_pmissing_2 /\ Skips(packet_count, last, slot, loop)
       IN  /\ masks' = [masks EXCEPT ![c] = [ missing |-> missing, eevent |-> EndsEvent(skb[c]),
                                              checked |-> flag_pmissing_2 ]]
           /\ proc_pmissing_2' \in
                IF missing THEN Added(proc_pmissing_2, 1, "proc", falls)
                           ELSE {Cleared(proc_pmissing_2, "proc", falls)}
  /\ proc_last_pmissing_2' \in
       IF flag_pmissing_2 THEN Mixed(packet_count, "proc", falls)
                          ELSE {Cleared(proc_last_pmissing_2, "proc", falls)}
  /\ proc_rpackets_2' = Cleared(proc_rpackets_2, "proc", falls)
  /\ ClearPositions(falls) /\ ClearTail(falls)
  /\ pc' = [pc EXCEPT ![c] = "word"]
  /\ UNCHANGED <<mem, word, length, skb, eth_lock, ghosts>>

RacedWord(c, falls) ==
  /\ pc[c] = "word"
  /\ \E slot \in Mixed(ring_pnt_2, "ring", falls), loop \in Mixed(ring_loop_2, "loop", falls) :
       word' = [word EXCEPT ![slot] =
                  EntryWord(loop, masks[c].missing, masks[c].eevent, skb[c].id)]
  /\ ClearPositions(falls) /\ ClearCounters(falls) /\ ClearTail(falls)
  /\ pc' = [pc EXCEPT ![c] = "length"]
  /\ UNCHANGED <<mem, length, skb, masks, eth_lock, ghosts>>

(* The pointers go on from where they were or from 0, and may be cleared   *)
(* before or after they are compared with the ends of the areas.           *)
RacedAdvance(c, falls) ==
  /\ pc[c] = "advance"
  /\ \E pnt \in Added(buf_pnt_2, skb[c].len, "buf", falls),
        slot \in Added(ring_pnt_2, 1, "ring", falls) :
       IF WrapsAt(masks[c].eevent, pnt, slot)
       THEN /\ buf_pnt_2' = 0 /\ ring_pnt_2' = 0
            /\ \E loop \in Added(ring_loop_2, 1, "loop", falls) : ring_loop_2' = loop % LoopRange
            /\ lap' = lap + 1
       ELSE /\ buf_pnt_2'  \in Mixed(pnt, "buf", falls)
            /\ ring_pnt_2' \in Mixed(slot, "ring", falls)
            /\ ring_loop_2' = Cleared(ring_loop_2, "loop", falls)
            /\ lap' = lap
  /\ written' = Append(written, EntryOf(skb[c], masks[c], buf_pnt_2, ring_pnt_2, ring_loop_2))
  /\ ClearCounters(falls) /\ ClearTail(falls)
  /\ pc' = [pc EXCEPT ![c] = "tail"]
  /\ UNCHANGED <<mem, word, length, skb, masks, eth_lock>>

(* The tail word may keep what the reset has cleared elsewhere.            *)
RacedTail(c, falls) ==
  /\ pc[c] = "tail"
  /\ \E pnt \in Mixed(buf_pnt_2, "buf", falls) : tail' \in Mixed(pnt, "tail", falls)
  /\ ClearPositions(falls) /\ ClearCounters(falls)
  /\ eth_lock' = None
  /\ skb' = [skb EXCEPT ![c] = NoPacket]
  /\ masks' = [masks EXCEPT ![c] = NoMasks]
  /\ pc' = [pc EXCEPT ![c] = "idle"]
  /\ UNCHANGED <<mem, word, length, ghosts>>

(* The ioctl goes on, or begins, during a step of the hook.                *)
RacedStep(c) ==
  \E from \in 1 .. 5, to \in 2 .. 6 :
    LET falls == {ResetStores[k] : k \in from .. to - 1}
    IN  /\ from < to
        /\ reset = ResetPlaces[from]
        /\ reset' = ResetPlaces[to]
        /\ IF from = 1 THEN resets < MaxResets /\ resets' = resets + 1
                       ELSE resets' = resets
        /\ \/ RacedCopy(c, falls) \/ RacedClassify(c, falls) \/ RacedWord(c, falls)
           \/ RacedAdvance(c, falls) \/ RacedTail(c, falls)
        /\ UNCHANGED <<env, switches, raised>>

-----------------------------------------------------------------------------
(* The driver on its own, whatever the readers do.                         *)
DriverNext ==
  \/ Environment
  \/ \E c \in CPUs : HookStep(c) \/ RacedStep(c)
  \/ ResetStep
  \/ Switch

DriverSpec == HookInit /\ [][DriverNext]_hookVars

-----------------------------------------------------------------------------
(* Packets the driver must not have touched since: those of its own loop,  *)
(* and those of the loop before that lie ahead of it by more than the      *)
(* largest packet.                                                         *)
Survivors ==
  {k \in DOMAIN written :
     \/ written[k].lap = lap
     \/ /\ written[k].lap = lap - 1
        /\ written[k].slot > ring_pnt_2
        /\ written[k].off >= buf_pnt_2 + MaxPacket}

(* Packet k's data and entry are in memory where the driver put them.      *)
Holds(k) ==
  LET p == written[k]
  IN  /\ word[p.slot] = EntryWord(p.loop, p.missing, p.eevent, p.id)
      /\ length[p.slot] = p.len
      /\ \A u \in p.off .. p.off + p.len - 1 : mem[u] = p.id

(* As long as nobody resets the driver, an entry and the data it describes *)
(* are those of one packet whichever CPUs the packets came in on, and stay *)
(* so until the write position comes round again (netif_rx_hook_2 under    *)
(* eth_lock).                                                              *)
EntriesDescribeData == resets = 0 => \A k \in Survivors : Holds(k)

(* Packet j (0: none) is the last one before k whose counter was looked at.*)
LastChecked(j, k) ==
  /\ j < k
  /\ j = 0 \/ written[j].checked
  /\ \A i \in j + 1 .. k - 1 : ~ written[i].checked

(* A packet is flagged exactly when the check was on as it came by and it  *)
(* does not follow the packet that was checked before it (be that because  *)
(* the network lost packets, because CPUs overtook each other, or because  *)
(* the check was off meanwhile: an ioctl that finds it off brings it up    *)
(* for a moment), except that a gap of a multiple of 2^16 packets goes     *)
(* unseen; the counter's own wrap is no gap.  The packet at the start of   *)
(* loop 0 is exempt: that is the very first one, and, as the loop count    *)
(* has 16 bits, one in every 2^16 loops (the packet counter check).        *)
GapsAreFlagged ==
  resets = 0 => \A k \in DOMAIN written : \A j \in 0 .. k - 1 :
    LET p    == written[k]
        last == IF j = 0 THEN 0 ELSE written[j].id
    IN  LastChecked(j, k) =>
          (p.missing <=> /\ p.checked
                         /\ (p.id - last) % CtrMod # 1
                         /\ p.slot # 0 \/ p.loop # 0)
=============================================================================
