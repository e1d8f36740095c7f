------------------------------- MODULE EthRing -------------------------------
(***************************************************************************)
(* The memory the kernel driver (eth_hook_2.c) shares, by mmap, with the   *)
(* readers of the DAQ stream (Spy.cc, eth_lib.cc):                         *)
(*                                                                         *)
(*    data area (packets)  |  packet info ring (entries)  |  tail word     *)
(*                                                                         *)
(* Nothing in it is locked against the readers.  Every store of the driver *)
(* and every load of a reader is therefore a step of its own in the        *)
(* modules that extend this one.                                           *)
(*                                                                         *)
(* A unit of the data area stands for a run of bytes; lengths and offsets  *)
(* are counted in units.                                                   *)
(***************************************************************************)
EXTENDS Integers, Sequences

CONSTANTS
  DataSize,    \* (BIGPHYS_PAGES_2-RING_PAGES_2)*PAGE_SIZE
  MaxPacket,   \* MAXPACKET_2
  MaxEvent,    \* MAXEVENT_2
  TailPos,     \* TAILPOS
  RingSize,    \* ring_size_2: the entries of the packet info ring
  LoopMod      \* 2^14: an entry keeps the loop count in its 14 lower bits

ASSUME RingAssumption ==
  /\ DataSize \in Nat /\ MaxPacket \in Nat \ {0} /\ MaxEvent \in Nat
  /\ TailPos \in Nat  /\ RingSize \in Nat \ {0}  /\ LoopMod \in Nat \ {0}
  /\ MaxPacket <= DataSize

VARIABLES
  mem,         \* ghost: the id of the packet last copied over each data unit
  word,        \* first half of each ring entry: loop count and flags
  length,      \* second half of each ring entry: the packet's length
  tail         \* the tail word: the driver's published write offset

shm == <<mem, word, length, tail>>

(* 16-bit counters, scaled with LoopMod: the loop count and the two flag   *)
(* bits that share the entry's word with it.                               *)
LoopRange == 4 * LoopMod

BufEnd  == DataSize - MaxPacket
BufEend == DataSize - TailPos - MaxEvent

(* Mutants of WrapsAt: an area that is let run over, an event that is let  *)
(* run into the end of the area.                                           *)
WrapsUnlessFull(eevent, pnt, slot) == (eevent /\ pnt > BufEend) \/ slot >= RingSize
WrapsAnywhere(eevent, pnt, slot)   == pnt > BufEnd \/ slot >= RingSize

(* Where writer and reader go back to the start of the data area.          *)
WrapsAt(eevent, pnt, slot) ==
  \/ eevent /\ pnt > BufEend
  \/ pnt > BufEnd
  \/ slot >= RingSize

(* ring_loop_2|(missing_mask|eevent_mask): the loop count is not masked to *)
(* 14 bits before it is ORed with the flags, so its two upper bits         *)
(* are indistinguishable from them.  "id" is a ghost.                      *)
EntryWord(loop, missing, eevent, id) ==
  [ loop    |-> loop % LoopMod,
    eevent  |-> eevent  \/ (loop \div LoopMod) % 2 = 1,
    missing |-> missing \/ (loop \div (2 * LoopMod)) % 2 = 1,
    id      |-> id ]

Units == 0 .. DataSize - 1
Slots == 0 .. RingSize - 1

Words == [ loop : 0 .. LoopMod - 1, eevent : BOOLEAN, missing : BOOLEAN, id : Nat ]

ShmTypeOK ==
  /\ mem    \in [Units -> Nat]
  /\ word   \in [Slots -> Words]
  /\ length \in [Slots -> 0 .. MaxPacket]
  /\ tail   \in 0 .. BufEnd

(* rvnail clears the whole region when the module is loaded.               *)
ShmInit ==
  /\ mem    = [u \in Units |-> 0]
  /\ word   = [s \in Slots |-> EntryWord(0, FALSE, FALSE, 0)]
  /\ length = [s \in Slots |-> 0]
  /\ tail   = 0
=============================================================================
