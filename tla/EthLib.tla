------------------------------- MODULE EthLib --------------------------------
(***************************************************************************)
(* The reader the test program itself uses: the WRITE_ETH command          *)
(* (write_eth_raw, Buttons.cc) opens the shared memory anew, calls         *)
(* eth_readmm (eth_lib.cc) until a call returns nothing, and writes what   *)
(* each call returned to a file.  Unlike Spy::readDDU a call reads one     *)
(* packet, never waits, copies the bytes, and takes every packet for a     *)
(* whole event.  (The file's headers, and that the last 6 bytes of every   *)
(* packet are replaced by a fixed trailer, are left out.)                  *)
(***************************************************************************)
EXTENDS EthRing

CONSTANT
  Garbage      \* whether the uninitialised end_event may be other than 0

ASSUME LibAssumption == Garbage \in BOOLEAN

VARIABLES
  rpc,                           \* where write_eth_raw is
  buf_pnt, ring_pnt, ring_loop,  \* the position in the EthBuf
  buf_pnt_kern, entry, entryLen, \* as loaded
  buf_data,                      \* the packet to copy
  rbuf,                          \* the bytes write_eth_raw writes
  file                           \* what this WRITE_ETH wrote: for every call the packet
                                 \* (ghost), the bytes returned (ghost) and those written

position == <<buf_pnt, ring_pnt, ring_loop>>
loaded   == <<buf_pnt_kern, entry, entryLen>>
output   == <<rbuf, file>>
libVars  == <<rpc, position, loaded, buf_data, output>>

LibTypeOK ==
  /\ rpc \in {"closed", "tail", "word", "length", "loop", "copy"}
  /\ buf_pnt \in 0 .. BufEnd
  /\ ring_pnt \in Slots
  /\ ring_loop \in 0 .. LoopRange - 1
  /\ buf_pnt_kern \in 0 .. BufEnd
  /\ entry \in Words
  /\ entryLen \in 0 .. MaxPacket
  /\ buf_data \in 0 .. BufEnd
  /\ rbuf \in Seq(Nat)
  /\ file \in Seq([id : Nat, got : Seq(Nat), bytes : Seq(Nat)])

LibInit ==
  /\ rpc = "closed"
  /\ buf_pnt = 0 /\ ring_pnt = 0 /\ ring_loop = 0
  /\ buf_pnt_kern = 0 /\ entry = EntryWord(0, FALSE, FALSE, 0) /\ entryLen = 0
  /\ buf_data = 0
  /\ rbuf = <<>> /\ file = <<>>

-----------------------------------------------------------------------------
(* WRITE_ETH: open the file and the device; eth_open starts at loop 0.     *)
Open ==
  /\ rpc = "closed"
  /\ rpc' = "tail"
  /\ buf_pnt' = 0 /\ ring_pnt' = 0 /\ ring_loop' = 0
  /\ rbuf' = <<>> /\ file' = <<>>
  /\ UNCHANGED <<loaded, buf_data>>

(* The device cannot be opened, but write_eth_raw goes on with an EthBuf   *)
(* that nobody has set: its first load through it ends the program.  (That *)
(* it finds readable memory there, and reads on, is left out.)             *)
OpenFails ==
  /\ rpc = "closed"
  /\ rbuf' = <<>> /\ file' = <<>>
  /\ UNCHANGED <<rpc, position, loaded, buf_data>>

(* The call returns no bytes, which ends write_eth_raw's loop: end_event,  *)
(* read before it is ever set, is not 0,                                   *)
SkipRead ==
  /\ rpc = "tail"
  /\ Garbage
  /\ rpc' = "closed"
  /\ buf_pnt_kern' = tail
  /\ UNCHANGED <<position, entry, entryLen, buf_data, output>>

(* Mutant of NoData: it leaves a packet of one unit.                       *)
NoDataYet ==
  /\ rpc = "tail"
  /\ buf_pnt + 2 > tail
  /\ rpc' = "closed"
  /\ buf_pnt_kern' = tail
  /\ UNCHANGED <<position, entry, entryLen, buf_data, output>>

(* or there is no new data: the "retry in the next loop" is the loop's     *)
(* end.                                                                    *)
NoData ==
  /\ rpc = "tail"
  /\ buf_pnt = tail
  /\ rpc' = "closed"
  /\ buf_pnt_kern' = tail
  /\ UNCHANGED <<position, entry, entryLen, buf_data, output>>

SeeData ==
  /\ rpc = "tail"
  /\ buf_pnt # tail
  /\ buf_pnt_kern' = tail
  /\ rpc' = "word"
  /\ UNCHANGED <<position, entry, entryLen, buf_data, output>>

ReadWord ==
  /\ rpc = "word"
  /\ entry' = word[ring_pnt]
  /\ rpc' = "length"
  /\ UNCHANGED <<position, buf_pnt_kern, entryLen, buf_data, output>>

ReadLength ==
  /\ rpc = "length"
  /\ entryLen' = length[ring_pnt]
  /\ rpc' = "loop"
  /\ UNCHANGED <<position, buf_pnt_kern, entry, buf_data, output>>

Overtaken(ring_loop_kern2) ==
  \/ ring_loop_kern2 = ring_loop + 1 /\ buf_pnt <= buf_pnt_kern
  \/ ring_loop_kern2 > ring_loop + 1

(* Mutant of Overwritten: the call tries again, at the old position.       *)
OverwrittenRetries ==
  /\ rpc = "loop"
  /\ Overtaken(word[0].loop) \/ entry.loop # ring_loop
  /\ rpc' = "tail"
  /\ UNCHANGED <<position, loaded, buf_data, output>>

(* A buffer or a loop overwrite: no data, so this was the last call.       *)
Overwritten ==
  /\ rpc = "loop"
  /\ Overtaken(word[0].loop) \/ entry.loop # ring_loop
  /\ buf_pnt' = 0 /\ ring_pnt' = 0 /\ ring_loop' = word[0].loop
  /\ rpc' = "closed"
  /\ UNCHANGED <<loaded, buf_data, output>>

(* end_event=0x4000, whatever the entry says.                              *)
TakesForEnd == TRUE

Consume ==
  LET pnt   == buf_pnt + entryLen
      slot  == ring_pnt + 1
      wraps == WrapsAt(TakesForEnd, pnt, slot)
  IN
  /\ rpc = "loop"
  /\ ~ Overtaken(word[0].loop)
  /\ entry.loop = ring_loop
  /\ buf_data'  = buf_pnt
  /\ buf_pnt'   = IF wraps THEN 0 ELSE pnt
  /\ ring_pnt'  = IF wraps THEN 0 ELSE slot
  /\ ring_loop' = IF wraps THEN (ring_loop + 1) % LoopRange ELSE ring_loop
  /\ rpc' = "copy"
  /\ UNCHANGED <<loaded, output>>

(* Copy the bytes out and return.  write_eth_raw keeps those of its first  *)
(* call in rbuf, and after every call writes as many bytes of rbuf as that *)
(* call returned (0: a byte behind rbuf's end).  A length of 0 looks like  *)
(* the end of the data.                                                    *)
Copy ==
  LET got == [u \in 1 .. entryLen |-> mem[buf_data + u - 1]]
  IN
  /\ rpc = "copy"
  /\ IF entryLen = 0
     THEN rpc' = "closed" /\ UNCHANGED <<rbuf, file>>
     ELSE /\ rpc' = "tail"
          /\ rbuf' = IF file = <<>> THEN got ELSE rbuf
          /\ file' = Append(file,
               [ id    |-> entry.id,
                 got   |-> got,
                 bytes |-> [u \in 1 .. entryLen |-> IF u <= Len(rbuf') THEN rbuf'[u] ELSE 0] ])
  /\ UNCHANGED <<position, loaded, buf_data>>

LibStep ==
  \/ SkipRead \/ NoData \/ SeeData \/ ReadWord \/ ReadLength
  \/ Overwritten \/ Consume \/ Copy
=============================================================================
