------------------------------- MODULE SpyDaq --------------------------------
(***************************************************************************)
(* The DAQ path of one DDU: the driver's hook (EthHook) and one reader in  *)
(* user space (SpyReader) that communicate through the shared memory       *)
(* alone, and never wait for each other.                                   *)
(***************************************************************************)
EXTENDS EthHook, SpyReader, FiniteSets, Functions, FiniteSetsExt

CONSTANTS
  Pace,        \* how the hook and the reader interleave, see PacedLock
  Resetter,    \* who issues SCHAR_RESET: "self" (Spy::reset) or "other"
  Quiet        \* whether resets only come while no packet is being handled

ASSUME DaqAssumption ==
  /\ Pace \in {"samelap", "ahead", "free"}
  /\ Resetter \in {"self", "other"}
  /\ Quiet \in BOOLEAN

VARIABLES
  raced,       \* ghost: the driver moved since the reader loaded the tail word
  overlapped   \* ghost: a reset has overlapped the handling of a packet

vars == <<hookVars, readerVars, raced, overlapped>>

TypeOK == HookTypeOK /\ ReaderTypeOK /\ raced \in BOOLEAN /\ overlapped \in BOOLEAN

Init == HookInit /\ ReaderInit /\ raced = FALSE /\ overlapped = FALSE

-----------------------------------------------------------------------------
(* Nothing in the code makes the hook wait for the reader: how the two     *)
(* interleave is an assumption about their speeds, made where a packet     *)
(* gets the lock.                                                          *)

PacketEnd(c) == buf_pnt_2 + skb[c].len

WillWrap(c) == WrapsAt(EndsEvent(skb[c]), PacketEnd(c), ring_pnt_2 + 1)

(* The reader is in the hook's loop, and has left the first packet of that *)
(* loop behind before the loop ends.                                       *)
SameLap(c) ==
  /\ ring_loop_2 = ring_loop
  /\ WillWrap(c) => ring_pnt # 0

(* The hook may be one loop ahead, but overwrites nothing unread.  What    *)
(* has been read it may overwrite, the event the caller holds included.    *)
WithinOneLap(c) ==
  \/ ring_loop_2 = ring_loop
  \/ /\ ring_loop_2 = ring_loop + 1
     /\ ring_pnt_2 < ring_pnt
     /\ PacketEnd(c) + Spill <= buf_pnt
     /\ ~ WillWrap(c)

(* The hook of CPU c gets the lock.  With Pace "free" anything may happen. *)
PacedLock(c) ==
  /\ Lock(c)
  /\ Pace = "samelap" => SameLap(c)
  /\ Pace = "ahead" => WithinOneLap(c)
  /\ Quiet => reset = "no"

Hook(c) ==
  /\ \/ PacedLock(c) \/ CopyData(c) \/ Classify(c) \/ PutWord(c)
     \/ PutLength(c) \/ Advance(c) \/ PutTail(c)
  /\ raced' = TRUE
  /\ overlapped' = (overlapped \/ reset # "no")
  /\ UNCHANGED readerVars

Arrivals == Environment /\ UNCHANGED <<readerVars, raced, overlapped>>

Read ==
  /\ ReadStep
  /\ raced' = IF rpc = "tail" THEN eth_lock # None ELSE raced
  /\ UNCHANGED <<hookVars, overlapped>>

(* The caller has no ioctl under way.                                      *)
Reenter == raised = {} /\ Call /\ UNCHANGED <<hookVars, raced, overlapped>>

(* SCHAR_RESET is issued by this reader (Spy::reset) or another process.   *)
IssueReset ==
  \/ Resetter = "self" /\ raised = {} /\ BeginReset
  \/ Resetter = "other" /\ UNCHANGED readerVars

StartReset ==
  /\ ResetBuf
  /\ raced' = TRUE
  /\ overlapped' = (overlapped \/ eth_lock # None)
  /\ Quiet => eth_lock = None
  /\ IssueReset

Reset ==
  \/ /\ ResetRing \/ ResetLoop \/ ResetProc \/ ResetTail
     /\ raced' = TRUE
     /\ UNCHANGED <<readerVars, overlapped>>
  \/ reset = "no" /\ EndReset /\ UNCHANGED <<hookVars, raced, overlapped>>

(* Stores of the reset fall into a step of the hook.                       *)
RacedHook(c) ==
  /\ ~ Quiet
  /\ RacedStep(c)
  /\ raced' = TRUE
  /\ overlapped' = TRUE
  /\ IF reset = "no" THEN IssueReset ELSE UNCHANGED readerVars

(* Spy::disableBlock: SCHAR_BLOCKOFF has the number of SCHAR_PMISSING.     *)
(* (SCHAR_BLOCKON and SCHAR_END have those of ioctl's that change no state.) *)
DisableBlock ==
  /\ MaySwitch
  /\ rpc = "returned"
  /\ SwitchPmissing
  /\ UNCHANGED <<readerVars, raced, overlapped>>

Next ==
  \/ Arrivals
  \/ DisableBlock
  \/ \E c \in CPUs : Hook(c) \/ RacedHook(c)
  \/ Read
  \/ Reenter
  \/ StartReset
  \/ Reset

Spec == Init /\ [][Next]_vars

(* The reader's loop keeps running, and its caller calls readDDU again,    *)
(* however often it calls disableBlock between two calls; the hook and the *)
(* ioctl's run to their ends; nothing makes the DDU send.                  *)
Fairness ==
  /\ WF_vars(Read)
  /\ SF_vars(Reenter)
  /\ WF_vars(raised # {} /\ DisableBlock)
  /\ WF_vars(Reset)
  /\ \A c \in CPUs : WF_vars(Hook(c))

FairSpec == Spec /\ Fairness

-----------------------------------------------------------------------------
PacketOf(id) == CHOOSE p \in Range(written) : p.id = id

Total(sizes) ==
  LET sum[k \in 0 .. Len(sizes)] == IF k = 0 THEN 0 ELSE sum[k - 1] + sizes[k]
  IN  sum[Len(sizes)]

EventLength(s) == Total([k \in DOMAIN s |-> PacketOf(s[k]).len])

(* The packets with these ids are one event of the DDU, all of it.         *)
IsWholeEvent(s) ==
  /\ s # <<>>
  /\ \A k \in DOMAIN s : s[k] = s[1] + k - 1
  /\ PacketOf(s[1]).first = s[1]
  /\ PacketOf(s[Len(s)]).ends

(* The packets are consecutive ones of one event, up to its last one.      *)
IsEndOfEvent(s) ==
  /\ \A k \in DOMAIN s : s[k] = s[1] + k - 1 /\ PacketOf(s[k]).first = PacketOf(s[1]).first
  /\ PacketOf(s[Len(s)]).ends

(* No flag calls defective what the caller got.                            *)
GotCleanEvent == rpc = "returned" /\ theErrorFlag = {}

(* The driver does not look for missing packets before the first packet    *)
(* after a reset.                                                          *)
Unchecked(id) == PacketOf(id).slot = 0 /\ PacketOf(id).loop = 0

(* A reader that stays in the driver's loop reads the packets as they were *)
(* written: each once, in order, none left out (readDDU moves and wraps    *)
(* exactly as netif_rx_hook_2 does).                                       *)
InOrder ==
  /\ Len(taken) <= Len(written)
  /\ \A k \in DOMAIN taken : taken[k] = written[k].id

(* And it is never told that it was overtaken.                             *)
NoFalseAlarm == theErrorFlag \cap {"LoopOverwrite", "BufferOverwrite"} = {}

(* What is returned without any flag is never a mixture of two events, and *)
(* lacks nothing behind its first packet: the driver's flag for missing    *)
(* packets and the reader's memory of it cover every way to lose a part of *)
(* an event.  It is the whole event if the call began at the start of one. *)
(* A call that follows a time-out inside an event, or a reset, begins with *)
(* the rest of one: that rest is returned without a flag as well, and as   *)
(* no data (len 0) if packets before it were missing.                      *)
CleanEventsAreWhole ==
  GotCleanEvent /\ ~ Unchecked(ids[1]) =>
    /\ IsEndOfEvent(ids)
    /\ len \in {0, EventLength(ids)}
    /\ fresh => IsWholeEvent(ids) /\ len = EventLength(ids)

(* A call hands over data only if nothing of the event is missing up to    *)
(* the end of that data, whether it returned at the event's end or timed   *)
(* out inside it, and even if the loss was seen by an earlier call         *)
(* (insideEventWithMissingPackets).                                        *)
DamagedEventsAreWithheld ==
  rpc = "returned" /\ len > 0 /\ ids # <<>> =>
    LET event == PacketOf(ids[1]).first
        last  == ids[Len(ids)]
    IN  event # written[1].first =>
          /\ event .. last \subseteq Range(taken)
          /\ PacketOf(last).first = event

(* A whole event is kept, however damaged the events before it were, if no *)
(* packet is missing between it and them.  Otherwise it is thrown away     *)
(* with a flag: whether the packets missing in front of it were its own    *)
(* or, as here, those of the event before, the reader cannot tell.         *)
GoodEventsAreKept ==
  LET before == Len(taken) - Len(ids)
  IN  rpc = "returned" /\ fresh /\ before > 0 /\ IsWholeEvent(ids) =>
        IF taken[before] = ids[1] - 1
        THEN theErrorFlag \subseteq {"Oversized"} /\ len = EventLength(ids)
        ELSE "PacketsMissing" \in theErrorFlag /\ len = 0

(* Until the driver comes round to them, the packets of a clean event are  *)
(* in the buffer the caller was given (a pointer into the shared memory),  *)
(* in order, and nothing else is: the event does not run over the wrap.    *)
(* Nothing keeps the driver from coming round while the caller is still at *)
(* work on it.                                                             *)
DataIntact ==
  LET region == buf_data .. buf_data + len - 1
  IN  /\ GotCleanEvent /\ len > 0
      /\ {k \in DOMAIN written : written[k].id \in Range(ids)} \subseteq Survivors
      => /\ \A u, v \in region : u <= v => mem[u] <= mem[v]
         /\ \A k \in DOMAIN ids :
              Cardinality({u \in region : mem[u] = ids[k]}) = PacketOf(ids[k]).len

(* Clean or not, the buffer lies in the data area.                         *)
BufferInBounds == rpc = "returned" => buf_data + len <= DataSize

(* If the reader keeps up then, once the DDU has fallen silent, every      *)
(* packet written has been read.                                           *)
Delivered == <>[](Len(taken) = Len(written))

-----------------------------------------------------------------------------
(* The stream of packets as the caller experiences it: "told" is that the  *)
(* last thing it heard was an overwrite (or it did the reset itself).      *)
Position ==
  IF taken = <<>> THEN 0
  ELSE Max({0} \cup {k \in DOMAIN written : written[k].id = taken[Len(taken)]})

Stream == INSTANCE LossyStream WITH
  Ids  <- 1 .. MaxSent,
  sent <- [k \in DOMAIN written |-> written[k].id],
  pos  <- Position,
  told <- gap

(* A reader that may fall behind, but not by a whole loop, gets no packet  *)
(* twice or out of order, and misses none without an overwrite flag.       *)
StreamSpec == Stream!Spec

-----------------------------------------------------------------------------
(* The packet at the read position has been overwritten, data or entry.    *)
Lapped ==
  \E k \in DOMAIN written :
    /\ written[k].loop = ring_loop /\ written[k].slot = ring_pnt
    /\ ~ Holds(k)

(* If the driver did not move while the reader looked, a packet is only    *)
(* taken if it was not overwritten: the two comparisons of loop counts     *)
(* (readDDU) see every lap, except that a driver that has just looped back *)
(* has not yet written the entry that tells.                               *)
TakesIntact ==
  [][taken' # taken /\ ~ raced /\ resets = 0 /\ ring_pnt_2 # 0 => ~ Lapped]_vars

(* And an overwrite is then only reported when the packet to be read was   *)
(* overwritten.                                                            *)
NoAlarmWithoutRace == [][gap' /\ ~ gap /\ ~ raced /\ resets = 0 => Lapped]_vars

(* However far it was overtaken, and whatever it made of what it read, a   *)
(* reader comes to rest at the write position once the DDU falls silent:   *)
(* neither overwrites nor a reset between two packets leave it chasing     *)
(* stale entries for ever.                                                 *)
Settles == <>[](overlapped \/ buf_pnt = tail)

(* An overwrite is only reported when the packet to be read was            *)
(* overwritten ("data must have been overwritten", Spy::readDDU).          *)
AlarmsAreTrue == [][gap' /\ ~ gap => Lapped]_vars
=============================================================================
