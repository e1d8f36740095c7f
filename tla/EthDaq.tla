------------------------------- MODULE EthDaq --------------------------------
(***************************************************************************)
(* The script commands RESET_ETH and WRITE_ETH (Buttons.cc) over the       *)
(* driver: EthHook together with EthLib.  The commands run one after the   *)
(* other; the DDU sends at any time.                                       *)
(***************************************************************************)
EXTENDS EthHook, EthLib

vars == <<hookVars, libVars>>

TypeOK == HookTypeOK /\ LibTypeOK

Init == HookInit /\ LibInit

-----------------------------------------------------------------------------
Hook(c) ==
  /\ HookStep(c)
  /\ reset = "no"
  /\ UNCHANGED libVars

Arrivals == Environment /\ UNCHANGED libVars

(* WRITE_ETH *)
StartWriteEth == (Open \/ OpenFails) /\ reset = "no" /\ UNCHANGED hookVars

WriteEth == LibStep /\ UNCHANGED hookVars

(* RESET_ETH, issued while no packet is being handled.                     *)
ResetEth ==
  /\ rpc = "closed"
  /\ \/ ResetBuf /\ eth_lock = None
     \/ ResetRing \/ ResetLoop \/ ResetProc \/ ResetTail
  /\ UNCHANGED libVars

Next ==
  \/ Arrivals
  \/ \E c \in CPUs : Hook(c)
  \/ StartWriteEth
  \/ WriteEth
  \/ ResetEth

Spec == Init /\ [][Next]_vars

(* The command runs on, and so does a hook that was entered.               *)
FairSpec == Spec /\ WF_vars(WriteEth) /\ \A c \in CPUs : WF_vars(Hook(c))

-----------------------------------------------------------------------------
(* The packets since the last reset.                                       *)
Recent ==
  LET starts == {k \in DOMAIN written : written[k].loop = 0 /\ written[k].slot = 0}
      first  == IF starts = {} \/ (buf_pnt_2 = 0 /\ ring_pnt_2 = 0 /\ ring_loop_2 = 0)
                THEN Len(written) + 1
                ELSE CHOOSE k \in starts : \A j \in starts : j <= k
  IN  SubSeq(written, first, Len(written))

(* As long as less than a loop of data has come since the last RESET_ETH.  *)
InFirstLoop == ring_loop_2 = 0

(* What eth_readmm then returns to WRITE_ETH are the packets that came     *)
(* since the reset, in order and from the first one on, each with its own  *)
(* bytes: none of those that the ring still held from before it.           *)
ReadsTheData ==
  rpc # "closed" /\ InFirstLoop =>
    /\ Len(file) <= Len(Recent)
    /\ \A k \in DOMAIN file :
         /\ file[k].id = Recent[k].id
         /\ file[k].got = [u \in 1 .. Recent[k].len |-> Recent[k].id]

(* What it writes are these packets ("Written <n> events", WRITE_ETH).     *)
FileIsTheData == \A k \in DOMAIN file : file[k].bytes = file[k].got

(* When eth_readmm ends WRITE_ETH by finding no more data, none of these   *)
(* packets has been left out, at least if each is an event (eth_readmm     *)
(* takes it for one) and unless it read end_event as garbage (SkipRead).   *)
FileIsComplete ==
  [][ /\ rpc' = "closed"
      /\ NoData \/ Overwritten \/ Copy
      /\ InFirstLoop /\ \A k \in DOMAIN Recent : Recent[k].ends
      => \/ Len(file) = Len(Recent)
         \/ Len(file) = Len(Recent) - 1 /\ \E c \in CPUs : pc[c] = "tail"]_vars

(* Once the DDU falls silent, WRITE_ETH ends.                              *)
WriteEthEnds == (rpc # "closed") ~> (rpc = "closed")
=============================================================================
