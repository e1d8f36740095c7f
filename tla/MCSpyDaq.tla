------------------------------- MODULE MCSpyDaq -------------------------------
(* SpyDaq for TLC.  The .cfg files give the constants: one CPU, lengths in *)
(* units that stand for a minimum-size packet or so.                       *)
EXTENDS SpyDaq, TLC

(* The run "free": packets, and packets taken, once a reset has overlapped *)
(* one; packets, and no reset, once disableBlock was called.  Packets      *)
(* taken need a bound as the reader may go round among stale entries for   *)
(* ever, when a hook has stored a write position from before the reset in  *)
(* the tail word.                                                          *)
FewPackets == 2
FewTaken   == 4
Bounded ==
  /\ overlapped => ddu.sent <= FewPackets /\ Len(taken) <= FewTaken
  /\ ~ flag_pmissing_2 => resets = 0 /\ ddu.sent <= FewPackets
===============================================================================
