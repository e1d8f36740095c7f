------------------------------- MODULE MCEthDaq -------------------------------
(* EthDaq for TLC: one CPU.                                                *)
EXTENDS EthDaq, TLC
===============================================================================
