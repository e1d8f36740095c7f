----------------------------- MODULE MCDaqControl -----------------------------
(* DaqControl for TLC.                                                     *)
EXTENDS DaqControl
=============================================================================
