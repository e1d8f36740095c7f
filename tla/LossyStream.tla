----------------------------- MODULE LossyStream -----------------------------
(***************************************************************************)
(* What the shared-memory DAQ path promises a reader that keeps up: the    *)
(* packets come in the order they were written, none comes twice, and if   *)
(* some are passed over then the reader was told before the next one came. *)
(***************************************************************************)
EXTENDS Naturals, Sequences

CONSTANT Ids

VARIABLES
  sent,   \* the packets written
  pos,    \* how far in sent the reader is
  told    \* the reader knows that it may have missed some

vars == <<sent, pos, told>>

Init == sent = <<>> /\ pos = 0 /\ told = FALSE

Send ==
  /\ \E i \in Ids : sent' = Append(sent, i)
  /\ UNCHANGED <<pos, told>>

Tell ==
  /\ told' = TRUE
  /\ UNCHANGED <<sent, pos>>

Take ==
  /\ \E p \in pos + 1 .. Len(sent) :
       /\ p = pos + 1 \/ told
       /\ pos' = p
  /\ told' = FALSE
  /\ UNCHANGED sent

Next == Send \/ Tell \/ Take

Spec == Init /\ [][Next]_vars
=============================================================================
