------------------------------ MODULE MCEthHook -------------------------------
(* EthHook for TLC: the CPUs are interchangeable.                          *)
EXTENDS EthHook, TLC

Symmetry == Permutations(CPUs)

(* Bound: nobody switches a check and resets the driver in one behaviour. *)
NeverSwitched == flag_pmissing_2 /\ flag_eevent_2 /\ raised = {}
Bounded       == resets = 0 \/ NeverSwitched
===============================================================================
