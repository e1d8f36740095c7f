------------------------------ MODULE MCVmeScript ------------------------------
(* VmeScript for TLC: the scripts.                                         *)
EXTENDS ScriptMeaning

CONSTANTS cfeb1, cfeb2

L(word, number) == [word |-> word, number |-> number, alone |-> FALSE]
Alone(word) == [word |-> word, number |-> NoNumber, alone |-> TRUE]

MCCfebs == <<cfeb1, cfeb2>>

(* Loops, however they are nested, left open or closed too often, with an  *)
(* end of run anywhere.                                                    *)
LoopLines == {L("BL", 2), L("EL", NoNumber), L("W", NoNumber), L("0", 0)}

(* What takes the slot, and what sets it.                                  *)
SlotLines == {L("R", NoNumber), L("RS", 2), L("WS", NoNumber), L("WS", 2),
              L("SET_SLOT", 1), L("SET_SLOT", 2), L("SET_SLOT", NoNumber)}

(* All commands, inside a loop.                                            *)
OtherLines == {L("1", NoNumber), L("1", 0), L("R", 0), L("W", 0), L("RL1A", 0),
               L("RL1AM", 0), L("COMP", 1), L("COMP", 2), L("COMP", NoNumber),
               L("SET_PIPE", 0), L("BEGIN_DAQ", NoNumber), L("END_DAQ", NoNumber),
               L("RESET_ETH", NoNumber), L("WRITE_ETH", NoNumber), L("SLEEP", 0),
               L("#", NoNumber), Alone("0"), Alone("EL"), Alone("R"),
               L("BL", 0), L("BL", NoNumber), L("BL", -1), L("BL", 1)}

Nested == <<L("BL", 2), L("R", 0), L("BL", 3), L("W", 0), L("BL", 2), L("RS", 2),
            L("EL", NoNumber), L("EL", NoNumber), L("RL1A", 0), L("BL", 0), L("W", 0),
            L("EL", NoNumber), L("EL", NoNumber), L("R", 0)>>

MCScripts ==
  BoundedSeq(LoopLines, 5)
    \cup BoundedSeq(SlotLines, 3)
    \cup {<<L("BL", 2)>> \o s \o <<L("EL", NoNumber)>> : s \in BoundedSeq(OtherLines, 2)}
    \cup {Nested}
================================================================================
