------------------------------ MODULE VmeJtag ------------------------------
(***************************************************************************)
(* How the program reaches the FPGA of a DCFEB: every JTAG operation is a  *)
(* few VME commands 0x1Ycc to the ODMB, each of which shifts Y+1 bits into *)
(* the instruction (IR) or a data register (DR) of the boards selected. A  *)
(* header opens the scan, a tailer closes it, and a scan may be made of    *)
(* several commands. On an xDCFEB the FPGA is the last of several devices  *)
(* of a chain, so that instructions are longer and data is followed by the *)
(* bits of the other devices. The commands are those of VMEWrapper.cc and  *)
(* Buttons.cc; what the chain does with them is external.                  *)
(***************************************************************************)
EXTENDS Integers, Sequences

\* What is left of first after steps 1 .. n, one after the other.
AfterSteps(Op(_, _), first, n) ==
    LET after[i \in 0..n] == IF i = 0 THEN first ELSE Op(after[i - 1], i)
    IN after[n]

Kinds == {"DCFEB", "xDCFEB"}

\* Bits of all instruction registers of the chain, and of the other
\* devices, all in bypass, in a data scan.
IrLength(kind) == IF kind = "xDCFEB" THEN 62 ELSE 10
Others(kind) == IF kind = "xDCFEB" THEN 4 ELSE 0

Cmd(reg, bits, head, tail, word) ==
    [reg |-> reg, bits |-> bits, head |-> head, tail |-> tail, word |-> word]

\* 0x191C, or 0x1934 0x1F30 0x1F30 0x1F30 0x1338
SetInstruction(word, is_xdcfeb) ==
    IF ~is_xdcfeb
    THEN <<Cmd("IR", 10, TRUE, TRUE, word)>>
    ELSE <<Cmd("IR", 10, TRUE, FALSE, word)>>
         \o [i \in 1..3 |-> Cmd("IR", 16, FALSE, FALSE, "bypass")]
         \o <<Cmd("IR", 4, FALSE, TRUE, "bypass")>>

\* The tests of the DCFEBs: 0x1F04 and 0x1F08, or 0x1F04 0x1F00 0x1308; the
\* register is read after each half, the last read being that of the upper one.
ReadUserCode(is_xdcfeb) ==
    SetInstruction("UserCode", is_xdcfeb)
    \o <<Cmd("DR", 16, TRUE, FALSE, "zeros")>>
    \o (IF ~is_xdcfeb
        THEN <<Cmd("DR", 16, FALSE, TRUE, "zeros")>>
        ELSE <<Cmd("DR", 16, FALSE, FALSE, "zeros"),
               Cmd("DR", 4, FALSE, TRUE, "zeros")>>)

\* Mutant of JTAGShift: the scan is left to the next command to close.
UnclosedShift(IR, DR, nBits, is_xdcfeb) ==
    SetInstruction(IR, is_xdcfeb) \o <<Cmd("DR", nBits, TRUE, ~is_xdcfeb, DR)>>

\* JTAGShift: the hdr_tlr_code of its only callers is 0xC.
JTAGShift(IR, DR, nBits, is_xdcfeb) ==
    SetInstruction(IR, is_xdcfeb)
    \o (IF ~is_xdcfeb
        THEN <<Cmd("DR", nBits, TRUE, TRUE, DR)>>
        ELSE <<Cmd("DR", nBits, TRUE, FALSE, DR),
               Cmd("DR", 4, FALSE, TRUE, "zeros")>>)

JTAGRead(DR, nBits, is_xdcfeb) ==
    JTAGShift("Select", DR, 8, is_xdcfeb) \o JTAGShift("Value", "zeros", nBits, is_xdcfeb)

(***************************************************************************)
(* The chain (external). at: idle, or the register whose scan is open, or  *)
(* lost after a command that does not follow from what came before; bits   *)
(* and first: length and first word of that scan; ir: the instruction of   *)
(* the FPGA; sel: the register that Value gives access to; out: what the   *)
(* TDO register (0x1014) held when the program last read it.               *)
(***************************************************************************)
JtagWords == {"Select", "Value", "UserCode", "bypass", "ADC mask", "L1A", "zeros"}

Chain == [at: {"idle", "IR", "DR", "lost"}, bits: 0..62, first: JtagWords \cup {"none"},
          ir: JtagWords \cup {"none", "other"}, sel: JtagWords \cup {"none"},
          out: JtagWords \cup {"none", "junk", "low half", "high half"}]

Reset == [at |-> "idle", bits |-> 0, first |-> "none", ir |-> "none",
          sel |-> "none", out |-> "junk"]

\* The instruction that is in the FPGA when a scan ends after so many bits.
Instruction(kind, first, bits) ==
    CASE bits = IrLength(kind) -> first
      [] bits > IrLength(kind) -> "bypass"
      [] OTHER -> "other"

\* What leaves the chain as bits until .. until + 15 of a data scan.
Output(kind, chain, from, bits) ==
    CASE chain.ir = "UserCode" /\ from = 0 /\ bits = 16 -> "low half"
      [] chain.ir = "UserCode" /\ from = 16 /\ bits = 16 -> "high half"
      [] chain.ir = "Value" /\ from = 0 -> chain.sel
      [] OTHER -> "junk"

Fits(chain, c) == IF c.head THEN chain.at = "idle" ELSE chain.at = c.reg

Shift(kind, chain, c) ==
    LET from == IF c.head THEN 0 ELSE chain.bits
        first == IF c.head THEN c.word ELSE chain.first
        bits == from + c.bits
        out == IF c.reg = "DR" /\ c.bits > 4
               THEN Output(kind, chain, from, c.bits) ELSE chain.out
        instruction == IF c.reg = "IR" THEN Instruction(kind, first, bits) ELSE chain.ir
        selects == c.reg = "DR" /\ chain.ir = "Select" /\ bits = 8 + Others(kind)
    IN CASE ~Fits(chain, c) ->
              [at |-> "lost", bits |-> 0, first |-> "none",
               ir |-> "other", sel |-> chain.sel, out |-> "junk"]
         [] Fits(chain, c) /\ ~c.tail ->
              [at |-> c.reg, bits |-> bits, first |-> first,
               ir |-> chain.ir, sel |-> chain.sel, out |-> out]
         [] Fits(chain, c) /\ c.tail ->
              [at |-> "idle", bits |-> 0, first |-> "none",
               ir |-> instruction, sel |-> IF selects THEN first ELSE chain.sel, out |-> out]

Scan(kind, chain, commands) ==
    AfterSteps(LAMBDA c, i: Shift(kind, c, commands[i]), chain, Len(commands))
=============================================================================
