------------------------------- MODULE VmeScript -------------------------------
(***************************************************************************)
(* ExecuteVMEDSL::respond (Buttons.cc): the interpreter of the scripts of  *)
(* VME commands that are typed into the web page, or read from a file.     *)
(*                                                                         *)
(* A line is its first word, the number that the interpreter reads from it *)
(* (none where the line ends before it), and whether the line is that one  *)
(* character alone.  The number is the slot of RS and WS, the count of BL  *)
(* and COMP, the new slot of SET_SLOT; "1" has one if both of its numbers  *)
(* are complete.  For a WS to an address in 0x4000 .. 0x4018, the slot is  *)
(* what follows a second, decimal, datum.  COMP stands for COMP_DDU and    *)
(* COMP_PC, SLEEP for 8, SLEEP and WAIT, R and W for 2 and 3, and so on.   *)
(* The calls that are made succeed.                                        *)
(*                                                                         *)
(* Vectors and lines count from 1 here, from 0 in the code.                *)
(***************************************************************************)
EXTENDS Integers, Sequences

CONSTANTS
  Scripts,     \* the texts of the fourth box, as sequences of lines
  Repeats,     \* the numbers typed into the first box
  Slots,       \* the slots that may be set
  Cfebs,       \* the DCFEBs of the crate's DMBs, in order
  UIntSize,    \* 2^32 in the code: an unsigned int is below it
  NoNumber

Words == {"0", "1", "R", "W", "RS", "WS", "BL", "EL", "SLEEP", "RL1A",
          "RL1AM", "COMP", "BEGIN_DAQ", "END_DAQ", "RESET_ETH", "WRITE_ETH",
          "SET_SLOT", "SET_PIPE", "#"}

Lines == [word : Words, number : Int \cup {NoNumber}, alone : BOOLEAN]

ASSUME ScriptAssumption ==
  /\ Scripts \subseteq Seq(Lines)
  /\ Repeats \subseteq Nat
  /\ Slots \subseteq Nat
  /\ Cfebs \in Seq({Cfebs[i] : i \in DOMAIN Cfebs})
  /\ Slots \cap {Cfebs[i] : i \in DOMAIN Cfebs} = {}
  /\ \A s \in Scripts : \A i \in DOMAIN s :
       s[i].word \in {"RS", "WS", "SET_SLOT"} => s[i].number \in Slots \cup {NoNumber}
  /\ UIntSize \in Nat \ {0}
  /\ NoNumber \notin Int

VARIABLES
  phase,        \* of respond
  script,       \* allLines, the text of the fourth box or of the file
  repeatNumber,
  repNum,
  lineNum,
  loopLevel, loopCounter, loopMax, loopStart,
  slot,
  testReps,
  slotNumber,   \* Manager::slot_number
  firstSlot,    \* ghost: slot_number when the button was pressed
  calls         \* ghost: what has been called since then

loopVars == <<loopLevel, loopCounter, loopMax, loopStart>>
runVars  == <<script, repeatNumber, firstSlot>>
vars == <<phase, runVars, repNum, lineNum, loopVars, slot, testReps, slotNumber, calls>>

Unsigned(n) == n % UIntSize

(* What `iss >> variable' leaves in a variable: without a number, what was  *)
(* in it.                                                                  *)
NumberOr(line, old) == IF line.number = NoNumber THEN old ELSE line.number

(* A line of one character goes for a comment, whatever the character.     *)
Command(line) == IF line.alone THEN "#" ELSE line.word

--------------------------------------------------------------------------------
(* The calls of one line.                                                  *)

Call(op, where, i) == [op |-> op, where |-> where, line |-> i]

(* n rounds of the same calls.                                             *)
Rounds(round, n) == [k \in 1 .. n * Len(round) |-> round[((k - 1) % Len(round)) + 1]]

PipeCalls(i) ==
  [k \in 1 .. 2 * Len(Cfebs) |->
    Call(IF k % 2 = 1 THEN "dcfeb_set_PipelineDepth" ELSE "Pipeline_Restart",
         Cfebs[(k + 1) \div 2], i)]

CallsOf(word, where, reps, i) ==
  CASE word \in {"R", "RS"}       -> <<Call("VMERead", where, i)>>
    [] word \in {"W", "WS"}       -> <<Call("VMEWrite", where, i)>>
    [] word = "1"     -> <<Call("VMEAccess", where, i)>>
    [] word = "RL1A"  -> <<Call("VMERead", where, i), Call("VMERead", where, i),
                           Call("VMEWrite", where, i)>>
    [] word = "RL1AM" -> <<Call("VMERead", where, i), Call("VMEWrite", where, i)>>
    [] word = "COMP"  -> Rounds(<<Call("tx", where, i), Call("rx", where, i)>>, reps)
    [] word = "SET_PIPE" -> PipeCalls(i)
    [] word \in {"BEGIN_DAQ", "END_DAQ", "RESET_ETH", "WRITE_ETH"} ->
         <<Call(word, NoNumber, i)>>
    [] word = "SET_SLOT" -> <<Call(word, where, i)>>

(* RS, WS and SET_SLOT take a slot from the line.                          *)
TakesSlot(word) == word \in {"RS", "WS", "SET_SLOT"}

(* Mutants: the slot of one line stays for the next; a slot is taken from  *)
(* a line that has none.                                                   *)
KeepSlot == slot
SlotUnread(line) == IF TakesSlot(line.word) THEN line.number ELSE slotNumber

LoadSlot == slotNumber

SlotFor(line) == IF TakesSlot(line.word) THEN NumberOr(line, LoadSlot) ELSE LoadSlot

RepsFor(line) == IF line.word = "COMP" THEN Unsigned(NumberOr(line, testReps)) ELSE testReps

--------------------------------------------------------------------------------
(* Loops of BL and EL.                                                     *)

NoLoops == /\ loopLevel' = 0
           /\ loopCounter' = <<>> /\ loopMax' = <<>> /\ loopStart' = <<>>

Times(line) == Unsigned(NumberOr(line, 0))

(* Mutants: one round too many; a counter that does not count; vectors     *)
(* that keep the loop that has ended.                                      *)
RunsOnceMore(counter, max) == counter <= max
Uncounted(counter) == counter
Unpopped(vector) == vector

RunsAgain(counter, max) == counter < max

Counted(counter) == counter + 1

Popped(vector) == SubSeq(vector, 1, Len(vector) - 1)

Opened ==
  /\ loopLevel' = loopLevel + 1
  /\ loopCounter' = Append(loopCounter, 1)
  /\ loopMax' = Append(loopMax, Times(script[lineNum]))
  /\ loopStart' = Append(loopStart, lineNum)
  /\ lineNum' = lineNum + 1

JumpBack ==
  /\ RunsAgain(loopCounter[loopLevel], loopMax[loopLevel])
  /\ lineNum' = loopStart[loopLevel] + 1
  /\ loopCounter' = [loopCounter EXCEPT ![loopLevel] = Counted(@)]
  /\ UNCHANGED <<loopLevel, loopMax, loopStart>>

Leave ==
  /\ ~RunsAgain(loopCounter[loopLevel], loopMax[loopLevel])
  /\ loopCounter' = Popped(loopCounter)
  /\ loopMax' = Popped(loopMax)
  /\ loopStart' = Popped(loopStart)
  /\ loopLevel' = loopLevel - 1
  /\ lineNum' = lineNum + 1

--------------------------------------------------------------------------------
Ops == {"VMERead", "VMEWrite", "VMEAccess", "tx", "rx", "dcfeb_set_PipelineDepth",
        "Pipeline_Restart", "SET_SLOT", "BEGIN_DAQ", "END_DAQ", "RESET_ETH", "WRITE_ETH"}

Places == Slots \cup {Cfebs[i] : i \in DOMAIN Cfebs} \cup {NoNumber}

TypeOK ==
  /\ phase \in {"not called", "running", "returned"}
  /\ script \in Scripts
  /\ repeatNumber \in Repeats /\ repNum \in 0 .. repeatNumber
  /\ lineNum \in 1 .. Len(script) + 1
  /\ loopLevel \in Nat
  /\ loopCounter \in Seq(Nat) /\ loopMax \in Seq(Nat) /\ loopStart \in Seq(Nat)
  /\ slot \in Slots /\ slotNumber \in Slots /\ firstSlot \in Slots
  /\ testReps \in Nat
  /\ calls \in Seq([op : Ops, where : Places, line : Nat])

Init ==
  /\ phase = "not called"
  /\ script \in Scripts /\ repeatNumber \in Repeats
  /\ repNum = repeatNumber /\ lineNum = 1
  /\ loopLevel = 0 /\ loopCounter = <<>> /\ loopMax = <<>> /\ loopStart = <<>>
  /\ slotNumber \in Slots
  /\ slot = slotNumber /\ firstSlot = slotNumber
  /\ testReps = 0
  /\ calls = <<>>

(* The button is pressed.  The boxes keep their text from one press to the *)
(* next, and the slot may have been changed by then.                       *)
Press ==
  /\ phase # "running"
  /\ phase' = "running"
  /\ repNum' = 0 /\ lineNum' = 1 /\ NoLoops
  /\ slot' = slotNumber /\ firstSlot' = slotNumber
  /\ testReps' = 0
  /\ calls' = <<>>
  /\ UNCHANGED <<script, repeatNumber, slotNumber>>

Running  == phase = "running" /\ repNum < repeatNumber
LinesEnd == Len(script) + 1

(* The next line's command is one of these, and the slot is loaded for it. *)
Reads(words) ==
  /\ Running
  /\ lineNum < LinesEnd
  /\ Command(script[lineNum]) \in words
  /\ slot' = SlotFor(script[lineNum])

Stays == UNCHANGED <<runVars, repNum>>
NoCalls == UNCHANGED <<testReps, slotNumber, calls>>

Comment ==
  /\ Reads({"#", "SLEEP"})
  /\ lineNum' = lineNum + 1
  /\ Stays /\ NoCalls /\ UNCHANGED <<phase, loopVars>>

(* End of run: leaves the loop over the lines, not the one over the        *)
(* repetitions.                                                            *)
EndOfRun ==
  /\ Reads({"0"})
  /\ lineNum' = LinesEnd
  /\ Stays /\ NoCalls /\ UNCHANGED <<phase, loopVars>>

BeginLoop ==
  /\ Reads({"BL"})
  /\ Opened
  /\ Stays /\ NoCalls /\ UNCHANGED phase

EndLoop ==
  /\ Reads({"EL"})
  /\ loopLevel > 0
  /\ JumpBack \/ Leave
  /\ Stays /\ NoCalls /\ UNCHANGED phase

(* vector::at throws in an EL without a BL, and respond returns from a "1" *)
(* whose numbers are not complete.                                         *)
Abort ==
  /\ \/ Reads({"EL"}) /\ loopLevel = 0
     \/ Reads({"1"}) /\ script[lineNum].number = NoNumber
  /\ phase' = "returned"
  /\ Stays /\ NoCalls /\ UNCHANGED <<lineNum, loopVars>>

Effects == Words \ {"0", "BL", "EL", "SLEEP", "#"}

DoCalls ==
  LET line == script[lineNum]
  IN  /\ Reads(Effects)
      /\ line.word = "1" => line.number # NoNumber
      /\ testReps' = RepsFor(line)
      /\ calls' = calls \o CallsOf(line.word, slot', testReps', lineNum)
      /\ slotNumber' = IF line.word = "SET_SLOT" THEN slot' ELSE slotNumber
      /\ lineNum' = lineNum + 1
      /\ Stays /\ UNCHANGED <<phase, loopVars>>

(* The next repetition has new vectors.                                    *)
NextRepetition ==
  /\ Running
  /\ lineNum = LinesEnd
  /\ repNum' = repNum + 1
  /\ lineNum' = 1 /\ NoLoops
  /\ UNCHANGED <<phase, runVars, slot, testReps, slotNumber, calls>>

Return ==
  /\ phase = "running"
  /\ repNum = repeatNumber
  /\ phase' = "returned"
  /\ UNCHANGED <<runVars, repNum, lineNum, loopVars, slot, testReps, slotNumber, calls>>

Respond == \/ Comment \/ EndOfRun \/ BeginLoop \/ EndLoop \/ Abort \/ DoCalls
           \/ NextRepetition \/ Return

(* ChangeSlotNumber, the button that sets the slot.                        *)
ChangeSlotNumber(s) ==
  /\ phase # "running"
  /\ slotNumber' = s
  /\ UNCHANGED <<phase, runVars, repNum, lineNum, loopVars, slot, testReps, calls>>

Next == \/ Press
        \/ Respond
        \/ \E s \in Slots : ChangeSlotNumber(s)

Spec == Init /\ [][Next]_vars

(* respond runs on by itself.                                              *)
FairSpec == Spec /\ WF_vars(Respond)

--------------------------------------------------------------------------------
(* What is between a BL and its EL is what a loop repeats: the vectors are *)
(* as long as the level says, each open loop starts at a BL above the line *)
(* that is next and inside the one before, and no loop runs more often     *)
(* than its BL asks for; one that asks for none runs once.                 *)
LoopsNest ==
  /\ Len(loopCounter) = loopLevel /\ Len(loopMax) = loopLevel /\ Len(loopStart) = loopLevel
  /\ \A k \in 1 .. loopLevel :
       /\ loopStart[k] \in 1 .. lineNum - 1
       /\ Command(script[loopStart[k]]) = "BL"
       /\ loopMax[k] = Times(script[loopStart[k]])
       /\ 1 <= loopCounter[k]
       /\ loopCounter[k] <= loopMax[k] \/ loopCounter[k] = 1
  /\ \A j, k \in 1 .. loopLevel : j < k => loopStart[j] < loopStart[k]

(* A call goes to the slot its own line names, else to the one that        *)
(* SET_SLOT has set last in this or an earlier run, or the button: RS and  *)
(* WS change the slot for their own line only.                             *)
Sets(i) == calls[i].op = "SET_SLOT"

DefaultBefore(k, s) ==
  \/ \E j \in 1 .. k - 1 : /\ Sets(j) /\ calls[j].where = s
                          /\ \A i \in j + 1 .. k - 1 : ~Sets(i)
  \/ s = firstSlot /\ \A i \in 1 .. k - 1 : ~Sets(i)

SlotsAsWritten ==
  \A k \in DOMAIN calls :
    LET line == script[calls[k].line]
    IN  calls[k].where \in Slots =>
          IF TakesSlot(line.word) /\ line.number # NoNumber
          THEN calls[k].where = line.number
          ELSE DefaultBefore(k, calls[k].where)

(* Every run of a script ends.                                             *)
RunEnds == phase = "running" ~> phase = "returned"
================================================================================
