---------------------------- MODULE VmeScriptProofs ----------------------------
(***************************************************************************)
(* Proofs about the interpreter of VME scripts, for any scripts, any       *)
(* numbers of repetitions, any slots and any DCFEBs.                       *)
(***************************************************************************)
EXTENDS VmeScript, SequenceTheorems, TLAPS

Calls == [op : Ops, where : Places, line : Nat]

--------------------------------------------------------------------------------
(* Numbers and lines.                                                      *)

\* An unsigned number is a natural one.
LEMMA UnsignedNat == ASSUME NEW n \in Int PROVE Unsigned(n) \in Nat
BY ScriptAssumption DEF Unsigned

\* What a line of a script may be.
LEMMA LineOfScript ==
  ASSUME NEW s \in Scripts, NEW i \in DOMAIN s
  PROVE  /\ s \in Seq(Lines) /\ s[i] \in Lines
         /\ Len(s) \in Nat /\ DOMAIN s = 1 .. Len(s)
         /\ s[i].number \in Int \cup {NoNumber}
         /\ TakesSlot(s[i].word) => s[i].number \in Slots \cup {NoNumber}
<1>1. s \in Seq(Lines)
  BY ScriptAssumption
<1>2. Len(s) \in Nat /\ DOMAIN s = 1 .. Len(s)
  BY <1>1
<1>3. s[i] \in Lines
  BY <1>1, <1>2
<1>4. TakesSlot(s[i].word) => s[i].number \in Slots \cup {NoNumber}
  BY ScriptAssumption DEF TakesSlot
<1> QED
  BY <1>1, <1>2, <1>3, <1>4 DEF Lines

(* A line leaves a number where it reads one.                              *)
LEMMA NumberOrNat ==
  ASSUME NEW line \in Lines, NEW old \in Nat
  PROVE  Unsigned(NumberOr(line, old)) \in Nat
BY UnsignedNat DEF NumberOr, Lines

(* The slot that is loaded is one.                                         *)
LEMMA SlotIsOne ==
  ASSUME slotNumber \in Slots, NEW line,
         TakesSlot(line.word) => line.number \in Slots \cup {NoNumber}
  PROVE  SlotFor(line) \in Slots
BY DEF SlotFor, LoadSlot, NumberOr

--------------------------------------------------------------------------------
(* The calls of a line.                                                    *)

(* What the proofs need to know of a line's calls.                         *)
Fit(c, word, where, i) ==
  /\ c \in Seq(Calls)
  /\ \A k \in 1 .. Len(c) :
       /\ c[k].line = i
       /\ c[k].where \in Slots => c[k].where = where
       /\ c[k].op = "SET_SLOT" <=> word = "SET_SLOT"
  /\ word = "SET_SLOT" => Len(c) = 1 /\ c[1].where = where

\* Rounds of two calls are made of these calls.
LEMMA RoundsFit ==
  ASSUME NEW a \in Calls, NEW b \in Calls, NEW n \in Nat
  PROVE  /\ Rounds(<<a, b>>, n) \in Seq(Calls)
         /\ \A k \in 1 .. Len(Rounds(<<a, b>>, n)) : Rounds(<<a, b>>, n)[k] \in {a, b}
<1> DEFINE r == Rounds(<<a, b>>, n)
<1>1. r = [k \in 1 .. n * 2 |-> <<a, b>>[((k - 1) % 2) + 1]]
  BY DEF Rounds
<1>2. \A k \in 1 .. n * 2 : <<a, b>>[((k - 1) % 2) + 1] \in {a, b}
  <2> SUFFICES ASSUME NEW k \in 1 .. n * 2 PROVE <<a, b>>[((k - 1) % 2) + 1] \in {a, b}
    OBVIOUS
  <2>1. PICK h \in 1 .. 2 : h = ((k - 1) % 2) + 1
    OBVIOUS
  <2>2. <<a, b>>[h] \in {a, b}
    OBVIOUS
  <2> QED
    BY <2>1, <2>2
<1>3. r \in Seq(Calls)
  <2>1. n * 2 \in Nat
    OBVIOUS
  <2>2. r \in [1 .. n * 2 -> Calls]
    BY <1>1, <1>2
  <2> QED
    BY <2>1, <2>2
<1>4. Len(r) = n * 2
  BY <1>1
<1> HIDE DEF r
<1>5. \A k \in 1 .. Len(r) : r[k] \in {a, b}
  BY <1>1, <1>2, <1>4
<1> QED
  BY <1>3, <1>5 DEF r

\* The calls of SET_PIPE are those of its line.
LEMMA PipeCallsFit ==
  ASSUME NEW i \in Nat, NEW where
  PROVE  Fit(PipeCalls(i), "SET_PIPE", where, i)
<1> DEFINE p == PipeCalls(i)
           at(k) == Cfebs[(k + 1) \div 2]
           of(k) == IF k % 2 = 1 THEN "dcfeb_set_PipelineDepth" ELSE "Pipeline_Restart"
<1>1. p = [k \in 1 .. 2 * Len(Cfebs) |-> Call(of(k), at(k), i)]
  BY DEF PipeCalls
<1>2. Len(Cfebs) \in Nat /\ DOMAIN Cfebs = 1 .. Len(Cfebs)
  BY ScriptAssumption
<1>3. ASSUME NEW k \in 1 .. 2 * Len(Cfebs)
      PROVE  at(k) \in Places /\ at(k) \notin Slots
  <2>1. (k + 1) \div 2 \in 1 .. Len(Cfebs)
    BY <1>2
  <2> QED
    BY <2>1, <1>2, ScriptAssumption DEF Places
<1>4. ASSUME NEW k \in 1 .. 2 * Len(Cfebs)
      PROVE  Call(of(k), at(k), i) \in Calls
  <2>1. of(k) \in Ops
    BY DEF Ops
  <2>2. at(k) \in Places
    BY <1>3
  <2> HIDE DEF of, at
  <2> QED
    BY <2>1, <2>2 DEF Call, Calls
<1>5. p \in Seq(Calls) /\ Len(p) = 2 * Len(Cfebs)
  <2>1. 2 * Len(Cfebs) \in Nat
    BY <1>2
  <2> QED
    BY <1>1, <1>4, <2>1, LenProperties
<1>6. ASSUME NEW k \in 1 .. Len(p)
      PROVE  p[k].line = i /\ p[k].where \notin Slots /\ p[k].op # "SET_SLOT"
  <2>1. p[k] = Call(of(k), at(k), i)
    BY <1>1, <1>5
  <2> QED
    BY <2>1, <1>3, <1>5 DEF Call
<1> HIDE DEF p
<1> QED
  BY <1>5, <1>6 DEF Fit, p

\* The calls of every line are of its word, slot and number.
LEMMA CallsFit ==
  ASSUME NEW word \in Effects, NEW where \in Slots, NEW reps \in Nat, NEW i \in Nat
  PROVE  Fit(CallsOf(word, where, reps, i), word, where, i)
<1> DEFINE c == CallsOf(word, where, reps, i)
<1> SUFFICES Fit(c, word, where, i)
  OBVIOUS
<1>1. \A op \in Ops : Call(op, where, i) \in Calls
  BY DEF Call, Calls, Places
<1>2. \A op \in Ops : Call(op, NoNumber, i) \in Calls
  <2>1. NoNumber \in Places
    BY DEF Places
  <2> QED
    BY <2>1 DEF Call, Calls
<1>3. NoNumber \notin Slots
  <2>1. Slots \subseteq Nat /\ NoNumber \notin Int
    BY ScriptAssumption
  <2>2. \A n \in Nat : n \in Int
    OBVIOUS
  <2> QED
    BY <2>1, <2>2, Zenon
<1>4. CASE word \in {"R", "RS", "W", "WS", "1"}
  <2>1. PICK op \in {"VMERead", "VMEWrite", "VMEAccess"} : c = <<Call(op, where, i)>>
    BY <1>4 DEF CallsOf
  <2>2. c \in Seq(Calls) /\ Len(c) = 1 /\ c[1] = Call(op, where, i)
    BY <1>1, <2>1 DEF Ops
  <2> HIDE DEF c
  <2> QED
    BY <1>4, <2>2 DEF Fit, Call
<1>5. CASE word = "RL1A"
  <2>1. c = <<Call("VMERead", where, i), Call("VMERead", where, i),
              Call("VMEWrite", where, i)>>
    BY <1>5 DEF CallsOf
  <2>2. c \in Seq(Calls) /\ Len(c) = 3
    BY <1>1, <2>1 DEF Ops
  <2>3. \A k \in 1 .. 3 : c[k] \in {Call("VMERead", where, i), Call("VMEWrite", where, i)}
    BY <2>1
  <2> HIDE DEF c
  <2> QED
    BY <1>5, <2>2, <2>3 DEF Fit, Call
<1>6. CASE word = "RL1AM"
  <2>1. c = <<Call("VMERead", where, i), Call("VMEWrite", where, i)>>
    BY <1>6 DEF CallsOf
  <2>2. c \in Seq(Calls) /\ Len(c) = 2
    BY <1>1, <2>1 DEF Ops
  <2>3. \A k \in 1 .. 2 : c[k] \in {Call("VMERead", where, i), Call("VMEWrite", where, i)}
    BY <2>1
  <2> HIDE DEF c
  <2> QED
    BY <1>6, <2>2, <2>3 DEF Fit, Call
<1>7. CASE word = "COMP"
  <2>1. c = Rounds(<<Call("tx", where, i), Call("rx", where, i)>>, reps)
    BY <1>7 DEF CallsOf
  <2>2. Call("tx", where, i) \in Calls /\ Call("rx", where, i) \in Calls
    BY <1>1 DEF Ops
  <2>3. /\ c \in Seq(Calls)
        /\ \A k \in 1 .. Len(c) : c[k] \in {Call("tx", where, i), Call("rx", where, i)}
    BY <2>1, <2>2, RoundsFit
  <2>4. Len(c) \in Nat
    BY <2>3
  <2> HIDE DEF c
  <2> QED
    BY <1>7, <2>3, <2>4 DEF Fit, Call
<1>8. CASE word = "SET_PIPE"
  BY <1>8, PipeCallsFit DEF CallsOf
<1>9. CASE word \in {"BEGIN_DAQ", "END_DAQ", "RESET_ETH", "WRITE_ETH"}
  <2>1. c = <<Call(word, NoNumber, i)>>
    BY <1>9 DEF CallsOf
  <2>2. c \in Seq(Calls) /\ Len(c) = 1 /\ c[1] = Call(word, NoNumber, i)
    BY <1>2, <1>9, <2>1 DEF Ops
  <2> HIDE DEF c
  <2> QED
    BY <1>3, <1>9, <2>2 DEF Fit, Call
<1>10. CASE word = "SET_SLOT"
  <2>1. c = <<Call("SET_SLOT", where, i)>>
    BY <1>10 DEF CallsOf
  <2>2. c \in Seq(Calls) /\ Len(c) = 1 /\ c[1] = Call("SET_SLOT", where, i)
    BY <1>1, <2>1 DEF Ops
  <2> HIDE DEF c
  <2> QED
    BY <1>10, <2>2 DEF Fit, Call
<1> QED
  BY <1>4, <1>5, <1>6, <1>7, <1>8, <1>9, <1>10 DEF Effects, Words

--------------------------------------------------------------------------------
(* Types and loops, which hold together: an EL jumps to a line only if the *)
(* loop starts at one.                                                     *)

(* The line that is read, the slot and the count it gives.                 *)
LEMMA ReadsLine ==
  ASSUME TypeOK, NEW words, Reads(words)
  PROVE  /\ phase = "running" /\ repNum < repeatNumber
         /\ lineNum \in 1 .. Len(script) /\ lineNum \in DOMAIN script
         /\ Len(script) \in Nat
         /\ script[lineNum] \in Lines
         /\ Command(script[lineNum]) \in words
         /\ slot' = SlotFor(script[lineNum]) /\ slot' \in Slots
         /\ lineNum + 1 \in 1 .. Len(script) + 1
         /\ RepsFor(script[lineNum]) \in Nat
<1>1. script \in Scripts /\ lineNum \in 1 .. Len(script) + 1 /\ slotNumber \in Slots
      /\ testReps \in Nat
  BY DEF TypeOK
<1>2. /\ phase = "running" /\ repNum < repeatNumber /\ lineNum < Len(script) + 1
      /\ Command(script[lineNum]) \in words /\ slot' = SlotFor(script[lineNum])
  BY DEF Reads, Running, LinesEnd
<1>3. script \in Seq(Lines)
  BY <1>1, ScriptAssumption
<1>4. Len(script) \in Nat /\ DOMAIN script = 1 .. Len(script)
  BY <1>3
<1>5. lineNum \in 1 .. Len(script) /\ lineNum \in DOMAIN script
      /\ lineNum + 1 \in 1 .. Len(script) + 1
  BY <1>1, <1>2, <1>4
<1>6. /\ script[lineNum] \in Lines
      /\ TakesSlot(script[lineNum].word) =>
           script[lineNum].number \in Slots \cup {NoNumber}
  BY <1>1, <1>5, LineOfScript
<1>7. SlotFor(script[lineNum]) \in Slots
  BY <1>1, <1>6, SlotIsOne
<1>8. RepsFor(script[lineNum]) \in Nat
  BY <1>1, <1>6, NumberOrNat DEF RepsFor
<1> QED
  BY <1>2, <1>4, <1>5, <1>6, <1>7, <1>8

\* A step adds the calls of its line.
LEMMA DoCallsFit ==
  ASSUME TypeOK, DoCalls
  PROVE  \E c : /\ calls' = calls \o c
                /\ Fit(c, script[lineNum].word, slot', lineNum)
<1>1. /\ script[lineNum].word \in Effects /\ slot' \in Slots /\ lineNum \in Nat
      /\ testReps' \in Nat
  <2>1. /\ Command(script[lineNum]) \in Effects /\ slot' \in Slots /\ lineNum \in Nat
        /\ RepsFor(script[lineNum]) \in Nat
    BY ReadsLine DEF DoCalls
  <2>2. script[lineNum].word \in Effects
    BY <2>1 DEF Command, Effects
  <2> QED
    BY <2>1, <2>2 DEF DoCalls
<1>2. calls' = calls \o CallsOf(script[lineNum].word, slot', testReps', lineNum)
  BY DEF DoCalls
<1> QED
  BY <1>1, <1>2, CallsFit

\* The types and the nesting at the start.
LEMMA TypeInit == Init => TypeOK /\ LoopsNest
<1> SUFFICES ASSUME Init PROVE TypeOK /\ LoopsNest
  OBVIOUS
<1>1. script \in Seq(Lines) /\ repeatNumber \in Nat
  BY ScriptAssumption DEF Init
<1>2. 1 \in 1 .. Len(script) + 1
  BY <1>1
<1>3. \A S : <<>> \in Seq(S) /\ Len(<<>>) = 0
  BY EmptySeq
<1>4. TypeOK
  <2>1. /\ phase \in {"not called", "running", "returned"}
        /\ script \in Scripts /\ repeatNumber \in Repeats 
    BY DEF Init
  <2>7. repNum \in 0 .. repeatNumber
    <3>1. repNum = repeatNumber
      BY DEF Init
    <3> QED
      BY <1>1, <3>1
  <2>4. lineNum \in 1 .. Len(script) + 1
    BY <1>2 DEF Init
  <2>5. slot \in Slots /\ slotNumber \in Slots /\ firstSlot \in Slots
    BY DEF Init
  <2>6. loopLevel \in Nat /\ testReps \in Nat
    BY DEF Init
  <2>2. /\ loopCounter \in Seq(Nat) /\ loopMax \in Seq(Nat) /\ loopStart \in Seq(Nat)
    BY <1>3 DEF Init
  <2>3. calls \in Seq([op : Ops, where : Places, line : Nat])
    BY <1>3 DEF Init
  <2> QED
    BY <2>1, <2>2, <2>3, <2>4, <2>5, <2>6, <2>7 DEF TypeOK
<1>5. LoopsNest
  <2>1. /\ loopLevel = 0 /\ loopCounter = <<>> /\ loopMax = <<>> /\ loopStart = <<>>
    BY DEF Init
  <2>2. Len(loopCounter) = 0 /\ Len(loopMax) = 0 /\ Len(loopStart) = 0
    BY <2>1
  <2>3. 1 .. loopLevel = {}
    BY <2>1
  <2> QED
    BY <2>1, <2>2, <2>3 DEF LoopsNest
<1> QED
  BY <1>4, <1>5

\* The line number and the length are numbers.
LEMMA LineNumNat == ASSUME TypeOK PROVE lineNum \in Nat /\ Len(script) \in Nat
<1>1. script \in Seq(Lines) /\ lineNum \in 1 .. Len(script) + 1
  BY ScriptAssumption DEF TypeOK
<1> QED
  BY <1>1

(* Lines that leave the loops alone and do not go back keep them nested.   *)
LEMMA LoopsKept ==
  ASSUME TypeOK, LoopsNest, UNCHANGED <<loopVars, script>>,
         lineNum' \in Nat, lineNum' >= lineNum
  PROVE  LoopsNest'
<1>1. /\ loopLevel' = loopLevel /\ loopCounter' = loopCounter /\ loopMax' = loopMax
      /\ loopStart' = loopStart /\ script' = script
  BY DEF loopVars
<1>2. lineNum \in Nat
  BY LineNumNat
<1>3. \A k \in 1 .. loopLevel : loopStart[k] \in 1 .. lineNum - 1 =>
                                loopStart[k] \in 1 .. lineNum' - 1
  BY <1>2
<1> QED
  BY <1>1, <1>3 DEF LoopsNest

\* No loops are nested rightly.
LEMMA NoLoopsNest ==
  ASSUME NoLoops
  PROVE  /\ LoopsNest'
         /\ loopLevel' \in Nat
         /\ loopCounter' \in Seq(Nat) /\ loopMax' \in Seq(Nat) /\ loopStart' \in Seq(Nat)
BY DEF NoLoops, LoopsNest

\* So are they with one more loop.
LEMMA OpenedNests ==
  ASSUME TypeOK, LoopsNest, Reads({"BL"}), Opened, UNCHANGED script
  PROVE  /\ LoopsNest'
         /\ loopLevel' \in Nat
         /\ loopCounter' \in Seq(Nat) /\ loopMax' \in Seq(Nat) /\ loopStart' \in Seq(Nat)
<1>1. /\ lineNum \in 1 .. Len(script) /\ Len(script) \in Nat /\ script[lineNum] \in Lines
      /\ Command(script[lineNum]) = "BL"
  BY ReadsLine
<1>2. Times(script[lineNum]) \in Nat
  BY <1>1, NumberOrNat DEF Times
<1>3. /\ loopLevel \in Nat
      /\ loopCounter \in Seq(Nat) /\ loopMax \in Seq(Nat) /\ loopStart \in Seq(Nat)
      /\ Len(loopCounter) = loopLevel /\ Len(loopMax) = loopLevel
      /\ Len(loopStart) = loopLevel
  BY DEF TypeOK, LoopsNest
<1> DEFINE max == Times(script[lineNum])
<1>4. /\ loopLevel' = loopLevel + 1 /\ lineNum' = lineNum + 1
      /\ loopCounter' = Append(loopCounter, 1)
      /\ loopMax' = Append(loopMax, max)
      /\ loopStart' = Append(loopStart, lineNum)
  BY DEF Opened
<1> HIDE DEF max
<1>5. /\ loopLevel' \in Nat
      /\ loopCounter' \in Seq(Nat) /\ loopMax' \in Seq(Nat) /\ loopStart' \in Seq(Nat)
      /\ Len(loopCounter') = loopLevel' /\ Len(loopMax') = loopLevel'
      /\ Len(loopStart') = loopLevel'
  <2>1. Append(loopCounter, 1) \in Seq(Nat) /\ Len(Append(loopCounter, 1)) = loopLevel + 1
    BY <1>3, AppendProperties
  <2>2. Append(loopMax, max) \in Seq(Nat) /\ Len(Append(loopMax, max)) = loopLevel + 1
    BY <1>2, <1>3, AppendProperties DEF max
  <2>3. Append(loopStart, lineNum) \in Seq(Nat) /\ Len(Append(loopStart, lineNum)) = loopLevel + 1
    BY <1>1, <1>3, AppendProperties
  <2> QED
    BY <1>3, <1>4, <2>1, <2>2, <2>3
<1>6. /\ \A k \in 1 .. loopLevel : /\ loopCounter'[k] = loopCounter[k]
                                   /\ loopMax'[k] = loopMax[k]
                                   /\ loopStart'[k] = loopStart[k]
      /\ loopCounter'[loopLevel'] = 1
      /\ loopMax'[loopLevel'] = max
      /\ loopStart'[loopLevel'] = lineNum
  <2>1. ASSUME NEW v \in Seq(Nat), NEW x \in Nat, Len(v) = loopLevel
        PROVE  /\ \A k \in 1 .. loopLevel : Append(v, x)[k] = v[k]
               /\ Append(v, x)[loopLevel + 1] = x
    BY <1>3, <2>1, AppendProperties
  <2>2. /\ \A k \in 1 .. loopLevel : Append(loopCounter, 1)[k] = loopCounter[k]
        /\ Append(loopCounter, 1)[loopLevel + 1] = 1
    BY <1>3, <2>1
  <2>3. /\ \A k \in 1 .. loopLevel : Append(loopMax, max)[k] = loopMax[k]
        /\ Append(loopMax, max)[loopLevel + 1] = max
    BY <1>2, <1>3, <2>1 DEF max
  <2>4. /\ \A k \in 1 .. loopLevel : Append(loopStart, lineNum)[k] = loopStart[k]
        /\ Append(loopStart, lineNum)[loopLevel + 1] = lineNum
    BY <1>1, <1>3, <2>1
  <2> QED
    BY <1>4, <2>2, <2>3, <2>4
<1>7. ASSUME NEW k \in 1 .. loopLevel'
      PROVE  /\ loopStart'[k] \in 1 .. lineNum' - 1
             /\ Command(script'[loopStart'[k]]) = "BL"
             /\ loopMax'[k] = Times(script'[loopStart'[k]])
             /\ 1 <= loopCounter'[k]
             /\ loopCounter'[k] <= loopMax'[k] \/ loopCounter'[k] = 1
  <2>1. CASE k = loopLevel'
    <3>1. /\ loopStart'[k] = lineNum /\ loopMax'[k] = max /\ loopCounter'[k] = 1
          /\ script'[loopStart'[k]] = script[lineNum]
      BY <1>6, <2>1
    <3>2. lineNum \in 1 .. lineNum' - 1
      BY <1>1, <1>4
    <3> QED
      BY <1>1, <3>1, <3>2 DEF max
  <2>2. CASE k # loopLevel'
    <3>1. k \in 1 .. loopLevel
      BY <1>3, <1>4, <2>2
    <3>2. /\ loopStart[k] \in 1 .. lineNum - 1
          /\ Command(script[loopStart[k]]) = "BL"
          /\ loopMax[k] = Times(script[loopStart[k]])
          /\ 1 <= loopCounter[k]
          /\ loopCounter[k] <= loopMax[k] \/ loopCounter[k] = 1
      BY <3>1 DEF LoopsNest
    <3>3. /\ loopStart'[k] = loopStart[k] /\ loopMax'[k] = loopMax[k]
          /\ loopCounter'[k] = loopCounter[k]
          /\ script'[loopStart'[k]] = script[loopStart[k]]
      BY <1>6, <3>1
    <3>4. loopStart[k] \in 1 .. lineNum' - 1
      BY <1>1, <1>4, <3>2
    <3> QED
      BY <3>2, <3>3, <3>4
  <2> QED
    BY <2>1, <2>2
<1>8. ASSUME NEW j \in 1 .. loopLevel', NEW k \in 1 .. loopLevel', j < k
      PROVE  loopStart'[j] < loopStart'[k]
  <2>1. j \in 1 .. loopLevel /\ loopStart[j] \in 1 .. lineNum - 1
    <3>1. j \in 1 .. loopLevel
      BY <1>3, <1>4, <1>8
    <3> QED
      BY <3>1 DEF LoopsNest
  <2>2. CASE k = loopLevel'
    BY <1>1, <1>6, <2>1, <2>2
  <2>3. CASE k # loopLevel'
    <3>1. k \in 1 .. loopLevel
      BY <1>3, <1>4, <2>3
    <3>2. loopStart[j] < loopStart[k]
      BY <1>8, <2>1, <3>1 DEF LoopsNest
    <3> QED
      BY <1>6, <2>1, <3>1, <3>2
  <2> QED
    BY <2>2, <2>3
<1> QED
  <2>1. LoopsNest'
    BY <1>5, <1>7, <1>8 DEF LoopsNest, Times, Unsigned, NumberOr, Command
  <2> QED
    BY <1>5, <2>1
\* A jump back keeps the nesting.
LEMMA JumpBackNests ==
  ASSUME TypeOK, LoopsNest, loopLevel > 0, JumpBack, UNCHANGED script
  PROVE  /\ LoopsNest'
         /\ lineNum' \in 1 .. lineNum
         /\ loopLevel' \in Nat
         /\ loopCounter' \in Seq(Nat) /\ loopMax' \in Seq(Nat) /\ loopStart' \in Seq(Nat)
<1>1. /\ loopLevel \in Nat /\ lineNum \in Nat
      /\ loopCounter \in Seq(Nat) /\ loopMax \in Seq(Nat) /\ loopStart \in Seq(Nat)
      /\ Len(loopCounter) = loopLevel /\ Len(loopMax) = loopLevel
      /\ Len(loopStart) = loopLevel
  BY LineNumNat DEF TypeOK, LoopsNest
<1>2. /\ loopCounter[loopLevel] < loopMax[loopLevel]
      /\ lineNum' = loopStart[loopLevel] + 1
      /\ loopCounter' = [loopCounter EXCEPT ![loopLevel] = @ + 1]
      /\ loopLevel' = loopLevel /\ loopMax' = loopMax /\ loopStart' = loopStart
      /\ script' = script
  BY DEF JumpBack, RunsAgain, Counted
<1>3. loopLevel \in 1 .. loopLevel
  BY <1>1
<1>4. loopCounter[loopLevel] \in Nat /\ loopMax[loopLevel] \in Nat
  BY <1>1, <1>3, ElementOfSeq
<1>5. loopStart[loopLevel] \in 1 .. lineNum - 1
  BY <1>3 DEF LoopsNest
<1>6. lineNum' \in 1 .. lineNum
  BY <1>1, <1>2, <1>5
<1>7. /\ loopCounter' \in Seq(Nat) /\ Len(loopCounter') = loopLevel
      /\ \A k \in 1 .. loopLevel :
           loopCounter'[k] = IF k = loopLevel THEN loopCounter[k] + 1 ELSE loopCounter[k]
  BY <1>1, <1>2, <1>3, <1>4, ExceptSeq
<1>8. ASSUME NEW k \in 1 .. loopLevel
      PROVE  /\ loopStart'[k] \in 1 .. lineNum' - 1
             /\ Command(script'[loopStart'[k]]) = "BL"
             /\ loopMax'[k] = Times(script'[loopStart'[k]])
             /\ 1 <= loopCounter'[k]
             /\ loopCounter'[k] <= loopMax'[k] \/ loopCounter'[k] = 1
  <2>1. /\ loopStart[k] \in 1 .. lineNum - 1
        /\ Command(script[loopStart[k]]) = "BL"
        /\ loopMax[k] = Times(script[loopStart[k]])
        /\ 1 <= loopCounter[k]
        /\ loopCounter[k] <= loopMax[k] \/ loopCounter[k] = 1
        /\ k < loopLevel => loopStart[k] < loopStart[loopLevel]
    BY <1>3 DEF LoopsNest
  <2>2. loopStart'[k] \in 1 .. lineNum' - 1
    <3>1. loopStart[k] <= loopStart[loopLevel]
      BY <1>1, <1>5, <2>1
    <3> QED
      BY <1>2, <1>5, <2>1, <3>1
  <2>3. loopCounter[k] \in Nat /\ loopMax[k] \in Nat
    BY <1>1, ElementOfSeq
  <2>4. 1 <= loopCounter'[k] /\ (loopCounter'[k] <= loopMax'[k] \/ loopCounter'[k] = 1)
    BY <1>2, <1>4, <1>7, <2>1, <2>3
  <2> QED
    BY <1>2, <2>1, <2>2, <2>4
<1>9. \A j, k \in 1 .. loopLevel' : j < k => loopStart'[j] < loopStart'[k]
  BY <1>2 DEF LoopsNest
<1>10. LoopsNest'
  BY <1>1, <1>2, <1>7, <1>8, <1>9 DEF LoopsNest
<1> QED
  BY <1>1, <1>2, <1>6, <1>7, <1>10

\* Leaving a loop keeps the nesting of the others.
LEMMA LeaveNests ==
  ASSUME TypeOK, LoopsNest, loopLevel > 0, Leave, UNCHANGED script
  PROVE  /\ LoopsNest'
         /\ loopLevel' \in Nat
         /\ loopCounter' \in Seq(Nat) /\ loopMax' \in Seq(Nat) /\ loopStart' \in Seq(Nat)
<1>1. /\ loopLevel \in Nat /\ lineNum \in Nat
      /\ loopCounter \in Seq(Nat) /\ loopMax \in Seq(Nat) /\ loopStart \in Seq(Nat)
      /\ Len(loopCounter) = loopLevel /\ Len(loopMax) = loopLevel
      /\ Len(loopStart) = loopLevel
  BY LineNumNat DEF TypeOK, LoopsNest
<1>2. /\ loopCounter' = SubSeq(loopCounter, 1, loopLevel - 1)
      /\ loopMax' = SubSeq(loopMax, 1, loopLevel - 1)
      /\ loopStart' = SubSeq(loopStart, 1, loopLevel - 1)
      /\ loopLevel' = loopLevel - 1 /\ lineNum' = lineNum + 1 /\ script' = script
  BY <1>1 DEF Leave, Popped
<1>3. ASSUME NEW v \in Seq(Nat), Len(v) = loopLevel
      PROVE  LET w == SubSeq(v, 1, loopLevel - 1)
             IN  /\ w \in Seq(Nat) /\ Len(w) = loopLevel - 1
                 /\ \A k \in 1 .. loopLevel - 1 : w[k] = v[k]
  BY <1>1, <1>3, SubSeqProperties
<1>4. /\ loopLevel' \in Nat
      /\ loopCounter' \in Seq(Nat) /\ loopMax' \in Seq(Nat) /\ loopStart' \in Seq(Nat)
      /\ Len(loopCounter') = loopLevel' /\ Len(loopMax') = loopLevel'
      /\ Len(loopStart') = loopLevel'
  <2>1. loopCounter' \in Seq(Nat) /\ Len(loopCounter') = loopLevel - 1
    BY <1>1, <1>2, <1>3
  <2>2. loopMax' \in Seq(Nat) /\ Len(loopMax') = loopLevel - 1
    BY <1>1, <1>2, <1>3
  <2>3. loopStart' \in Seq(Nat) /\ Len(loopStart') = loopLevel - 1
    BY <1>1, <1>2, <1>3
  <2>4. loopLevel' = loopLevel - 1
    BY <1>2
  <2>5. loopLevel - 1 \in Nat
    BY <2>1
  <2> QED
    BY <2>1, <2>2, <2>3, <2>4, <2>5
<1>5. ASSUME NEW k \in 1 .. loopLevel'
      PROVE  /\ k \in 1 .. loopLevel
             /\ loopCounter'[k] = loopCounter[k] /\ loopMax'[k] = loopMax[k]
             /\ loopStart'[k] = loopStart[k]
  <2>1. k \in 1 .. loopLevel - 1 /\ k \in 1 .. loopLevel
    <3>1. loopLevel \in Nat /\ loopLevel' = loopLevel - 1
      BY <1>1, <1>2
    <3> QED
      BY <3>1
  <2>2. loopCounter'[k] = loopCounter[k]
    <3>1. SubSeq(loopCounter, 1, loopLevel - 1)[k] = loopCounter[k]
      BY <1>1, <1>3, <2>1
    <3> QED
      BY <1>2, <3>1
  <2>3. loopMax'[k] = loopMax[k]
    BY <1>1, <1>2, <1>3, <2>1
  <2>4. loopStart'[k] = loopStart[k]
    BY <1>1, <1>2, <1>3, <2>1
  <2> QED
    BY <2>1, <2>2, <2>3, <2>4
<1>6. ASSUME NEW k \in 1 .. loopLevel'
      PROVE  /\ loopStart'[k] \in 1 .. lineNum' - 1
             /\ Command(script'[loopStart'[k]]) = "BL"
             /\ loopMax'[k] = Times(script'[loopStart'[k]])
             /\ 1 <= loopCounter'[k]
             /\ loopCounter'[k] <= loopMax'[k] \/ loopCounter'[k] = 1
  <2>1. /\ loopStart[k] \in 1 .. lineNum - 1
        /\ Command(script[loopStart[k]]) = "BL"
        /\ loopMax[k] = Times(script[loopStart[k]])
        /\ 1 <= loopCounter[k]
        /\ loopCounter[k] <= loopMax[k] \/ loopCounter[k] = 1
    BY <1>5 DEF LoopsNest
  <2>2. loopStart'[k] \in 1 .. lineNum' - 1
    BY <1>1, <1>2, <1>5, <2>1
  <2> QED
    BY <1>2, <1>5, <2>1, <2>2
<1>7. \A j, k \in 1 .. loopLevel' : j < k => loopStart'[j] < loopStart'[k]
  BY <1>5 DEF LoopsNest
<1>8. LoopsNest'
  BY <1>4, <1>6, <1>7 DEF LoopsNest
<1> QED
  BY <1>4, <1>8

(* The bounds and types of everything but the loops, which the lemmas      *)
(* above are about, and the calls.                                         *)
LoopTypes ==
  /\ loopLevel \in Nat
  /\ loopCounter \in Seq(Nat) /\ loopMax \in Seq(Nat) /\ loopStart \in Seq(Nat)

OtherTypes ==
  /\ phase \in {"not called", "running", "returned"}
  /\ script \in Scripts
  /\ repeatNumber \in Repeats /\ repNum \in 0 .. repeatNumber
  /\ lineNum \in 1 .. Len(script) + 1
  /\ slot \in Slots /\ slotNumber \in Slots /\ firstSlot \in Slots
  /\ testReps \in Nat

\* The types, in parts.
LEMMA TypeParts == TypeOK <=> OtherTypes /\ LoopTypes /\ calls \in Seq(Calls)
BY DEF TypeOK, OtherTypes, LoopTypes, Calls

\* Every step keeps types and nesting.
LEMMA TypeNext ==
  ASSUME TypeOK, LoopsNest, [Next]_vars
  PROVE  TypeOK' /\ LoopsNest'
<1> USE DEF Stays, NoCalls, runVars
<1>1. OtherTypes /\ LoopTypes /\ calls \in Seq(Calls)
  BY TypeParts
<1>2. Len(script) \in Nat /\ lineNum \in Nat /\ repeatNumber \in Nat
  BY <1>1, LineNumNat, ScriptAssumption DEF OtherTypes
<1>3. SUFFICES OtherTypes' /\ LoopTypes' /\ calls' \in Seq(Calls) /\ LoopsNest'
  BY TypeParts DEF TypeOK, OtherTypes, LoopTypes, Calls, Places
<1>4. CASE UNCHANGED vars
  <2>1. LoopsNest'
    BY <1>2, <1>4, LoopsKept DEF vars, loopVars
  <2> QED
    BY <1>1, <1>4, <2>1 DEF vars, loopVars, OtherTypes, LoopTypes
<1>5. CASE Press
  <2>1. LoopsNest' /\ LoopTypes'
    BY <1>5, NoLoopsNest DEF Press, LoopTypes
  <2>2. calls' \in Seq(Calls)
    BY <1>5, EmptySeq DEF Press
  <2>3. 0 \in 0 .. repeatNumber /\ 1 \in 1 .. Len(script) + 1
    BY <1>2
  <2> QED
    BY <1>1, <1>5, <2>1, <2>2, <2>3 DEF Press, OtherTypes
<1>6. CASE Comment
  <2>1. lineNum' \in 1 .. Len(script) + 1 /\ slot' \in Slots
    BY <1>6, ReadsLine DEF Comment
  <2>2. LoopsNest'
    BY <1>2, <1>6, LoopsKept DEF Comment
  <2> QED
    BY <1>1, <1>6, <2>1, <2>2 DEF Comment, loopVars, OtherTypes, LoopTypes
<1>7. CASE EndOfRun
  <2>1. lineNum' \in 1 .. Len(script) + 1 /\ slot' \in Slots /\ lineNum' >= lineNum
    BY <1>2, <1>7, ReadsLine DEF EndOfRun, LinesEnd
  <2>2. LoopsNest'
    BY <1>2, <1>7, <2>1, LoopsKept DEF EndOfRun
  <2> QED
    BY <1>1, <1>7, <2>1, <2>2 DEF EndOfRun, loopVars, OtherTypes, LoopTypes
<1>8. CASE BeginLoop
  <2>1. lineNum' \in 1 .. Len(script) + 1 /\ slot' \in Slots
    BY <1>8, ReadsLine DEF BeginLoop, Opened
  <2>2. LoopsNest' /\ LoopTypes'
    BY <1>8, OpenedNests DEF BeginLoop, LoopTypes
  <2> QED
    BY <1>1, <1>8, <2>1, <2>2 DEF BeginLoop, OtherTypes
<1>9. CASE EndLoop
  <2>1. lineNum + 1 \in 1 .. Len(script) + 1 /\ slot' \in Slots
    BY <1>9, ReadsLine DEF EndLoop
  <2>2. CASE JumpBack
    <3>1. LoopsNest' /\ LoopTypes' /\ lineNum' \in 1 .. lineNum
      BY <1>9, <2>2, JumpBackNests DEF EndLoop, LoopTypes
    <3>2. lineNum' \in 1 .. Len(script) + 1
      BY <1>2, <2>1, <3>1
    <3> QED
      BY <1>1, <1>9, <2>1, <3>1, <3>2 DEF EndLoop, OtherTypes
  <2>3. CASE Leave
    <3>1. LoopsNest' /\ LoopTypes'
      BY <1>9, <2>3, LeaveNests DEF EndLoop, LoopTypes
    <3>2. lineNum' = lineNum + 1
      BY <2>3 DEF Leave
    <3> QED
      BY <1>1, <1>9, <2>1, <3>1, <3>2 DEF EndLoop, OtherTypes
  <2> QED
    BY <1>9, <2>2, <2>3 DEF EndLoop
<1>10. CASE Abort
  <2>1. slot' \in Slots
    BY <1>10, ReadsLine DEF Abort
  <2>2. LoopsNest'
    BY <1>2, <1>10, LoopsKept DEF Abort
  <2> QED
    BY <1>1, <1>10, <2>1, <2>2 DEF Abort, loopVars, OtherTypes, LoopTypes
<1>11. CASE DoCalls
  <2>1. /\ lineNum' \in 1 .. Len(script) + 1 /\ slot' \in Slots /\ testReps' \in Nat
        /\ lineNum' = lineNum + 1
    BY <1>11, ReadsLine DEF DoCalls
  <2>2. LoopsNest'
    BY <1>2, <1>11, <2>1, LoopsKept DEF DoCalls
  <2>3. calls' \in Seq(Calls)
    BY <1>1, <1>11, DoCallsFit, ConcatProperties DEF Fit
  <2>4. slotNumber' \in Slots
    BY <1>1, <1>11, <2>1 DEF DoCalls, OtherTypes
  <2> QED
    BY <1>1, <1>11, <2>1, <2>2, <2>3, <2>4 DEF DoCalls, loopVars, OtherTypes, LoopTypes
<1>12. CASE NextRepetition
  <2>1. LoopsNest' /\ LoopTypes'
    BY <1>12, NoLoopsNest DEF NextRepetition, LoopTypes
  <2>2. lineNum' \in 1 .. Len(script) + 1 /\ repNum' \in 0 .. repeatNumber
    BY <1>1, <1>2, <1>12 DEF NextRepetition, Running, OtherTypes
  <2> QED
    BY <1>1, <1>12, <2>1, <2>2 DEF NextRepetition, OtherTypes
<1>13. CASE Return
  <2>1. LoopsNest'
    BY <1>2, <1>13, LoopsKept DEF Return
  <2> QED
    BY <1>1, <1>13, <2>1 DEF Return, loopVars, OtherTypes, LoopTypes
<1>14. CASE \E s \in Slots : ChangeSlotNumber(s)
  <2>1. LoopsNest'
    BY <1>2, <1>14, LoopsKept DEF ChangeSlotNumber
  <2> QED
    BY <1>1, <1>14, <2>1 DEF ChangeSlotNumber, loopVars, OtherTypes, LoopTypes
<1> QED
  BY <1>4, <1>5, <1>6, <1>7, <1>8, <1>9, <1>10, <1>11, <1>12, <1>13, <1>14
     DEF Next, Respond

(* The type invariant of the interpreter and the nesting of its loops, for *)
(* every script: the vectors never get out of step, and no line but one    *)
(* after a BL is jumped to.                                                *)
THEOREM LoopsNested == Spec => [](TypeOK /\ LoopsNest)
<1>1. Init => TypeOK /\ LoopsNest
  BY TypeInit
<1>2. TypeOK /\ LoopsNest /\ [Next]_vars => (TypeOK /\ LoopsNest)'
  BY TypeNext
<1> QED
  BY <1>1, <1>2, PTL DEF Spec

(* Every reachable state of the interpreter and of Manager's slot has its  *)
(* type (ExecuteVMEDSL::respond).                                          *)
THEOREM TypeCorrect == Spec => []TypeOK
<1>1. TypeOK /\ LoopsNest => TypeOK
  OBVIOUS
<1> QED
  BY <1>1, LoopsNested, PTL

--------------------------------------------------------------------------------
(* Slots.                                                                  *)

(* While a script runs, Manager's slot is the one its calls so far have    *)
(* left it with.                                                           *)
SlotsFollow ==
  /\ phase = "running" => DefaultBefore(Len(calls) + 1, slotNumber)
  /\ SlotsAsWritten

(* Further calls that set no slot leave the default as it was.             *)
LEMMA DefaultExtends ==
  ASSUME NEW n \in Nat, NEW k \in 1 .. n + 1, NEW m \in Nat, NEW s,
         DefaultBefore(k, s), firstSlot' = firstSlot, m >= k,
         \A i \in 1 .. n : calls'[i] = calls[i],
         \A i \in k .. m - 1 : ~Sets(i)'
  PROVE  DefaultBefore(m, s)'
<1>1. CASE s = firstSlot /\ \A i \in 1 .. k - 1 : ~Sets(i)
  <2>1. \A i \in 1 .. m - 1 : ~Sets(i)'
    <3> SUFFICES ASSUME NEW i \in 1 .. m - 1 PROVE ~Sets(i)'
      OBVIOUS
    <3>1. CASE i \in 1 .. k - 1
      BY <1>1, <3>1 DEF Sets
    <3>2. CASE i \in k .. m - 1
      BY <3>2
    <3> QED
      BY <3>1, <3>2
  <2> QED
    BY <1>1, <2>1 DEF DefaultBefore
<1>2. CASE \E j \in 1 .. k - 1 : /\ Sets(j) /\ calls[j].where = s
                                /\ \A i \in j + 1 .. k - 1 : ~Sets(i)
  <2>1. PICK j \in 1 .. k - 1 : /\ Sets(j) /\ calls[j].where = s
                                /\ \A i \in j + 1 .. k - 1 : ~Sets(i)
    BY <1>2
  <2>2. j \in 1 .. n /\ j \in 1 .. m - 1
    OBVIOUS
  <2>3. Sets(j)' /\ calls'[j].where = s
    BY <2>1, <2>2 DEF Sets
  <2>4. \A i \in j + 1 .. m - 1 : ~Sets(i)'
    <3> SUFFICES ASSUME NEW i \in j + 1 .. m - 1 PROVE ~Sets(i)'
      OBVIOUS
    <3>1. CASE i \in j + 1 .. k - 1
      BY <2>1, <3>1 DEF Sets
    <3>2. CASE i \in k .. m - 1
      BY <3>2
    <3> QED
      BY <3>1, <3>2
  <2> QED
    BY <2>2, <2>3, <2>4 DEF DefaultBefore
<1> QED
  BY <1>1, <1>2 DEF DefaultBefore

(* Steps that call nothing, or nothing any more, keep the slots right.     *)
LEMMA SlotsKept ==
  ASSUME SlotsFollow, UNCHANGED <<script, firstSlot, calls>>,
         phase' = "running" => phase = "running" /\ UNCHANGED slotNumber
  PROVE  SlotsFollow'
BY DEF SlotsFollow, SlotsAsWritten, DefaultBefore, Sets

\* At the start no call has been made.
LEMMA SlotsInit == Init => SlotsFollow
<1> SUFFICES ASSUME Init PROVE SlotsFollow
  OBVIOUS
<1>1. phase = "not called" /\ calls = <<>>
  BY DEF Init
<1>2. DOMAIN calls = {}
  <2>1. DOMAIN <<>> = {}
    OBVIOUS
  <2> QED
    BY <1>1, <2>1
<1> QED
  BY <1>1, <1>2 DEF SlotsFollow, SlotsAsWritten

\* A new run has made no calls.
LEMMA SlotsPress == ASSUME Press PROVE SlotsFollow'
<1>1. calls' = <<>> /\ firstSlot' = slotNumber'
  BY DEF Press
<1>2. DOMAIN calls' = {} /\ Len(calls') = 0
  BY <1>1
<1>3. DefaultBefore(1, slotNumber)'
  BY <1>1 DEF DefaultBefore
<1> QED
  BY <1>2, <1>3 DEF SlotsFollow, SlotsAsWritten

\* The calls of a line are to its slot.
LEMMA SlotsCalls ==
  ASSUME TypeOK, SlotsFollow, DoCalls
  PROVE  SlotsFollow'
<1> DEFINE line == script[lineNum]
<1>0. calls \in Seq(Calls)
  BY TypeParts
<1>1. PICK n \in Nat : n = Len(calls)
  BY <1>0
<1>2. PICK c : calls' = calls \o c /\ Fit(c, line.word, slot', lineNum)
  BY DoCallsFit
<1>3. c \in Seq(Calls) /\ Len(c) \in Nat
  BY <1>2 DEF Fit
<1>4. /\ calls' \in Seq(Calls) /\ Len(calls') = n + Len(c)
      /\ \A i \in 1 .. n : calls'[i] = calls[i]
      /\ \A i \in 1 .. Len(c) : calls'[n + i] = c[i]
  BY <1>0, <1>1, <1>2, <1>3, ConcatProperties
<1>5. /\ phase = "running" /\ phase' = "running"
      /\ script' = script /\ firstSlot' = firstSlot
      /\ slot' = SlotFor(line)
      /\ slotNumber' = IF line.word = "SET_SLOT" THEN slot' ELSE slotNumber
  BY ReadsLine DEF DoCalls, Stays, runVars
<1>6. DefaultBefore(n + 1, slotNumber)
  BY <1>1, <1>5 DEF SlotsFollow
<1>7. PICK old : old = slotNumber
  OBVIOUS
<1>8. ASSUME NEW m \in 0 .. Len(c), line.word = "SET_SLOT" => m = 0
      PROVE  DefaultBefore(n + m + 1, old)'
  <2>1. \A i \in n + 1 .. (n + m + 1) - 1 : ~Sets(i)'
    <3> SUFFICES ASSUME NEW i \in n + 1 .. (n + m + 1) - 1 PROVE ~Sets(i)'
      OBVIOUS
    <3>1. i - n \in 1 .. Len(c) /\ n + (i - n) = i /\ m # 0
      BY <1>1, <1>3
    <3>2. calls'[i] = c[i - n] /\ c[i - n].op # "SET_SLOT"
      BY <1>2, <1>4, <1>8, <3>1 DEF Fit
    <3> QED
      BY <3>2 DEF Sets
  <2>2. n + 1 \in 1 .. n + 1 /\ n + m + 1 \in Nat /\ n + m + 1 >= n + 1
    BY <1>1, <1>3
  <2>3. DefaultBefore(n + 1, old)
    BY <1>6, <1>7
  <2> QED
    BY <1>1, <1>4, <1>5, <2>1, <2>2, <2>3, DefaultExtends
<1>9. ASSUME NEW k \in 1 .. n, NEW s, DefaultBefore(k, s)
      PROVE  DefaultBefore(k, s)'
  <2>1. k \in 1 .. n + 1 /\ k \in Nat /\ k >= k /\ k .. k - 1 = {}
    BY <1>1
  <2> QED
    BY <1>1, <1>4, <1>5, <1>9, <2>1, DefaultExtends
<1>10. SlotsAsWritten'
  <2> SUFFICES ASSUME NEW k \in DOMAIN calls',
                      calls'[k].where \in Slots
               PROVE  LET own == script'[calls'[k].line]
                      IN  IF TakesSlot(own.word) /\ own.number # NoNumber
                          THEN calls'[k].where = own.number
                          ELSE DefaultBefore(k, calls[k].where)'
    BY DEF SlotsAsWritten
  <2>1. k \in 1 .. n + Len(c)
    BY <1>4
  <2>2. PICK s : s = calls'[k].where
    OBVIOUS
  <2>3. CASE k \in 1 .. n
    <3>1. calls'[k] = calls[k] /\ k \in DOMAIN calls
      BY <1>0, <1>1, <1>4, <2>3
    <3>2. LET own == script[calls[k].line]
          IN  IF TakesSlot(own.word) /\ own.number # NoNumber
              THEN calls[k].where = own.number
              ELSE DefaultBefore(k, calls[k].where)
      BY <3>1 DEF SlotsFollow, SlotsAsWritten
    <3>3. DefaultBefore(k, s) => DefaultBefore(k, s)'
      BY <1>9, <2>3
    <3> QED
      BY <1>5, <2>2, <3>1, <3>2, <3>3 DEF DefaultBefore, Sets
  <2>4. CASE k \notin 1 .. n
    <3>1. k - n \in 1 .. Len(c) /\ n + (k - n) = k
      BY <1>1, <1>3, <2>1, <2>4
    <3>2. calls'[k] = c[k - n]
      BY <1>4, <3>1
    <3>3. calls'[k].line = lineNum /\ s = slot'
      BY <1>2, <2>2, <3>1, <3>2 DEF Fit
    <3>4. script'[calls'[k].line] = line
      BY <1>5, <3>3
    <3>5. CASE TakesSlot(line.word) /\ line.number # NoNumber
      <4>1. slot' = line.number
        BY <1>5, <3>5 DEF SlotFor, NumberOr
      <4> QED
        BY <2>2, <3>3, <3>4, <3>5, <4>1
    <3>6. CASE ~(TakesSlot(line.word) /\ line.number # NoNumber)
      <4>1. s = old
        BY <1>5, <1>7, <3>3, <3>6 DEF SlotFor, NumberOr, LoadSlot
      <4>2. (k - n) - 1 \in 0 .. Len(c) /\ n + ((k - n) - 1) + 1 = k
            /\ (line.word = "SET_SLOT" => (k - n) - 1 = 0)
        <5>1. line.word = "SET_SLOT" => Len(c) = 1
          BY <1>2 DEF Fit
        <5> HIDE DEF line
        <5>2. k - n \in Int /\ 1 <= k - n /\ k - n <= Len(c) /\ k \in Int
          BY <1>3, <2>1, <3>1, <1>1
        <5>3. (k - n) - 1 \in 0 .. Len(c) /\ n + ((k - n) - 1) + 1 = k
          BY <1>1, <1>3, <5>2
        <5>4. Len(c) = 1 => (k - n) - 1 = 0
          BY <5>2
        <5> QED
          BY <5>1, <5>3, <5>4
      <4>3. DefaultBefore(k, old)'
        BY <1>8, <4>2
      <4> QED
        BY <2>2, <3>4, <3>6, <4>1, <4>3 DEF DefaultBefore, Sets
    <3> QED
      BY <3>5, <3>6
  <2> QED
    BY <2>3, <2>4
<1>11. DefaultBefore(Len(calls) + 1, slotNumber)'
  <2>0. PICK set : set = slotNumber'
    OBVIOUS
  <2>1. CASE line.word = "SET_SLOT"
    <3>1. Len(calls') = n + 1 /\ n + 1 \in Nat /\ calls'[n + 1] = c[1]
          /\ c[1].op = "SET_SLOT" /\ c[1].where = set
      <4>1. /\ Len(c) = 1 /\ c[1].where = slot'
            /\ 1 \in 1 .. Len(c) /\ c[1].op = "SET_SLOT"
        <5>1. Len(c) = 1 /\ c[1].where = slot'
          BY <1>2, <2>1 DEF Fit
        <5>2. 1 \in 1 .. Len(c)
          BY <5>1
        <5>3. c[1].op = "SET_SLOT"
          BY <1>2, <2>1, <5>2 DEF Fit
        <5> QED
          BY <5>1, <5>2, <5>3
      <4>2. slot' = set
        BY <1>5, <2>0, <2>1
      <4>3. calls'[n + 1] = c[1] /\ Len(calls') = n + 1
        BY <1>4, <4>1
      <4> QED
        BY <4>1, <4>2, <4>3
    <3>2. n + 1 \in 1 .. (n + 2) - 1 /\ (n + 1) + 1 .. (n + 2) - 1 = {}
      BY <1>1
    <3>3. Sets(n + 1)' /\ calls'[n + 1].where = set
      BY <3>1 DEF Sets
    <3>4. DefaultBefore(n + 2, set)'
      BY <3>2, <3>3 DEF DefaultBefore, Sets
    <3>5. Len(calls') + 1 = n + 2
      BY <3>1
    <3> QED
      BY <2>0, <3>4, <3>5 DEF DefaultBefore, Sets
  <2>2. CASE line.word # "SET_SLOT"
    <3>1. slotNumber' = old /\ Len(c) \in 0 .. Len(c)
      BY <1>3, <1>5, <1>7, <2>2
    <3>2. DefaultBefore(n + Len(c) + 1, old)'
      BY <1>8, <2>2, <3>1
    <3> QED
      BY <1>4, <3>1, <3>2 DEF DefaultBefore, Sets
  <2> QED
    BY <2>1, <2>2
<1> QED
  BY <1>10, <1>11 DEF SlotsFollow

\* Every step keeps that calls go to the slots as written.
LEMMA SlotsNext ==
  ASSUME TypeOK, SlotsFollow, [Next]_vars
  PROVE  SlotsFollow'
<1> USE DEF Stays, NoCalls, runVars
<1>1. CASE UNCHANGED vars
  BY <1>1, SlotsKept DEF vars
<1>2. CASE Press
  BY <1>2, SlotsPress
<1>3. CASE DoCalls
  BY <1>3, SlotsCalls
<1>4. CASE Comment \/ EndOfRun \/ BeginLoop \/ EndLoop
  BY <1>4, SlotsKept DEF Comment, EndOfRun, BeginLoop, EndLoop
<1>5. CASE Abort
  BY <1>5, SlotsKept DEF Abort
<1>6. CASE NextRepetition
  BY <1>6, SlotsKept DEF NextRepetition
<1>7. CASE Return
  BY <1>7, SlotsKept DEF Return
<1>8. CASE \E s \in Slots : ChangeSlotNumber(s)
  BY <1>8, SlotsKept DEF ChangeSlotNumber
<1> QED
  BY <1>1, <1>2, <1>3, <1>4, <1>5, <1>6, <1>7, <1>8 DEF Next, Respond

(* Every call goes to the slot that its line or the last SET_SLOT gives,   *)
(* whatever the script and however its loops jump.                         *)
THEOREM SlotsRight == Spec => []SlotsAsWritten
<1>1. Init => TypeOK /\ LoopsNest /\ SlotsFollow
  BY TypeInit, SlotsInit
<1>2. TypeOK /\ LoopsNest /\ SlotsFollow /\ [Next]_vars
      => (TypeOK /\ LoopsNest /\ SlotsFollow)'
  BY TypeNext, SlotsNext
<1>3. SlotsFollow => SlotsAsWritten
  BY DEF SlotsFollow
<1> QED
  BY <1>1, <1>2, <1>3, PTL DEF Spec
================================================================================
