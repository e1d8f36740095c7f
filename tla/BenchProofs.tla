---------------------------- MODULE BenchProofs ----------------------------
(***************************************************************************)
(* Proofs about the test stand, for any number of inputs, widths of        *)
(* counters and numbers of repetitions, and for any sessions.              *)
(***************************************************************************)
EXTENDS Bench, SequenceTheorems, FiniteSetTheorems, WellFoundedInduction, TLAPS

(***************************************************************************)
(* Induction over a set of numbers, and functions defined step by step.    *)
(***************************************************************************)

\* A set of numbers that is not empty has a least one.
LEMMA LeastNumber ==
  ASSUME NEW T \in SUBSET Nat, T # {}
  PROVE  \E n \in T : \A m \in T : n <= m
<1>1. PICK n \in T : \A m \in T : ~ (<<m, n>> \in OpToRel(<, Nat))
  BY NatLessThanWellFounded, WFMin
<1>2. n \in Nat /\ \A m \in T : m \in Nat
  OBVIOUS
<1>3. \A m \in T : m < n => <<m, n>> \in OpToRel(<, Nat)
  BY <1>2 DEF OpToRel
<1>4. \A m \in T : ~ (m < n)
  BY <1>1, <1>3
<1> QED
  BY <1>2, <1>4

\* What holds of 0 and of the next number holds of all numbers up to n.
LEMMA UpTo ==
  ASSUME NEW n \in Nat, NEW T, 0 \in T, \A i \in 1 .. n : i - 1 \in T => i \in T
  PROVE  \A i \in 0 .. n : i \in T
<1> DEFINE F == {i \in 0 .. n : i \notin T}
<1>1. CASE F = {}
  BY <1>1
<1>2. CASE F # {}
  <2>1. F \in SUBSET Nat
    OBVIOUS
  <2>2. PICK i \in F : \A j \in F : i <= j
    BY <1>2, <2>1, LeastNumber
  <2>3. i \in 1 .. n /\ i - 1 \in 0 .. n
    BY <2>2
  <2>4. i - 1 \notin F
    BY <2>2, <2>3
  <2> QED
    BY <2>2, <2>3, <2>4
<1> QED
  BY <1>1, <1>2

\* op[x][i] is what step i makes of x. The function that AfterSteps goes by
\* exists, if no step leaves S.
Closed(op, S, n) == \A x \in S, i \in 1 .. n : op[x][i] \in S
Walks(g, op, first, n) == g[0] = first /\ \A i \in 1 .. n : g[i] = op[g[i - 1]][i]

\* A closed step can be repeated n times: the states after each are a
\* function.
LEMMA StepsExist ==
  ASSUME NEW S, NEW first \in S, NEW n \in Nat, NEW op, Closed(op, S, n)
  PROVE  \E g \in [0 .. n -> S] : Walks(g, op, first, n)
<1> DEFINE Good(g, m) ==
      /\ g \in [0 .. m -> S]
      /\ \A i \in 0 .. m : g[i] = IF i = 0 THEN first ELSE op[g[i - 1]][i]
    T == {m \in 0 .. n : \E g : Good(g, m)}
<1>1. 0 \in T
  <2> DEFINE g == [i \in 0 .. 0 |-> first]
  <2>1. g \in [0 .. 0 -> S] /\ g[0] = first
    OBVIOUS
  <2> HIDE DEF g
  <2>2. Good(g, 0)
    BY <2>1
  <2> HIDE DEF Good
  <2> QED
    BY <2>2
<1>2. ASSUME NEW m \in 1 .. n, m - 1 \in T PROVE m \in T
  <2>1. PICK f : Good(f, m - 1)
    BY <1>2
  <2> DEFINE g == [i \in 0 .. m |-> IF i = m THEN op[f[m - 1]][m] ELSE f[i]]
  <2>2. f[m - 1] \in S /\ op[f[m - 1]][m] \in S
    BY <2>1 DEF Closed
  <2>3. g \in [0 .. m -> S]
    BY <2>1, <2>2
  <2>4. ASSUME NEW i \in 0 .. m
        PROVE  g[i] = IF i = 0 THEN first ELSE op[g[i - 1]][i]
    <3>1. CASE i = m
      <4>1. g[m - 1] = f[m - 1] /\ g[m] = op[f[m - 1]][m]
        OBVIOUS
      <4> HIDE DEF g
      <4> QED
        BY <3>1, <4>1
    <3>2. CASE i # m
      <4>1. i \in 0 .. m - 1 /\ g[i] = f[i]
        BY <3>2
      <4>2. i # 0 => i - 1 \in 0 .. m /\ i - 1 # m /\ g[i - 1] = f[i - 1]
        BY <3>2
      <4> QED
        BY <2>1, <4>1, <4>2
    <3> QED
      BY <3>1, <3>2
  <2>5. Good(g, m)
    BY <2>3, <2>4
  <2> HIDE DEF Good
  <2> QED
    BY <2>5
<1> HIDE DEF T
<1>3. n \in T
  <2>1. \A i \in 1 .. n : i - 1 \in T => i \in T
    BY <1>2
  <2>2. \A i \in 0 .. n : i \in T
    BY <1>1, <2>1, UpTo
  <2> QED
    BY <2>2
<1> HIDE DEF Good
<1>4. PICK g : Good(g, n)
  BY <1>3 DEF T
<1>5. g[0] = first /\ \A i \in 1 .. n : g[i] = op[g[i - 1]][i]
  <2>1. 0 \in 0 .. n /\ \A i \in 1 .. n : i \in 0 .. n /\ i # 0
    OBVIOUS
  <2> QED
    BY <1>4, <2>1 DEF Good
<1> QED
  BY <1>4, <1>5 DEF Good, Walks

\* With a function that takes each step there is the one that is used.
LEMMA StepsTaken ==
  ASSUME NEW S, NEW n \in Nat, NEW h, h[0] \in S,
         \A i \in 1 .. n : h[i - 1] \in S => h[i] \in S
  PROVE  \A i \in 0 .. n : h[i] \in S
<1> DEFINE T == {i \in 0 .. n : h[i] \in S}
<1>1. 0 \in T
  OBVIOUS
<1>2. \A i \in 1 .. n : i - 1 \in T => i \in T
  OBVIOUS
<1>3. \A i \in 0 .. n : i \in T
  BY <1>1, <1>2, UpTo
<1> QED
  BY <1>3

(***************************************************************************)
(* Scans of the JTAG chain.                                                *)
(***************************************************************************)
ChainStates ==
  [at : {"idle", "IR", "DR", "lost"}, bits : Nat, first : JtagWords \cup {"none"},
   ir : JtagWords \cup {"none", "other"}, sel : JtagWords \cup {"none"},
   out : JtagWords \cup {"none", "junk", "low half", "high half"}]

VmeCommands == [reg : {"IR", "DR"}, bits : Nat, head : BOOLEAN, tail : BOOLEAN, word : JtagWords]

\* A shift leaves the chain in a state of the chain.
LEMMA ShiftType ==
  ASSUME NEW k, NEW chain \in ChainStates, NEW c \in VmeCommands
  PROVE  Shift(k, chain, c) \in ChainStates
<1> DEFINE from == IF c.head THEN 0 ELSE chain.bits
           first == IF c.head THEN c.word ELSE chain.first
           bits == from + c.bits
<1>1. from \in Nat /\ first \in JtagWords \cup {"none"} /\ bits \in Nat
  <2>1. /\ chain.bits \in Nat /\ chain.first \in JtagWords \cup {"none"}
        /\ c.bits \in Nat /\ c.word \in JtagWords \cup {"none"} /\ c.head \in BOOLEAN
    BY DEF ChainStates, VmeCommands
  <2> QED
    BY <2>1
<1>2. Output(k, chain, from, c.bits) \in JtagWords \cup {"none", "junk", "low half", "high half"}
  BY DEF Output, ChainStates
<1>3. Instruction(k, first, bits) \in JtagWords \cup {"none", "other"}
  BY <1>1 DEF Instruction, JtagWords
<1>4. CASE ~Fits(chain, c)
  BY <1>4 DEF Shift, ChainStates
<1>5. CASE Fits(chain, c) /\ ~c.tail
  BY <1>1, <1>2, <1>5 DEF Shift, ChainStates, VmeCommands
<1>6. CASE Fits(chain, c) /\ c.tail
  BY <1>1, <1>2, <1>3, <1>6 DEF Shift, ChainStates
<1> QED
  BY <1>4, <1>5, <1>6 DEF VmeCommands

\* A scan is a sequence of shifts.
ScanBy(g, k, chain, s) ==
    /\ g \in [0 .. Len(s) -> ChainStates]
    /\ g[0] = chain
    /\ \A i \in 1 .. Len(s) : g[i] = Shift(k, g[i - 1], s[i])
    /\ Scan(k, chain, s) = g[Len(s)]

\* The states of the chain after each command of a scan are a function.
LEMMA ScanSteps ==
  ASSUME NEW k, NEW chain \in ChainStates, NEW s \in Seq(VmeCommands)
  PROVE  \E g : ScanBy(g, k, chain, s)
<1> DEFINE op == [x \in ChainStates |-> [i \in 1 .. Len(s) |-> Shift(k, x, s[i])]]
           F(f) == [i \in 0 .. Len(s) |-> IF i = 0 THEN chain ELSE Shift(k, f[i - 1], s[i])]
           h == CHOOSE f : f = F(f)
<1>1. Closed(op, ChainStates, Len(s))
  BY ShiftType DEF Closed
<1>2. Len(s) \in Nat
  OBVIOUS
<1>3. \A x \in ChainStates, i \in 1 .. Len(s) : op[x][i] = Shift(k, x, s[i])
  OBVIOUS
<1> HIDE DEF op
<1>4. PICK g \in [0 .. Len(s) -> ChainStates] : Walks(g, op, chain, Len(s))
  BY <1>1, <1>2, StepsExist
<1>5. g = F(g)
  <2>1. ASSUME NEW i \in 1 .. Len(s) PROVE g[i] = Shift(k, g[i - 1], s[i])
    <3>1. g[i - 1] \in ChainStates
      BY <1>2
    <3>2. g[i] = op[g[i - 1]][i]
      BY <1>4 DEF Walks
    <3> QED
      BY <1>3, <3>1, <3>2
  <2>2. \A i \in 0 .. Len(s) : g[i] = IF i = 0 THEN chain ELSE Shift(k, g[i - 1], s[i])
    BY <1>2, <1>4, <2>1 DEF Walks
  <2>3. g = [i \in 0 .. Len(s) |-> g[i]]
    OBVIOUS
  <2> QED
    BY <2>2, <2>3
<1>6. h = F(h)
  BY <1>5
<1>7. Scan(k, chain, s) = h[Len(s)]
  BY DEF Scan, AfterSteps
<1> HIDE DEF h
<1>8. h[0] = chain /\ \A i \in 1 .. Len(s) : h[i] = Shift(k, h[i - 1], s[i])
  BY <1>2, <1>6
<1>9. \A i \in 0 .. Len(s) : h[i] \in ChainStates
  <2>1. \A i \in 1 .. Len(s) : h[i - 1] \in ChainStates => h[i] \in ChainStates
    BY <1>8, ShiftType
  <2> QED
    BY <1>2, <1>8, <2>1, StepsTaken
<1>10. h \in [0 .. Len(s) -> ChainStates]
  BY <1>6, <1>9
<1> QED
  BY <1>7, <1>8, <1>10 DEF ScanBy

\* A scan of two parts is one after the other.
LEMMA ScanConcat ==
  ASSUME NEW k, NEW chain \in ChainStates,
         NEW s \in Seq(VmeCommands), NEW t \in Seq(VmeCommands)
  PROVE  /\ Scan(k, chain, s) \in ChainStates
         /\ Scan(k, chain, s \o t) = Scan(k, Scan(k, chain, s), t)
<1>1. PICK g : ScanBy(g, k, chain, s)
  BY ScanSteps
<1>2. Len(s) \in Nat /\ Len(t) \in Nat
  OBVIOUS
<1>3. g[Len(s)] \in ChainStates
  BY <1>1, <1>2 DEF ScanBy
<1>4. PICK h : ScanBy(h, k, g[Len(s)], t)
  BY <1>3, ScanSteps
<1> DEFINE u == s \o t
<1>5. /\ u \in Seq(VmeCommands) /\ Len(u) = Len(s) + Len(t)
      /\ \A i \in 1 .. Len(s) : u[i] = s[i]
      /\ \A i \in 1 .. Len(t) : u[Len(s) + i] = t[i]
  OBVIOUS
<1> HIDE DEF u
<1>6. PICK f : ScanBy(f, k, chain, u)
  BY <1>5, ScanSteps
<1> DEFINE T == {i \in 0 .. Len(s) : f[i] = g[i]}
           U == {i \in 0 .. Len(t) : f[Len(s) + i] = h[i]}
<1>7. \A i \in 0 .. Len(s) : i \in T
  <2>1. 0 \in T
    BY <1>1, <1>2, <1>6 DEF ScanBy
  <2>2. ASSUME NEW i \in 1 .. Len(s), i - 1 \in T PROVE i \in T
    <3>1. i \in 1 .. Len(u) /\ i \in 0 .. Len(s)
      BY <1>2, <1>5
    <3>2. f[i] = Shift(k, f[i - 1], u[i]) /\ u[i] = s[i] /\ f[i - 1] = g[i - 1]
      BY <1>5, <1>6, <2>2, <3>1 DEF ScanBy
    <3> QED
      BY <1>1, <3>1, <3>2 DEF ScanBy
  <2> HIDE DEF T
  <2> QED
    BY <1>2, <2>1, <2>2, UpTo
<1>8. f[Len(s)] = g[Len(s)]
  BY <1>2, <1>7
<1>9. \A i \in 0 .. Len(t) : i \in U
  <2>1. 0 \in U
    BY <1>2, <1>4, <1>8 DEF ScanBy
  <2>2. ASSUME NEW i \in 1 .. Len(t), i - 1 \in U PROVE i \in U
    <3>1. Len(s) + i \in 1 .. Len(u) /\ i \in 0 .. Len(t) /\ Len(s) + i - 1 = Len(s) + (i - 1)
      BY <1>2, <1>5
    <3>2. f[Len(s) + i] = Shift(k, f[Len(s) + i - 1], u[Len(s) + i])
      BY <1>6, <3>1 DEF ScanBy
    <3>3. u[Len(s) + i] = t[i] /\ f[Len(s) + (i - 1)] = h[i - 1]
      BY <1>5, <2>2
    <3> QED
      BY <1>4, <3>1, <3>2, <3>3 DEF ScanBy
  <2> HIDE DEF U
  <2> QED
    BY <1>2, <2>1, <2>2, UpTo
<1>10. f[Len(u)] = h[Len(t)]
  BY <1>2, <1>5, <1>9
<1>11. Scan(k, chain, s) = g[Len(s)] /\ Scan(k, g[Len(s)], t) = h[Len(t)] /\ Scan(k, chain, u) = f[Len(u)]
  BY <1>1, <1>4, <1>6 DEF ScanBy
<1> QED
  BY <1>3, <1>10, <1>11 DEF u

\* A scan of one command.
LEMMA ScanOne ==
  ASSUME NEW k, NEW chain \in ChainStates, NEW c \in VmeCommands
  PROVE  Scan(k, chain, <<c>>) = Shift(k, chain, c)
<1>1. <<c>> \in Seq(VmeCommands) /\ Len(<<c>>) = 1 /\ <<c>>[1] = c
  OBVIOUS
<1>2. PICK g : ScanBy(g, k, chain, <<c>>)
  BY <1>1, ScanSteps
<1>3. g[0] = chain /\ g[1] = Shift(k, g[1 - 1], <<c>>[1]) /\ Scan(k, chain, <<c>>) = g[1]
  BY <1>1, <1>2 DEF ScanBy
<1> QED
  BY <1>1, <1>3

\* The chain between two scans, and in one.
Between(ir, sel, out) ==
  [at |-> "idle", bits |-> 0, first |-> "none", ir |-> ir, sel |-> sel, out |-> out]
Within(reg, bits, first, ir, sel, out) ==
  [at |-> reg, bits |-> bits, first |-> first, ir |-> ir, sel |-> sel, out |-> out]

Irs == JtagWords \cup {"none", "other"}
Sels == JtagWords \cup {"none"}
Outs == JtagWords \cup {"none", "junk", "low half", "high half"}

\* A shift out of either state, of an instruction or of data.
ShiftsTo(k, chain, c, next) == Shift(k, chain, c) = next

\* A command with a header begins an instruction.
LEMMA OpensIR ==
  ASSUME NEW k, NEW ir, NEW sel, NEW out, NEW word, NEW n \in Nat
  PROVE  ShiftsTo(k, Between(ir, sel, out), Cmd("IR", n, TRUE, FALSE, word),
                  Within("IR", n, word, ir, sel, out))
<1> DEFINE c == Cmd("IR", n, TRUE, FALSE, word)
           b == Between(ir, sel, out)
<1>1. /\ c.reg = "IR" /\ c.bits = n /\ c.head = TRUE /\ c.tail = FALSE /\ c.word = word
      /\ b.at = "idle" /\ b.bits = 0 /\ b.ir = ir /\ b.sel = sel /\ b.out = out
  BY DEF Cmd, Between, Within
<1> HIDE DEF c, b
<1>2. Fits(b, c)
  BY <1>1 DEF Fits
<1>3. Shift(k, b, c)
        = Within("IR", n, word, ir, sel, out)
  BY <1>1, <1>2 DEF Shift, Between, Within
<1> QED
  BY <1>3 DEF b, c, ShiftsTo

\* A command without header and trailer adds its bits to the instruction.
LEMMA GoesOnIR ==
  ASSUME NEW k, NEW ir, NEW sel, NEW out, NEW first, NEW word, NEW m \in Nat, NEW n \in Nat
  PROVE  ShiftsTo(k, Within("IR", m, first, ir, sel, out), Cmd("IR", n, FALSE, FALSE, word),
                  Within("IR", m + n, first, ir, sel, out))
<1> DEFINE c == Cmd("IR", n, FALSE, FALSE, word)
           b == Within("IR", m, first, ir, sel, out)
<1>1. /\ c.reg = "IR" /\ c.bits = n /\ c.head = FALSE /\ c.tail = FALSE /\ c.word = word
      /\ b.at = "IR" /\ b.bits = m /\ b.first = first /\ b.ir = ir /\ b.sel = sel /\ b.out = out
  BY DEF Cmd, Between, Within
<1> HIDE DEF c, b
<1>2. Fits(b, c)
  BY <1>1 DEF Fits
<1>3. Shift(k, b, c)
        = Within("IR", m + n, first, ir, sel, out)
  BY <1>1, <1>2 DEF Shift, Between, Within
<1> QED
  BY <1>3 DEF b, c, ShiftsTo

\* A trailer loads the instruction that its bits make.
LEMMA ClosesIR ==
  ASSUME NEW k, NEW ir, NEW sel, NEW out, NEW first, NEW word, NEW m \in Nat, NEW n \in Nat
  PROVE  ShiftsTo(k, Within("IR", m, first, ir, sel, out), Cmd("IR", n, FALSE, TRUE, word),
                  Between(Instruction(k, first, m + n), sel, out))
<1> DEFINE c == Cmd("IR", n, FALSE, TRUE, word)
           b == Within("IR", m, first, ir, sel, out)
<1>1. /\ c.reg = "IR" /\ c.bits = n /\ c.head = FALSE /\ c.tail = TRUE /\ c.word = word
      /\ b.at = "IR" /\ b.bits = m /\ b.first = first /\ b.ir = ir /\ b.sel = sel /\ b.out = out
  BY DEF Cmd, Between, Within
<1> HIDE DEF c, b
<1>2. Fits(b, c)
  BY <1>1 DEF Fits
<1>3. Shift(k, b, c)
        = Between(Instruction(k, first, m + n), sel, out)
  BY <1>1, <1>2 DEF Shift, Between, Within
<1> QED
  BY <1>3 DEF b, c, ShiftsTo

\* A command with header and trailer loads an instruction at once.
LEMMA WholeIR ==
  ASSUME NEW k, NEW ir, NEW sel, NEW out, NEW word, NEW n \in Nat
  PROVE  ShiftsTo(k, Between(ir, sel, out), Cmd("IR", n, TRUE, TRUE, word),
                  Between(Instruction(k, word, n), sel, out))
<1> DEFINE c == Cmd("IR", n, TRUE, TRUE, word)
           b == Between(ir, sel, out)
<1>1. /\ c.reg = "IR" /\ c.bits = n /\ c.head = TRUE /\ c.tail = TRUE /\ c.word = word
      /\ b.at = "idle" /\ b.bits = 0 /\ b.ir = ir /\ b.sel = sel /\ b.out = out
  BY DEF Cmd, Between, Within
<1> HIDE DEF c, b
<1>2. Fits(b, c)
  BY <1>1 DEF Fits
<1>3. Shift(k, b, c)
        = Between(Instruction(k, word, n), sel, out)
  BY <1>1, <1>2 DEF Shift, Between, Within
<1> QED
  BY <1>3 DEF b, c, ShiftsTo

\* A command with a header begins a data scan; its first bits come out.
LEMMA OpensDR ==
  ASSUME NEW k, NEW ir, NEW sel, NEW out, NEW word, NEW n \in Nat
  PROVE  ShiftsTo(k, Between(ir, sel, out), Cmd("DR", n, TRUE, FALSE, word),
                  Within("DR", n, word, ir, sel,
                          IF n > 4 THEN Output(k, Between(ir, sel, out), 0, n) ELSE out))
<1> DEFINE c == Cmd("DR", n, TRUE, FALSE, word)
           b == Between(ir, sel, out)
<1>1. /\ c.reg = "DR" /\ c.bits = n /\ c.head = TRUE /\ c.tail = FALSE /\ c.word = word
      /\ b.at = "idle" /\ b.bits = 0 /\ b.ir = ir /\ b.sel = sel /\ b.out = out
  BY DEF Cmd, Between, Within
<1> HIDE DEF c, b
<1>2. Fits(b, c)
  BY <1>1 DEF Fits
<1>3. Shift(k, b, c)
        = Within("DR", n, word, ir, sel,
            IF n > 4 THEN Output(k, b, 0, n) ELSE out)
  BY <1>1, <1>2 DEF Shift, Between, Within
<1> QED
  BY <1>3 DEF b, c, ShiftsTo

\* A command without header and trailer moves the data on.
LEMMA GoesOnDR ==
  ASSUME NEW k, NEW ir, NEW sel, NEW out, NEW first, NEW word, NEW m \in Nat, NEW n \in Nat
  PROVE  ShiftsTo(k, Within("DR", m, first, ir, sel, out), Cmd("DR", n, FALSE, FALSE, word),
                  Within("DR", m + n, first, ir, sel,
                          IF n > 4 THEN Output(k, Within("DR", m, first, ir, sel, out), m, n) ELSE out))
<1> DEFINE c == Cmd("DR", n, FALSE, FALSE, word)
           b == Within("DR", m, first, ir, sel, out)
<1>1. /\ c.reg = "DR" /\ c.bits = n /\ c.head = FALSE /\ c.tail = FALSE /\ c.word = word
      /\ b.at = "DR" /\ b.bits = m /\ b.first = first /\ b.ir = ir /\ b.sel = sel /\ b.out = out
  BY DEF Cmd, Between, Within
<1> HIDE DEF c, b
<1>2. Fits(b, c)
  BY <1>1 DEF Fits
<1>3. Shift(k, b, c)
        = Within("DR", m + n, first, ir, sel,
            IF n > 4 THEN Output(k, b, m, n) ELSE out)
  BY <1>1, <1>2 DEF Shift, Between, Within
<1> QED
  BY <1>3 DEF b, c, ShiftsTo

\* A trailer ends the data scan, and selects what has been shifted in.
LEMMA ClosesDR ==
  ASSUME NEW k, NEW ir, NEW sel, NEW out, NEW first, NEW word, NEW m \in Nat, NEW n \in Nat
  PROVE  ShiftsTo(k, Within("DR", m, first, ir, sel, out), Cmd("DR", n, FALSE, TRUE, word),
                  Between(ir, IF ir = "Select" /\ m + n = 8 + Others(k) THEN first ELSE sel,
                          IF n > 4 THEN Output(k, Within("DR", m, first, ir, sel, out), m, n) ELSE out))
<1> DEFINE c == Cmd("DR", n, FALSE, TRUE, word)
           b == Within("DR", m, first, ir, sel, out)
<1>1. /\ c.reg = "DR" /\ c.bits = n /\ c.head = FALSE /\ c.tail = TRUE /\ c.word = word
      /\ b.at = "DR" /\ b.bits = m /\ b.first = first /\ b.ir = ir /\ b.sel = sel /\ b.out = out
  BY DEF Cmd, Between, Within
<1> HIDE DEF c, b
<1>2. Fits(b, c)
  BY <1>1 DEF Fits
<1>3. Shift(k, b, c)
        = Between(ir, IF ir = "Select" /\ m + n = 8 + Others(k) THEN first ELSE sel,
            IF n > 4 THEN Output(k, b, m, n) ELSE out)
  BY <1>1, <1>2 DEF Shift, Between, Within
<1> QED
  BY <1>3 DEF b, c, ShiftsTo

\* A command with header and trailer is a data scan of its own.
LEMMA WholeDR ==
  ASSUME NEW k, NEW ir, NEW sel, NEW out, NEW word, NEW n \in Nat
  PROVE  ShiftsTo(k, Between(ir, sel, out), Cmd("DR", n, TRUE, TRUE, word),
                  Between(ir, IF ir = "Select" /\ n = 8 + Others(k) THEN word ELSE sel,
                          IF n > 4 THEN Output(k, Between(ir, sel, out), 0, n) ELSE out))
<1> DEFINE c == Cmd("DR", n, TRUE, TRUE, word)
           b == Between(ir, sel, out)
<1>1. /\ c.reg = "DR" /\ c.bits = n /\ c.head = TRUE /\ c.tail = TRUE /\ c.word = word
      /\ b.at = "idle" /\ b.bits = 0 /\ b.ir = ir /\ b.sel = sel /\ b.out = out
  BY DEF Cmd, Between, Within
<1> HIDE DEF c, b
<1>2. Fits(b, c)
  BY <1>1 DEF Fits
<1>3. Shift(k, b, c)
        = Between(ir, IF ir = "Select" /\ n = 8 + Others(k) THEN word ELSE sel,
            IF n > 4 THEN Output(k, b, 0, n) ELSE out)
  BY <1>1, <1>2 DEF Shift, Between, Within
<1> QED
  BY <1>3 DEF b, c, ShiftsTo

\* What leaves the chain.
LEMMA Outputs ==
  ASSUME NEW k, NEW chain, NEW m \in Nat, NEW n \in Nat
  PROVE  /\ chain.ir = "UserCode" /\ m = 16 /\ n = 16 => Output(k, chain, m, n) = "high half"
         /\ chain.ir = "Value" /\ m = 0 => Output(k, chain, m, n) = chain.sel
         /\ chain.ir \notin {"Value", "UserCode"} => Output(k, chain, m, n) = "junk"
<1>1. chain.ir = "UserCode" /\ m = 16 /\ n = 16 => Output(k, chain, m, n) = "high half"
  BY DEF Output
<1>2. chain.ir = "Value" /\ m = 0 => Output(k, chain, m, n) = chain.sel
  BY DEF Output
<1>3. chain.ir \notin {"Value", "UserCode"} => Output(k, chain, m, n) = "junk"
  BY DEF Output
<1> QED
  BY <1>1, <1>2, <1>3

\* The states in which a scan may be are states of the chain.
LEMMA StatesTyped ==
  ASSUME NEW ir \in Irs, NEW sel \in Sels, NEW out \in Outs
  PROVE  /\ Between(ir, sel, out) \in ChainStates
         /\ \A reg \in {"IR", "DR"}, m \in Nat, first \in Sels :
              Within(reg, m, first, ir, sel, out) \in ChainStates
<1>1. Between(ir, sel, out) \in ChainStates
  BY DEF Between, ChainStates, Irs, Sels, Outs
<1>2. ASSUME NEW reg \in {"IR", "DR"}, NEW m \in Nat, NEW first \in Sels
      PROVE  Within(reg, m, first, ir, sel, out) \in ChainStates
  BY DEF Within, ChainStates, Irs, Sels, Outs
<1> QED
  BY <1>1, <1>2

\* What the wrapper sends are commands.
LEMMA CmdTyped ==
  ASSUME NEW reg \in {"IR", "DR"}, NEW n \in Nat, NEW head \in BOOLEAN, NEW tail \in BOOLEAN,
         NEW word \in JtagWords
  PROVE  Cmd(reg, n, head, tail, word) \in VmeCommands
  BY DEF Cmd, VmeCommands

\* Scans, one after the other.
ScansTo(k, chain, s, next) ==
  s \in Seq(VmeCommands) /\ chain \in ChainStates /\ next \in ChainStates /\ Scan(k, chain, s) = next

\* Scans follow one another.
LEMMA ScanThen ==
  ASSUME NEW k, NEW a, NEW b, NEW c, NEW s, NEW t, ScansTo(k, a, s, b), ScansTo(k, b, t, c)
  PROVE  ScansTo(k, a, s \o t, c)
<1>1. s \in Seq(VmeCommands) /\ t \in Seq(VmeCommands) /\ a \in ChainStates
  BY DEF ScansTo
<1>2. s \o t \in Seq(VmeCommands)
  BY <1>1
<1>3. Scan(k, a, s \o t) = Scan(k, Scan(k, a, s), t)
  BY <1>1, ScanConcat
<1> QED
  BY <1>2, <1>3 DEF ScansTo

\* A single command is a scan.
LEMMA ScanFirst ==
  ASSUME NEW k, NEW a \in ChainStates, NEW b, NEW c \in VmeCommands, ShiftsTo(k, a, c, b)
  PROVE  ScansTo(k, a, <<c>>, b)
<1>1. Scan(k, a, <<c>>) = b
  BY ScanOne DEF ShiftsTo
<1>2. b \in ChainStates
  BY ShiftType DEF ShiftsTo
<1>3. <<c>> \in Seq(VmeCommands)
  OBVIOUS
<1> QED
  BY <1>1, <1>2, <1>3 DEF ScansTo

\* The commands of SetInstruction, 0x191C or five of them, put an instruction
\* into the FPGA if their number of bits is that of the chain.
Bits(is_x) == IF is_x THEN 62 ELSE 10

\* SetInstruction loads the instruction that its word and length make.
LEMMA InstructionScan ==
  ASSUME NEW k, NEW ir \in Irs, NEW sel \in Sels, NEW out \in Outs,
         NEW word \in JtagWords, NEW is_x \in BOOLEAN
  PROVE  ScansTo(k, Between(ir, sel, out), SetInstruction(word, is_x),
                 Between(Instruction(k, word, Bits(is_x)), sel, out))
<1> DEFINE c0 == Between(ir, sel, out)
           a == Cmd("IR", 10, TRUE, FALSE, word)
           b == Cmd("IR", 16, FALSE, FALSE, "bypass")
           c == Cmd("IR", 4, FALSE, TRUE, "bypass")
           e == Cmd("IR", 10, TRUE, TRUE, word)
           In(n) == Within("IR", n, word, ir, sel, out)
           end(n) == Between(Instruction(k, word, n), sel, out)
<1>1. "bypass" \in JtagWords
  BY DEF JtagWords
<1>2. c0 \in ChainStates /\ \A n \in Nat : In(n) \in ChainStates
  <2>1. word \in Sels
    BY DEF Sels
  <2> QED
    BY <2>1, StatesTyped
<1>3. a \in VmeCommands /\ b \in VmeCommands /\ c \in VmeCommands /\ e \in VmeCommands
  BY <1>1, CmdTyped
<1>4. ShiftsTo(k, c0, e, end(10))
  BY WholeIR
<1>5. ShiftsTo(k, c0, a, In(10))
  BY OpensIR
<1>6. \A n \in Nat : ShiftsTo(k, In(n), b, In(n + 16))
  BY GoesOnIR
<1>7. \A n \in Nat : ShiftsTo(k, In(n), c, end(n + 4))
  BY ClosesIR
<1>8. ~is_x => SetInstruction(word, is_x) = <<e>>
  BY DEF SetInstruction
<1>9. is_x => SetInstruction(word, is_x) = (<<a>> \o [i \in 1 .. 3 |-> b]) \o <<c>>
  BY DEF SetInstruction
<1> HIDE DEF a, b, c, e
<1>10. [i \in 1 .. 3 |-> b] = <<b, b, b>>
  OBVIOUS
<1>11. is_x => SetInstruction(word, is_x) = (((<<a>> \o <<b>>) \o <<b>>) \o <<b>>) \o <<c>>
  <2>1. ((<<a>> \o <<b>>) \o <<b>>) \o <<b>> = <<a>> \o <<b, b, b>>
    BY <1>3
  <2> QED
    BY <1>9, <1>10, <2>1
<1> HIDE DEF c0, In, end
<1>12. CASE ~is_x
  <2>1. ScansTo(k, c0, <<e>>, end(10))
    BY <1>2, <1>3, <1>4, ScanFirst
  <2> QED
    BY <1>8, <1>12, <2>1 DEF Bits, c0, end
<1>13. CASE is_x
  <2>1. ShiftsTo(k, In(10), b, In(26)) /\ ShiftsTo(k, In(26), b, In(42)) /\ ShiftsTo(k, In(42), b, In(58))
    <3>1. \A n \in {10, 26, 42} : ShiftsTo(k, In(n), b, In(n + 16))
      BY <1>6
    <3>2. 10 + 16 = 26 /\ 26 + 16 = 42 /\ 42 + 16 = 58
      OBVIOUS
    <3> QED
      BY <3>1, <3>2
  <2>2. ShiftsTo(k, In(58), c, end(62))
    <3>1. ShiftsTo(k, In(58), c, end(58 + 4))
      BY <1>7
    <3> QED
      BY <3>1
  <2>3. /\ ScansTo(k, c0, <<a>>, In(10)) /\ ScansTo(k, In(10), <<b>>, In(26))
        /\ ScansTo(k, In(26), <<b>>, In(42)) /\ ScansTo(k, In(42), <<b>>, In(58))
        /\ ScansTo(k, In(58), <<c>>, end(62))
    BY <1>2, <1>3, <1>5, <2>1, <2>2, ScanFirst
  <2>4. ScansTo(k, c0, <<a>> \o <<b>>, In(26))
    BY <2>3, ScanThen
  <2>5. ScansTo(k, c0, (<<a>> \o <<b>>) \o <<b>>, In(42))
    BY <2>3, <2>4, ScanThen
  <2>6. ScansTo(k, c0, ((<<a>> \o <<b>>) \o <<b>>) \o <<b>>, In(58))
    BY <2>3, <2>5, ScanThen
  <2>7. ScansTo(k, c0, (((<<a>> \o <<b>>) \o <<b>>) \o <<b>>) \o <<c>>, end(62))
    BY <2>3, <2>6, ScanThen
  <2> QED
    BY <1>11, <1>13, <2>7 DEF Bits, c0, end
<1> QED
  BY <1>12, <1>13

\* Two commands in a row are a pair.
LEMMA TwoCommands ==
  ASSUME NEW S, NEW b \in S, NEW c \in S
  PROVE  <<b>> \o <<c>> = <<b, c>>
<1>1. <<b>> \in Seq(S) /\ <<c>> \in Seq(S) /\ <<b, c>> \in Seq(S)
  OBVIOUS
<1>2. Len(<<b>>) = 1 /\ Len(<<c>>) = 1 /\ <<b>>[1] = b /\ <<c>>[1] = c
  OBVIOUS
<1>3. Len(<<b, c>>) = 2 /\ <<b, c>>[1] = b /\ <<b, c>>[2] = c
  OBVIOUS
<1> DEFINE s == <<b>>  t == <<c>>  u == <<b, c>>
<1> HIDE DEF s, t, u
<1>4. s \o t \in Seq(S) /\ Len(s \o t) = 2 /\ (s \o t)[1] = s[1] /\ (s \o t)[2] = t[1]
  BY <1>1, <1>2 DEF s, t
<1>5. s \o t = u
  <2>1. \A i \in 1 .. Len(s \o t) : (s \o t)[i] = u[i]
    BY <1>2, <1>3, <1>4 DEF s, t, u
  <2> QED
    BY <1>1, <1>3, <1>4, <2>1, SeqEqual DEF u
<1> QED
  BY <1>5 DEF s, t, u

\* The data that follow, with four more bits for the other devices.
DataScan(word, n, is_x) ==
  IF ~is_x THEN <<Cmd("DR", n, TRUE, TRUE, word)>>
  ELSE <<Cmd("DR", n, TRUE, FALSE, word), Cmd("DR", 4, FALSE, TRUE, "zeros")>>
More(is_x) == IF is_x THEN 4 ELSE 0

\* DataScan leaves the chain between scans, and its word in the register.
LEMMA DataScanned ==
  ASSUME NEW k, NEW ir \in Irs, NEW sel \in Sels, NEW out \in Outs,
         NEW word \in JtagWords, NEW is_x \in BOOLEAN, NEW n \in Nat, n > 4
  PROVE  ScansTo(k, Between(ir, sel, out), DataScan(word, n, is_x),
                 Between(ir,
                         IF ir = "Select" /\ n + More(is_x) = 8 + Others(k) THEN word ELSE sel,
                         Output(k, Between(ir, sel, out), 0, n)))
<1> DEFINE c0 == Between(ir, sel, out)
           seen == Output(k, c0, 0, n)
           open == Within("DR", n, word, ir, sel, seen)
           sel1(m) == IF ir = "Select" /\ m = 8 + Others(k) THEN word ELSE sel
           end(m) == Between(ir, sel1(m), seen)
           a == Cmd("DR", n, TRUE, TRUE, word)
           b == Cmd("DR", n, TRUE, FALSE, word)
           c == Cmd("DR", 4, FALSE, TRUE, "zeros")
<1>1. c0 \in ChainStates /\ a \in VmeCommands /\ b \in VmeCommands /\ c \in VmeCommands
  <2>1. "zeros" \in JtagWords
    BY DEF JtagWords
  <2> QED
    BY <2>1, StatesTyped, CmdTyped
<1>2. ShiftsTo(k, c0, a, Between(ir, sel1(n), IF n > 4 THEN seen ELSE out))
  BY WholeDR
<1>3. ShiftsTo(k, c0, b, Within("DR", n, word, ir, sel, IF n > 4 THEN seen ELSE out))
  BY OpensDR
<1>4. ShiftsTo(k, open, c, Between(ir, sel1(n + 4), IF 4 > 4 THEN Output(k, open, n, 4) ELSE seen))
  BY ClosesDR
<1> HIDE DEF a, b, c, c0, seen, sel1
<1>5. ShiftsTo(k, c0, a, end(n)) /\ ShiftsTo(k, c0, b, open) /\ ShiftsTo(k, open, c, end(n + 4))
  <2>1. (IF n > 4 THEN seen ELSE out) = seen /\ (IF 4 > 4 THEN Output(k, open, n, 4) ELSE seen) = seen
    OBVIOUS
  <2> HIDE DEF open
  <2> QED
    BY <1>2, <1>3, <1>4, <2>1 DEF open
<1>6. CASE ~is_x
  <2>1. ScansTo(k, c0, <<a>>, end(n))
    BY <1>1, <1>5, ScanFirst
  <2>2. DataScan(word, n, is_x) = <<a>>
    BY <1>6 DEF DataScan, a
  <2>3. More(is_x) = 0
    BY <1>6, Zenon DEF More
  <2>4. n + More(is_x) = n
    BY <2>3
  <2> QED
    BY <2>1, <2>2, <2>4 DEF c0, seen, sel1
<1>7. CASE is_x
  <2>1. open \in ChainStates
    BY <1>1, <1>5, ShiftType DEF ShiftsTo
  <2> HIDE DEF open, end
  <2>2. ScansTo(k, c0, <<b>>, open) /\ ScansTo(k, open, <<c>>, end(n + 4))
    BY <1>1, <1>5, <2>1, ScanFirst
  <2>3. ScansTo(k, c0, <<b>> \o <<c>>, end(n + 4))
    BY <2>2, ScanThen
  <2>4. DataScan(word, n, is_x) = <<b>> \o <<c>>
    <3>1. DataScan(word, n, is_x) = <<b, c>>
      BY <1>7 DEF DataScan, b, c
    <3>2. <<b>> \o <<c>> = <<b, c>>
      BY <1>1, TwoCommands
    <3> QED
      BY <3>1, <3>2
  <2>5. More(is_x) = 4
    BY <1>7, Zenon DEF More
  <2>6. ScansTo(k, c0, DataScan(word, n, is_x), end(n + More(is_x)))
    BY <2>3, <2>4, <2>5, Zenon
  <2> QED
    BY <2>6, Zenon DEF c0, seen, sel1, end
<1> QED
  BY <1>6, <1>7

\* An instruction reaches the FPGA if the boards are of the kind assumed.
RightKind(k, is_x) == is_x = (k = "xDCFEB")

\* The word is understood only by the kind of DCFEB that its length is for.
LEMMA InstructionIs ==
  ASSUME NEW k \in Kinds, NEW word \in JtagWords, NEW is_x \in BOOLEAN
  PROVE  /\ RightKind(k, is_x) => Instruction(k, word, Bits(is_x)) = word
         /\ ~RightKind(k, is_x) => Instruction(k, word, Bits(is_x)) \in {"bypass", "other"}
<1>1. IrLength(k) = IF k = "xDCFEB" THEN 62 ELSE 10
  BY DEF IrLength
<1>2. CASE Bits(is_x) = IrLength(k)
  BY <1>1, <1>2 DEF Instruction, Bits, RightKind
<1>3. CASE Bits(is_x) # IrLength(k)
  BY <1>1, <1>3 DEF Instruction, Bits, RightKind
<1> QED
  BY <1>2, <1>3

\* One register shifted, two to read a register of a DCFEB, and its UserCode.
Now(k, word, is_x) == Instruction(k, word, Bits(is_x))
Selected(k, now, DR, n, sel, is_x) ==
  IF now = "Select" /\ n + More(is_x) = 8 + Others(k) THEN DR ELSE sel
Seen(k, now, sel, out, n) == Output(k, Between(now, sel, out), 0, n)

\* What is understood is an instruction.
LEMMA NowTyped ==
  ASSUME NEW k \in Kinds, NEW word \in JtagWords, NEW is_x \in BOOLEAN
  PROVE  Now(k, word, is_x) \in Irs
<1>1. Now(k, word, is_x) \in {word, "bypass", "other"}
  BY InstructionIs, Zenon DEF Now
<1> QED
  BY <1>1 DEF Irs, JtagWords

\* JTAGShift, from one state between scans to another.
LEMMA ShiftScanned ==
  ASSUME NEW k \in Kinds, NEW ir \in Irs, NEW sel \in Sels, NEW out \in Outs,
         NEW IR \in JtagWords, NEW DR \in JtagWords, NEW is_x \in BOOLEAN, NEW n \in Nat, n > 4
  PROVE  ScansTo(k, Between(ir, sel, out), JTAGShift(IR, DR, n, is_x),
                 Between(Now(k, IR, is_x), Selected(k, Now(k, IR, is_x), DR, n, sel, is_x),
                         Seen(k, Now(k, IR, is_x), sel, out, n)))
<1> DEFINE now == Now(k, IR, is_x)
           c0 == Between(ir, sel, out)
           c1 == Between(now, sel, out)
           c2 == Between(now, Selected(k, now, DR, n, sel, is_x), Seen(k, now, sel, out, n))
<1>1. now \in Irs
  BY NowTyped
<1>2. ScansTo(k, c0, SetInstruction(IR, is_x), c1)
  BY InstructionScan DEF Now
<1> HIDE DEF now, c0
<1>3. ScansTo(k, c1, DataScan(DR, n, is_x), c2)
  BY <1>1, DataScanned DEF Selected, Seen
<1>4. JTAGShift(IR, DR, n, is_x) = SetInstruction(IR, is_x) \o DataScan(DR, n, is_x)
  BY DEF JTAGShift, DataScan
<1> HIDE DEF c1, c2
<1>5. ScansTo(k, c0, JTAGShift(IR, DR, n, is_x), c2)
  BY <1>2, <1>3, <1>4, ScanThen
<1> QED
  BY <1>5, Zenon DEF now, c0, c2

\* Reading a register yields its value, or junk if the kind is wrong.
LEMMA RegisterRead ==
  ASSUME NEW k \in Kinds, NEW ir \in Irs, NEW sel \in Sels, NEW out \in Outs,
         NEW DR \in JtagWords, NEW is_x \in BOOLEAN, NEW n \in Nat, n > 4
  PROVE  /\ RightKind(k, is_x) =>
              ScansTo(k, Between(ir, sel, out), JTAGRead(DR, n, is_x), Between("Value", DR, DR))
         /\ ~RightKind(k, is_x) =>
              \E i \in {"bypass", "other"} :
                ScansTo(k, Between(ir, sel, out), JTAGRead(DR, n, is_x), Between(i, sel, "junk"))
<1> DEFINE s == Now(k, "Select", is_x)
           v == Now(k, "Value", is_x)
           sel1 == Selected(k, s, DR, 8, sel, is_x)
           out1 == Seen(k, s, sel, out, 8)
           sel2 == Selected(k, v, "zeros", n, sel1, is_x)
           out2 == Seen(k, v, sel1, out1, n)
           c0 == Between(ir, sel, out)
           c1 == Between(s, sel1, out1)
           c2 == Between(v, sel2, out2)
<1>1. "Select" \in JtagWords /\ "Value" \in JtagWords /\ "zeros" \in JtagWords
  BY DEF JtagWords
<1>2. ScansTo(k, c0, JTAGShift("Select", DR, 8, is_x), c1)
  BY <1>1, ShiftScanned
<1>3. s \in Irs /\ v \in Irs
  BY <1>1, NowTyped
<1>4. sel1 \in Sels /\ out1 \in Outs
  <2>1. c1 \in ChainStates
    BY <1>2 DEF ScansTo
  <2>2. c1.sel = sel1 /\ c1.out = out1
    BY DEF Between
  <2> HIDE DEF c1
  <2> QED
    BY <2>1, <2>2 DEF ChainStates, Sels, Outs
<1> HIDE DEF sel1, out1
<1>5. ScansTo(k, c1, JTAGShift("Value", "zeros", n, is_x), c2)
  BY <1>1, <1>3, <1>4, ShiftScanned
<1> HIDE DEF c0, c1, c2, sel2, out2
<1>6. ScansTo(k, c0, JTAGRead(DR, n, is_x), c2)
  BY <1>2, <1>5, ScanThen DEF JTAGRead
<1>7. CASE RightKind(k, is_x)
  <2>1. s = "Select" /\ v = "Value"
    BY <1>1, <1>7, InstructionIs, Zenon DEF Now, s, v
  <2>2. More(is_x) = Others(k)
    BY <1>7 DEF RightKind, More, Others
  <2>3. sel1 = DR
    BY <2>1, <2>2 DEF sel1, Selected
  <2>4. sel2 = DR
    BY <2>1, <2>3 DEF sel2, Selected
  <2>5. out2 = DR
    <3>1. Between(v, sel1, out1).ir = "Value" /\ Between(v, sel1, out1).sel = DR
      BY <2>1, <2>3 DEF Between
    <3> QED
      BY <3>1, Outputs DEF out2, Seen
  <2> QED
    BY <1>6, <1>7, <2>1, <2>4, <2>5, Zenon DEF c0, c2
<1>8. CASE ~RightKind(k, is_x)
  <2>1. s \in {"bypass", "other"} /\ v \in {"bypass", "other"}
    BY <1>1, <1>8, InstructionIs, Zenon DEF Now, s, v
  <2>2. sel1 = sel /\ sel2 = sel
    BY <2>1 DEF sel1, sel2, Selected
  <2>3. out2 = "junk"
    <3>1. Between(v, sel1, out1).ir \notin {"Value", "UserCode"}
      BY <2>1 DEF Between
    <3> QED
      BY <3>1, Outputs DEF out2, Seen
  <2> QED
    BY <1>6, <1>8, <2>1, <2>2, <2>3, Zenon DEF c0, c2
<1> QED
  BY <1>7, <1>8

\* Reading the UserCode yields its high half, or junk if the kind is wrong.
LEMMA UserCodeScanned ==
  ASSUME NEW k \in Kinds, NEW ir \in Irs, NEW sel \in Sels, NEW out \in Outs, NEW is_x \in BOOLEAN
  PROVE  /\ RightKind(k, is_x) =>
              ScansTo(k, Between(ir, sel, out), ReadUserCode(is_x), Between("UserCode", sel, "high half"))
         /\ ~RightKind(k, is_x) =>
              \E i \in {"bypass", "other"} :
                ScansTo(k, Between(ir, sel, out), ReadUserCode(is_x), Between(i, sel, "junk"))
<1> DEFINE u == Now(k, "UserCode", is_x)
           c0 == Between(ir, sel, out)
           c1 == Between(u, sel, out)
           o2 == Output(k, c1, 0, 16)
           c2 == Within("DR", 16, "zeros", u, sel, o2)
           o3 == Output(k, c2, 16, 16)
           c3 == Between(u, sel, o3)
           d3 == Within("DR", 32, "zeros", u, sel, o3)
           a == Cmd("DR", 16, TRUE, FALSE, "zeros")
           b == Cmd("DR", 16, FALSE, TRUE, "zeros")
           c == Cmd("DR", 16, FALSE, FALSE, "zeros")
           d == Cmd("DR", 4, FALSE, TRUE, "zeros")
<1>1. "UserCode" \in JtagWords /\ "zeros" \in JtagWords
  BY DEF JtagWords
<1>2. a \in VmeCommands /\ b \in VmeCommands /\ c \in VmeCommands /\ d \in VmeCommands
  BY <1>1, CmdTyped
<1>3. ScansTo(k, c0, SetInstruction("UserCode", is_x), c1)
  BY <1>1, InstructionScan DEF Now
<1>4. IF RightKind(k, is_x) THEN u = "UserCode" ELSE u \in {"bypass", "other"}
  BY <1>1, InstructionIs, Zenon DEF Now
<1>5. u # "Select"
  BY <1>4
<1>6. c1 \in ChainStates
  BY <1>3 DEF ScansTo
<1> HIDE DEF u
<1>7. ShiftsTo(k, c1, a, Within("DR", 16, "zeros", u, sel, IF 16 > 4 THEN o2 ELSE out))
  BY OpensDR
<1>8. \A n \in Nat : ShiftsTo(k, c2, b,
        Between(u, IF u = "Select" /\ 16 + 16 = 8 + Others(k) THEN "zeros" ELSE sel,
                IF 16 > 4 THEN o3 ELSE o2))
  BY ClosesDR
<1>9. ShiftsTo(k, c2, c, Within("DR", 16 + 16, "zeros", u, sel, IF 16 > 4 THEN o3 ELSE o2))
  BY GoesOnDR
<1>10. ShiftsTo(k, d3, d,
         Between(u, IF u = "Select" /\ 32 + 4 = 8 + Others(k) THEN "zeros" ELSE sel,
                 IF 4 > 4 THEN Output(k, d3, 32, 4) ELSE o3))
  BY ClosesDR
<1>11. IF RightKind(k, is_x) THEN o3 = "high half" ELSE o3 = "junk"
  <2>1. c2.ir = u
    BY DEF Within
  <2> HIDE DEF c2
  <2> QED
    BY <1>4, <2>1, Outputs
<1> HIDE DEF a, b, c, d, c0, c1, o2, o3
<1>12. ShiftsTo(k, c1, a, c2)
  <2>1. (IF 16 > 4 THEN o2 ELSE out) = o2
    OBVIOUS
  <2> QED
    BY <1>7, <2>1
<1>13. ShiftsTo(k, c2, b, c3) /\ ShiftsTo(k, c2, c, d3)
  <2>1. (IF 16 > 4 THEN o3 ELSE o2) = o3 /\ 16 + 16 = 32
    OBVIOUS
  <2>2. (IF u = "Select" /\ 16 + 16 = 8 + Others(k) THEN "zeros" ELSE sel) = sel
    BY <1>5
  <2> QED
    BY <1>8, <1>9, <2>1, <2>2
<1>14. ShiftsTo(k, d3, d, c3)
  <2>1. (IF 4 > 4 THEN Output(k, d3, 32, 4) ELSE o3) = o3
    OBVIOUS
  <2>2. (IF u = "Select" /\ 32 + 4 = 8 + Others(k) THEN "zeros" ELSE sel) = sel
    BY <1>5
  <2> QED
    BY <1>10, <2>1, <2>2
<1> HIDE DEF c2, c3, d3
<1>15. ScansTo(k, c1, <<a>>, c2)
  BY <1>2, <1>6, <1>12, ScanFirst
<1>16. ScansTo(k, c2, <<b>>, c3) /\ ScansTo(k, c2, <<c>>, d3)
  <2>1. c2 \in ChainStates
    BY <1>15 DEF ScansTo
  <2> QED
    BY <1>2, <1>13, <2>1, ScanFirst
<1>17. ScansTo(k, d3, <<d>>, c3)
  <2>1. d3 \in ChainStates
    BY <1>16 DEF ScansTo
  <2> QED
    BY <1>2, <1>14, <2>1, ScanFirst
<1>18. ScansTo(k, c2, <<c, d>>, c3)
  <2>1. <<c>> \o <<d>> = <<c, d>>
    BY <1>2, TwoCommands
  <2> QED
    BY <1>16, <1>17, <2>1, ScanThen
<1> DEFINE rest == IF ~is_x THEN <<b>> ELSE <<c, d>>
<1>19. ReadUserCode(is_x) = (SetInstruction("UserCode", is_x) \o <<a>>) \o rest
  BY Zenon DEF ReadUserCode, a, b, c, d
<1>20. ScansTo(k, c2, rest, c3)
  BY <1>16, <1>18
<1> HIDE DEF rest
<1>21. ScansTo(k, c0, SetInstruction("UserCode", is_x) \o <<a>>, c2)
  BY <1>3, <1>15, ScanThen
<1>22. ScansTo(k, c0, ReadUserCode(is_x), c3)
  BY <1>19, <1>20, <1>21, ScanThen
<1> QED
  BY <1>4, <1>11, <1>22, Zenon DEF c0, c3

\* Between two tests no scan is open; what the tests scan leaves none open.
Idles(chain) == \E ir \in Irs, sel \in Sels, out \in Outs : chain = Between(ir, sel, out)

\* A chain between scans is idle, and has its type.
LEMMA IdleTyped ==
  ASSUME NEW chain, Idles(chain)
  PROVE  chain.at = "idle" /\ chain \in Chain /\ chain \in ChainStates
<1>1. PICK ir \in Irs, sel \in Sels, out \in Outs : chain = Between(ir, sel, out)
  BY DEF Idles
<1>2. chain \in ChainStates
  BY <1>1, StatesTyped
<1>3. chain.at = "idle" /\ chain.bits = 0
  BY <1>1 DEF Between
<1>4. Between(ir, sel, out) \in Chain
  <2>1. 0 \in 0 .. 62 /\ "none" \in JtagWords \cup {"none"} /\ "idle" \in {"idle", "IR", "DR", "lost"}
    OBVIOUS
  <2>2. /\ ir \in JtagWords \cup {"none", "other"} /\ sel \in JtagWords \cup {"none"}
        /\ out \in JtagWords \cup {"none", "junk", "low half", "high half"}
    BY DEF Irs, Sels, Outs
  <2> QED
    BY <2>1, <2>2, Zenon DEF Between, Chain
<1>5. chain \in Chain
  BY <1>1, <1>4, Zenon
<1> QED
  BY <1>2, <1>3, <1>5

\* A reset leaves the chain between scans.
LEMMA ResetIdles == Idles(Reset)
<1>1. Reset = Between("none", "none", "junk")
  BY DEF Reset, Between
<1>2. "none" \in Irs /\ "none" \in Sels /\ "junk" \in Outs
  BY DEF Irs, Sels, Outs
<1> QED
  BY <1>1, <1>2 DEF Idles

\* Reading a register leads from one state between scans to another.
LEMMA ReadIdles ==
  ASSUME NEW k \in Kinds, NEW chain, Idles(chain), NEW is_x \in BOOLEAN,
         NEW DR \in JtagWords, NEW n \in Nat, n > 4
  PROVE  \E next : Idles(next) /\ ScansTo(k, chain, JTAGRead(DR, n, is_x), next)
<1>1. PICK ir \in Irs, sel \in Sels, out \in Outs : chain = Between(ir, sel, out)
  BY DEF Idles
<1>2. "Value" \in Irs /\ DR \in Sels /\ DR \in Outs /\ "junk" \in Outs /\ {"bypass", "other"} \subseteq Irs
  BY DEF Irs, Sels, Outs, JtagWords
<1>3. CASE RightKind(k, is_x)
  <2>1. ScansTo(k, chain, JTAGRead(DR, n, is_x), Between("Value", DR, DR))
    BY <1>1, <1>3, RegisterRead
  <2> QED
    BY <1>2, <2>1 DEF Idles
<1>4. CASE ~RightKind(k, is_x)
  <2>1. PICK i \in {"bypass", "other"} :
             ScansTo(k, chain, JTAGRead(DR, n, is_x), Between(i, sel, "junk"))
    BY <1>1, <1>4, RegisterRead
  <2> QED
    BY <1>2, <2>1 DEF Idles
<1> QED
  BY <1>3, <1>4

\* The scans of the tests leave the chain between scans.
LEMMA ScanIdles ==
  ASSUME NEW k \in Kinds, NEW chain, Idles(chain), NEW is_x \in BOOLEAN,
         NEW DR \in JtagWords, NEW n \in Nat, n > 4
  PROVE  /\ Idles(Scan(k, chain, JTAGRead(DR, n, is_x)))
         /\ Idles(Scan(k, chain, JTAGRead(DR, n, is_x) \o JTAGRead(DR, n, is_x)))
         /\ Idles(Scan(k, chain, ReadUserCode(is_x)))
<1>1. PICK c1 : Idles(c1) /\ ScansTo(k, chain, JTAGRead(DR, n, is_x), c1)
  BY ReadIdles
<1>2. PICK c2 : Idles(c2) /\ ScansTo(k, c1, JTAGRead(DR, n, is_x), c2)
  BY <1>1, ReadIdles
<1>3. ScansTo(k, chain, JTAGRead(DR, n, is_x) \o JTAGRead(DR, n, is_x), c2)
  BY <1>1, <1>2, ScanThen
<1>4. \E next : Idles(next) /\ ScansTo(k, chain, ReadUserCode(is_x), next)
  <2>1. PICK ir \in Irs, sel \in Sels, out \in Outs : chain = Between(ir, sel, out)
    BY DEF Idles
  <2>2. /\ "UserCode" \in Irs /\ "high half" \in Outs /\ "junk" \in Outs
        /\ {"bypass", "other"} \subseteq Irs
    BY DEF Irs, Sels, Outs, JtagWords
  <2>3. CASE RightKind(k, is_x)
    <3>1. ScansTo(k, chain, ReadUserCode(is_x), Between("UserCode", sel, "high half"))
      BY <2>1, <2>3, UserCodeScanned
    <3> QED
      BY <2>2, <3>1 DEF Idles
  <2>4. CASE ~RightKind(k, is_x)
    <3>1. PICK i \in {"bypass", "other"} :
               ScansTo(k, chain, ReadUserCode(is_x), Between(i, sel, "junk"))
      BY <2>1, <2>4, UserCodeScanned
    <3> QED
      BY <2>2, <3>1 DEF Idles
  <2> QED
    BY <2>3, <2>4
<1>5. Idles(Scan(k, chain, ReadUserCode(is_x)))
  BY <1>4 DEF ScansTo
<1>6. Idles(Scan(k, chain, JTAGRead(DR, n, is_x)))
  BY <1>1 DEF ScansTo
<1>7. Idles(Scan(k, chain, JTAGRead(DR, n, is_x) \o JTAGRead(DR, n, is_x)))
  BY <1>2, <1>3 DEF ScansTo
<1> QED
  BY <1>5, <1>6, <1>7

(***************************************************************************)
(* The state of the stand has its type.                                    *)
(***************************************************************************)
Queued == (Commands \ {"Write page"}) \cup Files
Ports == {spi \in Spi : spi.queue \in Seq(Queued)}
IdleBoards == {b \in Boards(Spi) : Idles(b.jtag) /\ b.spi \in Ports}

Tests == {Named(b) : b \in Buttons} \cup {"cfg defaults"}
Calls == [test : Tests, n : 0 .. MaxRepeats]

\* A finite set of numbers that is not empty has a greatest one.
LEMMA GreatestNumber ==
  ASSUME NEW S \in SUBSET Nat, IsFiniteSet(S), S # {}
  PROVE  \E m \in S : \A e \in S : e <= m
<1> DEFINE Has(U) == U # {} => \E m \in U : \A e \in U : e <= m
           n == Cardinality(S)
           T == {c \in 0 .. n : \A U \in SUBSET S : Cardinality(U) = c => Has(U)}
<1>1. n \in Nat /\ \A U \in SUBSET S : IsFiniteSet(U) /\ Cardinality(U) \in Nat
  BY FS_CardinalityType, FS_Subset
<1> HIDE DEF n
<1>2. 0 \in T
  BY <1>1, FS_EmptySet
<1>3. ASSUME NEW c \in 1 .. n, c - 1 \in T PROVE c \in T
  <2>1. ASSUME NEW U \in SUBSET S, Cardinality(U) = c, U # {}
        PROVE  \E m \in U : \A e \in U : e <= m
    <3>1. PICK x \in U : TRUE
      BY <2>1
    <3>2. U \ {x} \in SUBSET S /\ Cardinality(U \ {x}) = c - 1
      BY <1>1, <2>1, FS_RemoveElement
    <3>3. Has(U \ {x})
      BY <1>3, <3>2
    <3>4. CASE U \ {x} = {}
      BY <3>1, <3>4
    <3>5. CASE U \ {x} # {}
      <4>1. PICK m \in U \ {x} : \A e \in U \ {x} : e <= m
        BY <3>3, <3>5
      <4>2. CASE m <= x
        <5>1. \A e \in U : e <= x
          BY <4>1, <4>2
        <5> QED
          BY <5>1
      <4>3. CASE ~(m <= x)
        <5>1. \A e \in U : e <= m
          BY <4>1, <4>3
        <5> QED
          BY <5>1
      <4> QED
        BY <4>2, <4>3
    <3> QED
      BY <3>4, <3>5
  <2> QED
    BY <1>3, <2>1
<1> HIDE DEF T
<1>4. n \in T
  <2>1. \A c \in 1 .. n : c - 1 \in T => c \in T
    BY <1>3
  <2>2. \A c \in 0 .. n : c \in T
    BY <1>1, <1>2, <2>1, UpTo
  <2> QED
    BY <1>1, <2>2
<1> QED
  BY <1>4 DEF T, n

\* There is a last input.
LEMMA LastInput ==
  /\ LastDcfeb \in Dcfebs /\ \A d \in Dcfebs : d <= LastDcfeb
  /\ LastDcfeb \in Nat /\ LastDcfeb >= 1
<1>1. Dcfebs \in SUBSET Nat /\ IsFiniteSet(Dcfebs) /\ Dcfebs # {} /\ \A d \in Dcfebs : d \in Nat /\ d >= 1
  BY BenchAssumption
<1>2. \E m \in Dcfebs : \A e \in Dcfebs : e <= m
  BY <1>1, GreatestNumber
<1>3. LastDcfeb \in Dcfebs /\ \A d \in Dcfebs : d <= LastDcfeb
  BY <1>2 DEF LastDcfeb
<1> QED
  BY <1>1, <1>3

(***************************************************************************)
(* The loops of the tests.                                                 *)
(***************************************************************************)
Counts == [Dcfebs -> 0 .. WordRange - 1]

\* Pulses and resyncs leave counters.
LEMMA CountsTyped ==
  ASSUME NEW l1a \in Counts, NEW n \in Nat
  PROVE  Triggered(l1a, n) \in Counts /\ Resynced(l1a) \in Counts /\ [d \in Dcfebs |-> 0] \in Counts
<1>1. WordRange \in Nat /\ WordRange > 0
  BY BenchAssumption
<1>2. \A d \in Dcfebs : l1a[d] \in 0 .. WordRange - 1 /\ (l1a[d] + n) % WordRange \in 0 .. WordRange - 1
  BY <1>1 DEF Counts
<1>3. 0 \in 0 .. WordRange - 1
  BY <1>1
<1>4. Triggered(l1a, n) \in Counts
  BY <1>2 DEF Triggered, Counts
<1>5. Resynced(l1a) \in Counts
  BY <1>2, <1>3 DEF Resynced, Counts
<1> QED
  BY <1>3, <1>4, <1>5 DEF Counts

\* DCFEBFiber, input by input.
Turn(r, d, n) ==
  [l1a |-> Resynced(Triggered(r.l1a, n)),
   counts |-> [r.counts EXCEPT ![d] = Triggered(r.l1a, n)[d]],
   after |-> Resynced(Triggered(r.l1a, n))[d]]
TurnOf(r, d, n) == IF d \in DoneBits THEN Turn(r, d, n) ELSE r
Turns == [l1a : Counts, counts : Counts, after : 0 .. WordRange - 1]

\* One turn of the loop of DCFEBFiber keeps its types.
LEMMA TurnTyped ==
  ASSUME NEW r \in Turns, NEW d, NEW n \in Nat
  PROVE  TurnOf(r, d, n) \in Turns
<1>1. CASE d \in DoneBits
  <2>1. d \in Dcfebs
    BY <1>1 DEF DoneBits
  <2>2. r.l1a \in Counts /\ r.counts \in Counts
    BY DEF Turns
  <2> DEFINE counted == Triggered(r.l1a, n)
             resynced == Resynced(counted)
  <2>3. counted \in Counts
    BY <2>2, CountsTyped
  <2>4. resynced \in Counts
    BY <2>3, CountsTyped
  <2> HIDE DEF counted, resynced
  <2>5. counted[d] \in 0 .. WordRange - 1 /\ resynced[d] \in 0 .. WordRange - 1
    BY <2>1, <2>3, <2>4 DEF Counts
  <2>6. [r.counts EXCEPT ![d] = counted[d]] \in Counts
    BY <2>1, <2>2, <2>5 DEF Counts
  <2>7. TurnOf(r, d, n) = [l1a |-> resynced, counts |-> [r.counts EXCEPT ![d] = counted[d]],
                           after |-> resynced[d]]
    BY <1>1 DEF TurnOf, Turn, counted, resynced
  <2> QED
    BY <2>4, <2>5, <2>6, <2>7 DEF Turns
<1>2. CASE d \notin DoneBits
  BY <1>2 DEF TurnOf
<1> QED
  BY <1>1, <1>2

\* Any property of the turns that holds at first and that each turn keeps.
LEMMA TurnsTaken ==
  ASSUME NEW l1a \in Counts, NEW n \in Nat
  PROVE  \E g \in [0 .. LastDcfeb -> Turns] :
            /\ g[0] = [l1a |-> l1a, counts |-> l1a, after |-> 0]
            /\ \A d \in 1 .. LastDcfeb : g[d] = TurnOf(g[d - 1], d, n)
            /\ Resyncs(l1a, n) = g[LastDcfeb]
<1> DEFINE m == LastDcfeb
           first == [l1a |-> l1a, counts |-> l1a, after |-> 0]
           op == [x \in Turns |-> [d \in 1 .. m |-> TurnOf(x, d, n)]]
           F(f) == [i \in 0 .. m |-> IF i = 0 THEN first ELSE TurnOf(f[i - 1], i, n)]
           h == CHOOSE f : f = F(f)
<1>1. Closed(op, Turns, m)
  BY TurnTyped DEF Closed
<1>2. m \in Nat
  BY LastInput
<1> HIDE DEF m
<1>3. \A x \in Turns, d \in 1 .. m : op[x][d] = TurnOf(x, d, n)
  OBVIOUS
<1> HIDE DEF op
<1>4. first \in Turns
  BY BenchAssumption DEF Turns
<1> HIDE DEF first
<1>5. PICK g \in [0 .. m -> Turns] : Walks(g, op, first, m)
  BY <1>1, <1>2, <1>4, StepsExist
<1>6. g = F(g)
  <2>1. ASSUME NEW i \in 1 .. m PROVE g[i] = TurnOf(g[i - 1], i, n)
    <3>1. g[i - 1] \in Turns
      BY <1>2
    <3>2. g[i] = op[g[i - 1]][i]
      BY <1>5 DEF Walks
    <3> QED
      BY <1>3, <3>1, <3>2
  <2>2. \A i \in 0 .. m : g[i] = IF i = 0 THEN first ELSE TurnOf(g[i - 1], i, n)
    BY <1>2, <1>5, <2>1 DEF Walks
  <2>3. g = [i \in 0 .. m |-> g[i]]
    OBVIOUS
  <2> QED
    BY <2>2, <2>3
<1>7. h = F(h)
  BY <1>6
<1>8. Resyncs(l1a, n) = h[m]
  BY DEF Resyncs, AfterSteps, TurnOf, Turn, m, first
<1> HIDE DEF h
<1>9. h[0] = first /\ \A i \in 1 .. m : h[i] = TurnOf(h[i - 1], i, n)
  BY <1>2, <1>7
<1>10. \A i \in 0 .. m : h[i] \in Turns
  <2>1. \A i \in 1 .. m : h[i - 1] \in Turns => h[i] \in Turns
    BY <1>9, TurnTyped
  <2> QED
    BY <1>2, <1>4, <1>9, <2>1, StepsTaken
<1>11. h \in [0 .. m -> Turns]
  BY <1>7, <1>10
<1> QED
  BY <1>8, <1>9, <1>11 DEF m, first

\* MCSBackAndForthBPI, load by load.
Rounds == [board : IdleBoards, errorType : 0 .. 5, stop : BOOLEAN]

\* A hard reset and new contents of the EPROM leave an idle board.
LEMMA HardResetTyped ==
  ASSUME NEW b \in IdleBoards, NEW e \in Firmware
  PROVE  /\ HardReset(b) \in IdleBoards
         /\ [b EXCEPT !.eprom = e] \in IdleBoards
         /\ HardReset([b EXCEPT !.eprom = e]) \in IdleBoards
         /\ HardReset([b EXCEPT !.eprom = e]).fw = e
<1>1. \A c \in IdleBoards : HardReset(c) \in IdleBoards /\ HardReset(c).fw = c.eprom
  <2> TAKE c \in IdleBoards
  <2>1. c \in Boards(Spi) /\ Idles(c.jtag) /\ c.spi \in Ports
    BY DEF IdleBoards
  <2> DEFINE c1 == [c EXCEPT !.fw = c.eprom]
             c2 == [c1 EXCEPT !.cfg = c.prom]
             c3 == [c2 EXCEPT !.l1a = [d \in Dcfebs |-> 0]]
  <2>2. c1 \in Boards(Spi) /\ c1.jtag = c.jtag /\ c1.fw = c.eprom /\ c1.spi = c.spi
    BY <2>1 DEF Boards
  <2>3. HardReset(c) = c3
    BY DEF HardReset
  <2>4. c.prom \in Configurations
    BY <2>1 DEF Boards
  <2> HIDE DEF c1
  <2>5. c2 \in Boards(Spi) /\ c2.jtag = c.jtag /\ c2.fw = c.eprom /\ c2.spi = c.spi
    BY <2>2, <2>4 DEF Boards
  <2> HIDE DEF c2
  <2>6. c3 \in Boards(Spi) /\ c3.jtag = c.jtag /\ c3.fw = c.eprom /\ c3.spi = c.spi
    <3>1. [d \in Dcfebs |-> 0] \in [Dcfebs -> 0 .. WordRange - 1]
      BY BenchAssumption
    <3> QED
      BY <2>5, <3>1 DEF Boards
  <2> QED
    BY <2>1, <2>3, <2>6 DEF IdleBoards
<1>2. [b EXCEPT !.eprom = e] \in IdleBoards /\ [b EXCEPT !.eprom = e].eprom = e
  BY DEF IdleBoards, Boards
<1> QED
  BY <1>1, <1>2

\* A round of MCSBackAndForthBPI keeps its types.
LEMMA RoundTyped ==
  ASSUME NEW r \in Rounds, NEW i \in Nat, NEW fails, NEW remains \in BOOLEAN
  PROVE  Round(r, i, fails, remains) \in Rounds
<1> DEFINE file == IF i % 2 = 1 THEN "1" ELSE "2"
           bailed == fails > 2
           e == IF ~bailed THEN file ELSE IF remains THEN r.board.eprom ELSE "none"
           loaded == HardReset([r.board EXCEPT !.eprom = e])
           type == IF loaded.fw # file THEN IF file = "1" THEN 3 ELSE 5
                   ELSE IF bailed THEN IF file = "1" THEN 2 ELSE 4
                   ELSE r.errorType
<1>1. r.board \in IdleBoards /\ r.errorType \in 0 .. 5
  BY DEF Rounds
<1>2. e \in Firmware
  BY <1>1 DEF Firmware, IdleBoards, Boards
<1> HIDE DEF e
<1>3. loaded \in IdleBoards
  BY <1>1, <1>2, HardResetTyped
<1>4. CASE r.stop
  BY <1>4 DEF Round
<1>5. CASE ~r.stop /\ i % 2 = 1 /\ r.board.fw = "none"
  <2>1. Round(r, i, fails, remains) = [r EXCEPT !.errorType = 1, !.stop = TRUE]
    BY <1>5, Zenon DEF Round
  <2> DEFINE r1 == [r EXCEPT !.errorType = 1]
  <2>2. r1 \in Rounds
    BY DEF Rounds
  <2>3. Round(r, i, fails, remains) = [r1 EXCEPT !.stop = TRUE]
    BY <2>1
  <2> HIDE DEF r1
  <2> QED
    BY <2>2, <2>3 DEF Rounds
<1>6. CASE ~r.stop /\ ~(i % 2 = 1 /\ r.board.fw = "none")
  <2>1. Round(r, i, fails, remains)
          = [board |-> loaded, errorType |-> type, stop |-> loaded.fw # file]
    BY <1>6, Zenon DEF Round, e
  <2> HIDE DEF loaded
  <2>2. type \in 0 .. 5
    BY <1>1
  <2> QED
    BY <1>3, <2>1, <2>2 DEF Rounds
<1> QED
  BY <1>4, <1>5, <1>6

\* The loads of MCSBackAndForthBPI from the board b: the state they start in, and the one they leave.
RoundsFrom(b) == [board |-> b, errorType |-> 0, stop |-> FALSE]
RoundsOf(b, fails, remains, m) ==
  AfterSteps(LAMBDA s, i: Round(s, i, fails[i], remains), RoundsFrom(b), m)
RoundBy(g, b, fails, remains, m) ==
  /\ g \in [0 .. m -> Rounds]
  /\ g[0] = RoundsFrom(b)
  /\ \A i \in 1 .. m : g[i] = Round(g[i - 1], i, fails[i], remains)
  /\ RoundsOf(b, fails, remains, m) = g[m]

\* The states after each of its rounds are a function.
LEMMA RoundsTaken ==
  ASSUME NEW b \in IdleBoards, NEW fails, NEW remains \in BOOLEAN, NEW m \in Nat
  PROVE  \E g : RoundBy(g, b, fails, remains, m)
<1> DEFINE first == RoundsFrom(b)
           op == [x \in Rounds |-> [i \in 1 .. m |-> Round(x, i, fails[i], remains)]]
           F(f) == [i \in 0 .. m |-> IF i = 0 THEN first ELSE Round(f[i - 1], i, fails[i], remains)]
           h == CHOOSE f : f = F(f)
<1>0. \A i \in 1 .. m : i \in Nat
  OBVIOUS
<1>1. Closed(op, Rounds, m)
  BY <1>0, RoundTyped DEF Closed
<1>3. \A x \in Rounds, i \in 1 .. m : op[x][i] = Round(x, i, fails[i], remains)
  OBVIOUS
<1> HIDE DEF op
<1>4. first \in Rounds
  BY DEF Rounds, RoundsFrom
<1> HIDE DEF first
<1>5. PICK g \in [0 .. m -> Rounds] : Walks(g, op, first, m)
  BY <1>1, <1>4, StepsExist
<1>6. g = F(g)
  <2>1. ASSUME NEW i \in 1 .. m PROVE g[i] = Round(g[i - 1], i, fails[i], remains)
    <3>1. g[i - 1] \in Rounds
      OBVIOUS
    <3>2. g[i] = op[g[i - 1]][i]
      BY <1>5 DEF Walks
    <3> QED
      BY <1>3, <3>1, <3>2
  <2>2. \A i \in 0 .. m : g[i] = IF i = 0 THEN first ELSE Round(g[i - 1], i, fails[i], remains)
    BY <1>5, <2>1 DEF Walks
  <2>3. g = [i \in 0 .. m |-> g[i]]
    OBVIOUS
  <2> QED
    BY <2>2, <2>3
<1>7. h = F(h)
  BY <1>6
<1>8. RoundsOf(b, fails, remains, m) = h[m]
  BY DEF RoundsOf, AfterSteps, first
<1> HIDE DEF h
<1>9. h[0] = first /\ \A i \in 1 .. m : h[i] = Round(h[i - 1], i, fails[i], remains)
  BY <1>7
<1>10. \A i \in 0 .. m : h[i] \in Rounds
  <2>1. \A i \in 1 .. m : h[i - 1] \in Rounds => h[i] \in Rounds
    BY <1>0, <1>9, RoundTyped
  <2> QED
    BY <1>4, <1>9, <2>1, StepsTaken
<1>11. h \in [0 .. m -> Rounds]
  BY <1>7, <1>10
<1> QED
  BY <1>8, <1>9, <1>11 DEF first, RoundBy

(***************************************************************************)
(* Buttons.                                                                *)
(***************************************************************************)
\* The number of a button leads back to it.
LEMMA NumbersAreDecoded ==
  ASSUME NEW b \in Buttons
  PROVE  Decoded(action_to_call(b, Len(Groups)), Len(Groups)) = b
<1>1. Len(Groups) = 3
  BY DEF Groups
<1>2. b \in (0 .. 2) \X (0 .. 21)
  BY DEF Buttons
<1>3. b = <<b[1], b[2]>> /\ b[1] \in 0 .. 2 /\ b[2] \in 0 .. 21
  BY <1>2
<1>4. (b[2] * 3 + b[1]) % 3 = b[1] /\ (b[2] * 3 + b[1]) \div 3 = b[2]
  BY <1>3
<1> QED
  BY <1>1, <1>3, <1>4 DEF Decoded, action_to_call

\* The third group has the 14 tests that MasterTest chooses from.
LEMMA LastGroup ==
  /\ Len(groupActions[3]) = 14
  /\ \A i \in 1 .. 14 : groupActions[3][i] \in Tests
<1>1. Len(groupActions[3]) = 14
  BY DEF groupActions
<1>2. ASSUME NEW i \in 1 .. 14 PROVE groupActions[3][i] \in Tests
  <2> DEFINE b == <<2, i - 1>>
  <2>1. b[1] = 2 /\ b[2] = i - 1 /\ b \in (0 .. 2) \X (0 .. 21)
    OBVIOUS
  <2> HIDE DEF b
  <2>2. b[1] + 1 = 3 /\ b[2] + 1 = i /\ b[2] < 14
    BY <2>1
  <2>3. b[2] < Len(groupActions[b[1] + 1]) /\ Named(b) = groupActions[3][i]
    BY <1>1, <2>2, Zenon DEF Named
  <2>4. b \in Buttons
    BY <2>1, <2>3 DEF Buttons
  <2> QED
    BY <2>3, <2>4 DEF Tests
<1> QED
  BY <1>1, <1>2

\* MasterTest asks for no more repetitions than any request.
LEMMA ArgumentsTyped ==
  ASSUME NEW mode \in Modes, NEW test, Chosen(test, mode)
  PROVE  Arguments(mode)[test] \in 0 .. MaxRepeats
<1>1. test \in {"LVMBtest", "DCFEBJTAGcontrol", "DCFEBFiber", "DCFEBPulses", "CCBReg",
                "DDUPRBSTest", "PCPRBSTest", "OTMBPRBSTest", "MCSBackAndForthBPI",
                "DiscreteLogicTest"}
  <2>1. test \in DOMAIN short_arg
    BY DEF Chosen
  <2> QED
    BY <2>1 DEF short_arg
<1>2. short_arg[test] \in 0 .. 2
  BY <1>1 DEF short_arg
<1>3. long_arg[test] \in 0 .. 2
  BY <1>1 DEF long_arg
<1> QED
  BY <1>2, <1>3, BenchAssumption DEF Arguments

\* MasterTest goes through the last group, button by button.
Noted(done, mode, i) ==
  IF Chosen(groupActions[3][i], mode)
  THEN Append(done, Call(groupActions[3][i], Arguments(mode)[groupActions[3][i]])) ELSE done

CallLists == Seq(Calls)

\* What MasterTest has noted so far are calls.
LEMMA NotedTyped ==
  ASSUME NEW done \in CallLists, NEW mode \in Modes, NEW i \in 1 .. 14
  PROVE  Noted(done, mode, i) \in CallLists
<1> DEFINE t == groupActions[3][i]
<1>1. t \in Tests
  BY LastGroup
<1>2. CASE Chosen(t, mode)
  <2>1. Call(t, Arguments(mode)[t]) \in Calls
    BY <1>1, <1>2, ArgumentsTyped DEF Call, Calls
  <2>2. Noted(done, mode, i) = Append(done, Call(t, Arguments(mode)[t]))
    BY <1>2, Zenon DEF Noted
  <2> HIDE DEF t
  <2> QED
    BY <2>1, <2>2 DEF CallLists
<1>3. CASE ~Chosen(t, mode)
  BY <1>3 DEF Noted
<1> QED
  BY <1>2, <1>3

\* MasterTest makes a list of calls.
LEMMA MasterTestTyped ==
  ASSUME groups_ = Groups, NEW mode \in Modes
  PROVE  MasterTest(mode) \in Seq(Calls)
<1> DEFINE m == 14
           S == CallLists
           op == [x \in S |-> [i \in 1 .. m |-> Noted(x, mode, i)]]
           F(f) == [i \in 0 .. m |-> IF i = 0 THEN <<>> ELSE Noted(f[i - 1], mode, i)]
           h == CHOOSE f : f = F(f)
<1>1. Closed(op, S, m)
  BY NotedTyped DEF Closed
<1>2. \A x \in S, i \in 1 .. m : op[x][i] = Noted(x, mode, i)
  OBVIOUS
<1> HIDE DEF op
<1>3. <<>> \in S
  BY DEF CallLists
<1>4. PICK g \in [0 .. m -> S] : Walks(g, op, <<>>, m)
  <2>1. m \in Nat
    OBVIOUS
  <2> HIDE DEF m, S
  <2> QED
    BY <1>1, <1>3, <2>1, StepsExist
<1>5. g = F(g)
  <2>1. ASSUME NEW i \in 1 .. m PROVE g[i] = Noted(g[i - 1], mode, i)
    <3>1. g[i - 1] \in S
      OBVIOUS
    <3>2. g[i] = op[g[i - 1]][i]
      BY <1>4 DEF Walks
    <3> HIDE DEF S
    <3> QED
      BY <1>2, <3>1, <3>2
  <2>2. \A i \in 0 .. m : g[i] = IF i = 0 THEN <<>> ELSE Noted(g[i - 1], mode, i)
    BY <1>4, <2>1 DEF Walks
  <2>3. g = [i \in 0 .. m |-> g[i]]
    OBVIOUS
  <2> QED
    BY <2>2, <2>3
<1>6. h = F(h)
  BY <1>5
<1>7. currentActionVector_ = groupActions[3] /\ Len(currentActionVector_) = m
  <2>1. Len(groups_) = 3
    BY DEF Groups
  <2> QED
    BY <2>1, LastGroup DEF currentActionVector_
<1>8. MasterTest(mode) = IF mode \cap {"h", "cfg"} # {} THEN Append(h[m], Defaults) ELSE h[m]
  <2> DEFINE v == currentActionVector_
             G(f) == [i \in 0 .. Len(v) |-> IF i = 0 THEN <<>> ELSE
                        IF Chosen(v[i], mode) THEN Append(f[i - 1], Call(v[i], Arguments(mode)[v[i]]))
                        ELSE f[i - 1]]
             calls == (CHOOSE f : f = G(f))[Len(v)]
  <2>1. MasterTest(mode) = IF mode \cap {"h", "cfg"} # {} THEN Append(calls, Defaults) ELSE calls
    BY Zenon DEF MasterTest, AfterSteps
  <2>2. \A f : G(f) = F(f)
    BY <1>7, Zenon DEF Noted
  <2> HIDE DEF v
  <2>3. (CHOOSE f : f = G(f)) = (CHOOSE f : f = F(f))
    BY <2>2
  <2>4. calls = h[m]
    BY <1>7, <2>3 DEF v
  <2> HIDE DEF calls, h, m
  <2> QED
    BY <2>1, <2>4, Zenon
<1> HIDE DEF h
<1>9. h[0] = <<>> /\ \A i \in 1 .. m : h[i] = Noted(h[i - 1], mode, i)
  BY <1>6
<1>10. \A i \in 0 .. m : h[i] \in S
  <2>1. \A i \in 1 .. m : h[i - 1] \in S => h[i] \in S
    BY <1>9, NotedTyped
  <2>2. m \in Nat
    OBVIOUS
  <2> HIDE DEF m, S
  <2> QED
    BY <1>3, <1>9, <2>1, <2>2, StepsTaken
<1>11. Defaults \in Calls
  <2>1. "cfg defaults" \in Tests /\ 0 \in 0 .. MaxRepeats
    BY BenchAssumption DEF Tests
  <2> QED
    BY <2>1 DEF Defaults, Call, Calls
<1>12. h[m] \in Seq(Calls)
  BY <1>10 DEF CallLists
<1> HIDE DEF m
<1> QED
  BY <1>8, <1>11, <1>12

(***************************************************************************)
(* The SPI port.                                                           *)
(***************************************************************************)
\* What each command does if it is obeyed at all.
Command(c) == IF c \in Files THEN "Write page" ELSE c

\* A file is written by the command Write page; others are their own name.
LEMMA CommandOf ==
  ASSUME NEW c \in Queued
  PROVE  /\ c \in Files => Command(c) = "Write page"
         /\ c \notin Files => Command(c) = c
         /\ c \in Files => c \notin Commands /\ c \in Contents
  BY PromAssumption DEF Command, Commands, Contents, Queued

\* What Obey does for a command that works, and is not part of an address.
LEMMA DoesNoOp ==
  ASSUME NEW spi, ~Faulty("spi", "NoOp"), ~spi.half
  PROVE  Obey(spi, "NoOp") = spi
<1>1. "NoOp" \notin Files
  BY PromAssumption
<1> QED
  BY <1>1, Zenon DEF Obey

\* The lower half of an address alone changes nothing.
LEMMA DoesAddrLo ==
  ASSUME NEW spi, ~Faulty("spi", "AddrLo"), ~spi.half
  PROVE  Obey(spi, "AddrLo") = spi
<1>1. "AddrLo" \notin Files
  BY PromAssumption
<1> QED
  BY <1>1, Zenon DEF Obey

\* After the upper half of an address the port waits for the lower one.
LEMMA DoesAddrHi ==
  ASSUME NEW spi, ~Faulty("spi", "AddrHi"), ~spi.half
  PROVE  Obey(spi, "AddrHi") = [spi EXCEPT !.half = TRUE]
<1>1. "AddrHi" \notin Files
  BY PromAssumption
<1> QED
  BY <1>1, Zenon DEF Obey

\* An erase empties the selected PROM, and takes its time.
LEMMA DoesErase ==
  ASSUME NEW spi, ~Faulty("spi", "Erase"), ~spi.half
  PROVE  Obey(spi, "Erase") = [Stored(spi, "erased") EXCEPT !.timer = IF spi.runs THEN "long" ELSE @]
<1>1. "Erase" \notin Files
  BY PromAssumption
<1> QED
  BY <1>1, Zenon DEF Obey

\* The buffer program writes D3B.
LEMMA DoesWriteD3B ==
  ASSUME NEW spi, ~Faulty("spi", "Write D3B"), ~spi.half
  PROVE  Obey(spi, "Write D3B") = Stored(spi, Written(spi.rom[spi.sel], "D3B"))
<1>1. "Write D3B" \notin Files
  BY PromAssumption
<1> QED
  BY <1>1, Zenon DEF Obey

\* Read pushes the word at the address.
LEMMA DoesRead ==
  ASSUME NEW spi, ~Faulty("spi", "Read"), ~spi.half
  PROVE  Obey(spi, "Read") = Pushed(spi, <<IF spi.addr = "FF0000" THEN spi.rom[spi.sel] ELSE "erased">>)
<1>1. "Read" \notin Files
  BY PromAssumption
<1> QED
  BY <1>1, Zenon DEF Obey

\* The timer is zero after its reset.
LEMMA DoesTimerReset ==
  ASSUME NEW spi, ~Faulty("spi", "Timer reset"), ~spi.half
  PROVE  Obey(spi, "Timer reset") = [spi EXCEPT !.timer = "zero"]
<1>1. "Timer reset" \notin Files
  BY PromAssumption
<1> QED
  BY <1>1, Zenon DEF Obey

\* A timer that is started runs.
LEMMA DoesTimerStart ==
  ASSUME NEW spi, ~Faulty("spi", "Timer start"), ~spi.half
  PROVE  Obey(spi, "Timer start") = [spi EXCEPT !.runs = TRUE, !.timer = "short"]
<1>1. "Timer start" \notin Files
  BY PromAssumption
<1> QED
  BY <1>1, Zenon DEF Obey

\* A timer that is stopped does not.
LEMMA DoesTimerStop ==
  ASSUME NEW spi, ~Faulty("spi", "Timer stop"), ~spi.half
  PROVE  Obey(spi, "Timer stop") = [spi EXCEPT !.runs = FALSE]
<1>1. "Timer stop" \notin Files
  BY PromAssumption
<1> QED
  BY <1>1, Zenon DEF Obey

\* Read register shows the default.
LEMMA DoesReadRegister ==
  ASSUME NEW spi, ~Faulty("spi", "Read register"), ~spi.half
  PROVE  Obey(spi, "Read register") = [spi EXCEPT !.shown = "default"]
<1>1. "Read register" \notin Files
  BY PromAssumption
<1> QED
  BY <1>1, Zenon DEF Obey

\* Read volatile shows what was written.
LEMMA DoesReadVolatile ==
  ASSUME NEW spi, ~Faulty("spi", "Read volatile"), ~spi.half
  PROVE  Obey(spi, "Read volatile") = [spi EXCEPT !.shown = spi.vcfg]
<1>1. "Read volatile" \notin Files
  BY PromAssumption
<1> QED
  BY <1>1, Zenon DEF Obey

\* Write volatile writes 0B.
LEMMA DoesWriteVolatile0B ==
  ASSUME NEW spi, ~Faulty("spi", "Write volatile 0B"), ~spi.half
  PROVE  Obey(spi, "Write volatile 0B") = [spi EXCEPT !.vcfg = "0B"]
<1>1. "Write volatile 0B" \notin Files
  BY PromAssumption
<1> QED
  BY <1>1, Zenon DEF Obey

\* Write volatile writes FB.
LEMMA DoesWriteVolatileFB ==
  ASSUME NEW spi, ~Faulty("spi", "Write volatile FB"), ~spi.half
  PROVE  Obey(spi, "Write volatile FB") = [spi EXCEPT !.vcfg = "FB"]
<1>1. "Write volatile FB" \notin Files
  BY PromAssumption
<1> QED
  BY <1>1, Zenon DEF Obey

\* Read ID pushes four words, the last of them the PROM's own.
LEMMA DoesReadID ==
  ASSUME NEW spi, ~Faulty("spi", "Read ID"), ~spi.half
  PROVE  Obey(spi, "Read ID") = Pushed(spi, <<"20BB", "1810", "other", IF spi.sel = 0 THEN "uid 0" ELSE "uid 1">>)
<1>1. "Read ID" \notin Files
  BY PromAssumption
<1> QED
  BY <1>1, Zenon DEF Obey

\* Select 0 selects the first PROM.
LEMMA DoesSelect0 ==
  ASSUME NEW spi, ~Faulty("spi", "Select 0"), ~spi.half
  PROVE  Obey(spi, "Select 0") = [spi EXCEPT !.sel = 0]
<1>1. "Select 0" \notin Files
  BY PromAssumption
<1> QED
  BY <1>1, Zenon DEF Obey

\* Select 1 selects the second PROM.
LEMMA DoesSelect1 ==
  ASSUME NEW spi, ~Faulty("spi", "Select 1"), ~spi.half
  PROVE  Obey(spi, "Select 1") = [spi EXCEPT !.sel = 1]
<1>1. "Select 1" \notin Files
  BY PromAssumption
<1> QED
  BY <1>1, Zenon DEF Obey

\* Lock locks.
LEMMA DoesLock ==
  ASSUME NEW spi, ~Faulty("spi", "Lock"), ~spi.half
  PROVE  Obey(spi, "Lock") = [spi EXCEPT !.locked = TRUE]
<1>1. "Lock" \notin Files
  BY PromAssumption
<1> QED
  BY <1>1, Zenon DEF Obey

\* Unlock unlocks.
LEMMA DoesUnlock ==
  ASSUME NEW spi, ~Faulty("spi", "Unlock"), ~spi.half
  PROVE  Obey(spi, "Unlock") = [spi EXCEPT !.locked = FALSE]
<1>1. "Unlock" \notin Files
  BY PromAssumption
<1> QED
  BY <1>1, Zenon DEF Obey

\* Read lock pushes a word that tells whether it is locked.
LEMMA DoesReadLock ==
  ASSUME NEW spi, ~Faulty("spi", "Read lock"), ~spi.half
  PROVE  Obey(spi, "Read lock") = Pushed(spi, <<IF spi.locked THEN "0" ELSE "1">>)
<1>1. "Read lock" \notin Files
  BY PromAssumption
<1> QED
  BY <1>1, Zenon DEF Obey

\* Lock volatile locks the volatile part.
LEMMA DoesLockVolatile ==
  ASSUME NEW spi, ~Faulty("spi", "Lock volatile"), ~spi.half
  PROVE  Obey(spi, "Lock volatile") = [spi EXCEPT !.vlocked = TRUE]
<1>1. "Lock volatile" \notin Files
  BY PromAssumption
<1> QED
  BY <1>1, Zenon DEF Obey

\* Unlock volatile unlocks it.
LEMMA DoesUnlockVolatile ==
  ASSUME NEW spi, ~Faulty("spi", "Unlock volatile"), ~spi.half
  PROVE  Obey(spi, "Unlock volatile") = [spi EXCEPT !.vlocked = FALSE]
<1>1. "Unlock volatile" \notin Files
  BY PromAssumption
<1> QED
  BY <1>1, Zenon DEF Obey

\* Its state is pushed as a word, with the bit reversed.
LEMMA DoesReadVolatileLock ==
  ASSUME NEW spi, ~Faulty("spi", "Read volatile lock"), ~spi.half
  PROVE  Obey(spi, "Read volatile lock") = Pushed(spi, <<IF spi.vlocked THEN "1" ELSE "0">>)
<1>1. "Read volatile lock" \notin Files
  BY PromAssumption
<1> QED
  BY <1>1, Zenon DEF Obey

\* Write page writes the words of the file.
LEMMA DoesFile ==
  ASSUME NEW spi, NEW c \in Files, ~Faulty("spi", "Write page"), ~spi.half
  PROVE  Obey(spi, c) = Stored(spi, Written(spi.rom[spi.sel], c))
<1>1. c = "A" \/ c = "B" \/ c = "zeros"
  BY PromAssumption
<1>2. CASE c = "A"
  BY <1>2, Zenon DEF Obey
<1>3. CASE c = "B"
  BY <1>3, Zenon DEF Obey
<1>4. CASE c = "zeros"
  BY <1>4, Zenon DEF Obey
<1> QED
  BY <1>1, <1>2, <1>3, <1>4

\* A command with a fault does nothing.
LEMMA DoesNothing ==
  ASSUME NEW spi, NEW c, Faulty("spi", Command(c))
  PROVE  Obey(spi, c) = spi
  BY Zenon DEF Obey, Command

\* After the upper half, whatever follows ends the address.
LEMMA DoesHalf ==
  ASSUME NEW spi, NEW c, ~Faulty("spi", Command(c)), spi.half
  PROVE  Obey(spi, c) = [spi EXCEPT !.half = FALSE, !.addr = IF c = "AddrLo" THEN "FF0000" ELSE "other"]
  BY Zenon DEF Obey, Command

\* What is stored in a PROM keeps the port's type and nothing else moves.
LEMMA RomTyped ==
  ASSUME NEW spi \in Spi, NEW new \in Contents
  PROVE  /\ spi.rom[spi.sel] \in Contents
         /\ Written(spi.rom[spi.sel], new) \in Contents
         /\ Stored(spi, new) \in Spi
         /\ Stored(spi, new).on = spi.on /\ Stored(spi, new).queue = spi.queue
         /\ Stored(spi, new).fifo = spi.fifo
<1>1. spi.rom[spi.sel] \in Contents
  BY DEF Spi
<1>2. Written(spi.rom[spi.sel], new) \in Contents
  BY <1>1 DEF Written, Contents
<1>3. /\ Stored(spi, new) \in Spi
      /\ Stored(spi, new).on = spi.on /\ Stored(spi, new).queue = spi.queue
      /\ Stored(spi, new).fifo = spi.fifo
  <2>1. [spi.rom EXCEPT ![spi.sel] = new] \in [0 .. 1 -> Contents]
    BY DEF Spi
  <2>2. Stored(spi, new) \in {spi, [spi EXCEPT !.rom = [spi.rom EXCEPT ![spi.sel] = new]]}
    BY DEF Stored
  <2> QED
    BY <2>1, <2>2 DEF Spi
<1> QED
  BY <1>1, <1>2, <1>3

\* The concatenation of two sequences is one, as long as both.
LEMMA Joined ==
  ASSUME NEW S, NEW s \in Seq(S), NEW t \in Seq(S)
  PROVE  s \o t \in Seq(S) /\ Len(s \o t) = Len(s) + Len(t) /\ Len(s) \in Nat /\ Len(t) \in Nat
  OBVIOUS

\* A single word is a sequence of words.
LEMMA OneWord ==
  ASSUME NEW S, NEW w \in S
  PROVE  <<w>> \in Seq(S) /\ Len(<<w>>) = 1
  OBVIOUS

\* Four words are a sequence of words.
LEMMA FourWords ==
  ASSUME NEW S, NEW w \in S, {"20BB", "1810", "other"} \subseteq S
  PROVE  /\ <<"20BB", "1810", "other", w>> \in Seq(S)
         /\ Len(<<"20BB", "1810", "other", w>>) = 4
  OBVIOUS

\* The two PROMs.
LEMMA Digits == 0 \in 0 .. 1 /\ 1 \in 0 .. 1
  OBVIOUS

\* Words that are pushed are behind those in the FIFO.
LEMMA PushedTyped ==
  ASSUME NEW spi \in Spi, NEW words \in Seq(SpiWords)
  PROVE  /\ Pushed(spi, words) \in Spi
         /\ Pushed(spi, words).on = spi.on /\ Pushed(spi, words).queue = spi.queue
         /\ Pushed(spi, words).fifo = spi.fifo \o words
<1>1. spi.fifo \o words \in Seq(SpiWords)
  BY DEF Spi
<1> HIDE DEF SpiWords
<1>2. Pushed(spi, words) = [spi EXCEPT !.fifo = spi.fifo \o words]
  BY DEF Pushed
<1> QED
  BY <1>1, <1>2 DEF Spi

\* Commands that put words into the FIFO, and how many.
Pushes(c) == CASE c = "Read ID" -> 4 [] c \in {"Read", "Read lock", "Read volatile lock"} -> 1 [] OTHER -> 0

\* A command leaves the rest of the port alone.
Obeyed(spi, c, next) ==
  /\ next \in Spi /\ next.on = spi.on /\ next.queue = spi.queue
  /\ next.fifo = spi.fifo \/ Len(next.fifo) = Len(spi.fifo) + Pushes(c)

\* Every command keeps the port's type, and adds no more words than it pushes.
LEMMA ObeyTyped ==
  ASSUME NEW spi \in Spi, NEW c \in Queued
  PROVE  Obeyed(spi, c, Obey(spi, c))
<1>0. /\ spi.rom[spi.sel] \in Contents /\ spi.fifo \in Seq(SpiWords)
      /\ "erased" \in Contents /\ "D3B" \in Contents
  BY RomTyped DEF Spi, Contents
<1>a. CASE Faulty("spi", Command(c))
  BY <1>a, DoesNothing DEF Obeyed
<1>b. CASE ~Faulty("spi", Command(c)) /\ spi.half
  <2> DEFINE s1 == [spi EXCEPT !.half = FALSE]
             a == IF c = "AddrLo" THEN "FF0000" ELSE "other"
  <2>1. s1 \in Spi /\ s1.on = spi.on /\ s1.queue = spi.queue /\ s1.fifo = spi.fifo
    BY DEF Spi
  <2>2. Obey(spi, c) = [s1 EXCEPT !.addr = a]
    BY <1>b, DoesHalf
  <2>3. a \in {"none", "FF0000", "other"}
    OBVIOUS
  <2> HIDE DEF s1, a
  <2> QED
    BY <2>1, <2>2, <2>3 DEF Spi, Obeyed
<1>c. CASE ~Faulty("spi", Command(c)) /\ ~spi.half
  <2>0. (c \notin Files => ~Faulty("spi", c)) /\ (c \in Files => ~Faulty("spi", "Write page"))
    BY <1>c, CommandOf
  <2>1. CASE c = "NoOp"
    <3>0. ~Faulty("spi", "NoOp")
      BY <2>0, <2>1, PromAssumption
    <3>1. Obey(spi, c) = spi
      BY <1>c, <2>1, <3>0, DoesNoOp, Zenon
    <3> QED
      BY <3>1 DEF Obeyed
  <2>2. CASE c = "AddrLo"
    <3>0. ~Faulty("spi", "AddrLo")
      BY <2>0, <2>2, PromAssumption
    <3>1. Obey(spi, c) = spi
      BY <1>c, <2>2, <3>0, DoesAddrLo, Zenon
    <3> QED
      BY <3>1 DEF Obeyed
  <2>3. CASE c = "AddrHi"
    <3>0. ~Faulty("spi", "AddrHi")
      BY <2>0, <2>3, PromAssumption
    <3>1. Obey(spi, c) = [spi EXCEPT !.half = TRUE]
      BY <1>c, <2>3, <3>0, DoesAddrHi, Zenon
    <3> QED
      BY <3>1 DEF Obeyed, Spi
  <2>4. CASE c = "Erase"
    <3>0. ~Faulty("spi", "Erase")
      BY <2>0, <2>4, PromAssumption
    <3>1. Obey(spi, c) = [Stored(spi, "erased") EXCEPT !.timer = IF spi.runs THEN "long" ELSE @]
      BY <1>c, <2>4, <3>0, DoesErase, Zenon
    <3> DEFINE s1 == Stored(spi, "erased")
               t == IF spi.runs THEN "long" ELSE s1.timer
    <3>2. s1 \in Spi /\ s1.on = spi.on /\ s1.queue = spi.queue /\ s1.fifo = spi.fifo
      BY <1>0, RomTyped
    <3>3. Obey(spi, c) = [s1 EXCEPT !.timer = t]
      BY <3>1
    <3>4. t \in {"zero", "short", "long"}
      BY <3>2 DEF Spi
    <3> HIDE DEF s1, t
    <3> QED
      BY <3>2, <3>3, <3>4 DEF Obeyed, Spi
  <2>5. CASE c = "Write D3B"
    <3>0. ~Faulty("spi", "Write D3B")
      BY <2>0, <2>5, PromAssumption
    <3>1. Obey(spi, c) = Stored(spi, Written(spi.rom[spi.sel], "D3B"))
      BY <1>c, <2>5, <3>0, DoesWriteD3B, Zenon
    <3> DEFINE w == Written(spi.rom[spi.sel], "D3B")
    <3>2. w \in Contents
      BY <1>0, RomTyped
    <3> HIDE DEF w
    <3>3. Obey(spi, c) = Stored(spi, w)
      BY <3>1 DEF w
    <3> QED
      BY <3>2, <3>3, RomTyped DEF Obeyed
  <2>6. CASE c = "Read"
    <3>0. ~Faulty("spi", "Read")
      BY <2>0, <2>6, PromAssumption
    <3>1. Obey(spi, c) = Pushed(spi, <<IF spi.addr = "FF0000" THEN spi.rom[spi.sel] ELSE "erased">>)
      BY <1>c, <2>6, <3>0, DoesRead, Zenon
    <3> DEFINE w == IF spi.addr = "FF0000" THEN spi.rom[spi.sel] ELSE "erased"
    <3>2. w \in SpiWords
      BY <1>0 DEF SpiWords, Contents
    <3>3. Pushes(c) = 1
      BY <2>6, Zenon DEF Pushes
    <3> HIDE DEF w
    <3> DEFINE words == <<w>>
    <3>4. words \in Seq(SpiWords) /\ Len(words) = 1
      BY <3>2, OneWord, Zenon
    <3>5. Obey(spi, c) = Pushed(spi, words)
      BY <3>1 DEF w
    <3> HIDE DEF words
    <3>6. Len(spi.fifo \o words) = Len(spi.fifo) + Pushes(c)
      BY <1>0, <3>3, <3>4, Joined
    <3> QED
      BY <3>4, <3>5, <3>6, PushedTyped DEF Obeyed
  <2>7. CASE c = "Timer reset"
    <3>0. ~Faulty("spi", "Timer reset")
      BY <2>0, <2>7, PromAssumption
    <3>1. Obey(spi, c) = [spi EXCEPT !.timer = "zero"]
      BY <1>c, <2>7, <3>0, DoesTimerReset, Zenon
    <3> QED
      BY <3>1 DEF Obeyed, Spi
  <2>8. CASE c = "Timer start"
    <3>0. ~Faulty("spi", "Timer start")
      BY <2>0, <2>8, PromAssumption
    <3>1. Obey(spi, c) = [spi EXCEPT !.runs = TRUE, !.timer = "short"]
      BY <1>c, <2>8, <3>0, DoesTimerStart, Zenon
    <3> DEFINE s1 == [spi EXCEPT !.runs = TRUE]
    <3>2. s1 \in Spi /\ s1.on = spi.on /\ s1.queue = spi.queue /\ s1.fifo = spi.fifo
      BY DEF Spi
    <3>3. Obey(spi, c) = [s1 EXCEPT !.timer = "short"]
      BY <3>1
    <3> HIDE DEF s1
    <3> QED
      BY <3>2, <3>3 DEF Obeyed, Spi
  <2>9. CASE c = "Timer stop"
    <3>0. ~Faulty("spi", "Timer stop")
      BY <2>0, <2>9, PromAssumption
    <3>1. Obey(spi, c) = [spi EXCEPT !.runs = FALSE]
      BY <1>c, <2>9, <3>0, DoesTimerStop, Zenon
    <3> QED
      BY <3>1 DEF Obeyed, Spi
  <2>10. CASE c = "Read register"
    <3>0. ~Faulty("spi", "Read register")
      BY <2>0, <2>10, PromAssumption
    <3>1. Obey(spi, c) = [spi EXCEPT !.shown = "default"]
      BY <1>c, <2>10, <3>0, DoesReadRegister, Zenon
    <3> QED
      BY <3>1 DEF Obeyed, Spi
  <2>11. CASE c = "Read volatile"
    <3>0. ~Faulty("spi", "Read volatile")
      BY <2>0, <2>11, PromAssumption
    <3>1. Obey(spi, c) = [spi EXCEPT !.shown = spi.vcfg]
      BY <1>c, <2>11, <3>0, DoesReadVolatile, Zenon
    <3> QED
      BY <3>1 DEF Obeyed, Spi
  <2>12. CASE c = "Write volatile 0B"
    <3>0. ~Faulty("spi", "Write volatile 0B")
      BY <2>0, <2>12, PromAssumption
    <3>1. Obey(spi, c) = [spi EXCEPT !.vcfg = "0B"]
      BY <1>c, <2>12, <3>0, DoesWriteVolatile0B, Zenon
    <3> QED
      BY <3>1 DEF Obeyed, Spi
  <2>13. CASE c = "Write volatile FB"
    <3>0. ~Faulty("spi", "Write volatile FB")
      BY <2>0, <2>13, PromAssumption
    <3>1. Obey(spi, c) = [spi EXCEPT !.vcfg = "FB"]
      BY <1>c, <2>13, <3>0, DoesWriteVolatileFB, Zenon
    <3> QED
      BY <3>1 DEF Obeyed, Spi
  <2>14. CASE c = "Read ID"
    <3>0. ~Faulty("spi", "Read ID")
      BY <2>0, <2>14, PromAssumption
    <3>1. Obey(spi, c) = Pushed(spi, <<"20BB", "1810", "other", IF spi.sel = 0 THEN "uid 0" ELSE "uid 1">>)
      BY <1>c, <2>14, <3>0, DoesReadID, Zenon
    <3> DEFINE w == IF spi.sel = 0 THEN "uid 0" ELSE "uid 1"
    <3>2. w \in SpiWords /\ {"20BB", "1810", "other"} \subseteq SpiWords
      BY <1>0 DEF SpiWords, Contents
    <3>3. Pushes(c) = 4
      BY <2>14, Zenon DEF Pushes
    <3> HIDE DEF w
    <3> DEFINE words == <<"20BB", "1810", "other", w>>
    <3>4. words \in Seq(SpiWords) /\ Len(words) = 4
      BY <3>2, FourWords, Zenon
    <3>5. Obey(spi, c) = Pushed(spi, words)
      BY <3>1 DEF w
    <3> HIDE DEF words
    <3>6. Len(spi.fifo \o words) = Len(spi.fifo) + Pushes(c)
      BY <1>0, <3>3, <3>4, Joined
    <3> QED
      BY <3>4, <3>5, <3>6, PushedTyped DEF Obeyed
  <2>15. CASE c = "Select 0"
    <3>0. ~Faulty("spi", "Select 0")
      BY <2>0, <2>15, PromAssumption
    <3>1. Obey(spi, c) = [spi EXCEPT !.sel = 0]
      BY <1>c, <2>15, <3>0, DoesSelect0, Zenon
    <3> DEFINE z == 0
    <3>2. z \in 0 .. 1
      BY Digits
    <3>3. Obey(spi, c) = [spi EXCEPT !.sel = z]
      BY <3>1
    <3> HIDE DEF z
    <3> QED
      BY <3>2, <3>3 DEF Obeyed, Spi
  <2>16. CASE c = "Select 1"
    <3>0. ~Faulty("spi", "Select 1")
      BY <2>0, <2>16, PromAssumption
    <3>1. Obey(spi, c) = [spi EXCEPT !.sel = 1]
      BY <1>c, <2>16, <3>0, DoesSelect1, Zenon
    <3> DEFINE z == 1
    <3>2. z \in 0 .. 1
      BY Digits
    <3>3. Obey(spi, c) = [spi EXCEPT !.sel = z]
      BY <3>1
    <3> HIDE DEF z
    <3> QED
      BY <3>2, <3>3 DEF Obeyed, Spi
  <2>17. CASE c = "Lock"
    <3>0. ~Faulty("spi", "Lock")
      BY <2>0, <2>17, PromAssumption
    <3>1. Obey(spi, c) = [spi EXCEPT !.locked = TRUE]
      BY <1>c, <2>17, <3>0, DoesLock, Zenon
    <3> QED
      BY <3>1 DEF Obeyed, Spi
  <2>18. CASE c = "Unlock"
    <3>0. ~Faulty("spi", "Unlock")
      BY <2>0, <2>18, PromAssumption
    <3>1. Obey(spi, c) = [spi EXCEPT !.locked = FALSE]
      BY <1>c, <2>18, <3>0, DoesUnlock, Zenon
    <3> QED
      BY <3>1 DEF Obeyed, Spi
  <2>19. CASE c = "Read lock"
    <3>0. ~Faulty("spi", "Read lock")
      BY <2>0, <2>19, PromAssumption
    <3>1. Obey(spi, c) = Pushed(spi, <<IF spi.locked THEN "0" ELSE "1">>)
      BY <1>c, <2>19, <3>0, DoesReadLock, Zenon
    <3> DEFINE w == IF spi.locked THEN "0" ELSE "1"
    <3>2. w \in SpiWords
      BY <1>0 DEF SpiWords, Contents
    <3>3. Pushes(c) = 1
      BY <2>19, Zenon DEF Pushes
    <3> HIDE DEF w
    <3> DEFINE words == <<w>>
    <3>4. words \in Seq(SpiWords) /\ Len(words) = 1
      BY <3>2, OneWord, Zenon
    <3>5. Obey(spi, c) = Pushed(spi, words)
      BY <3>1 DEF w
    <3> HIDE DEF words
    <3>6. Len(spi.fifo \o words) = Len(spi.fifo) + Pushes(c)
      BY <1>0, <3>3, <3>4, Joined
    <3> QED
      BY <3>4, <3>5, <3>6, PushedTyped DEF Obeyed
  <2>20. CASE c = "Lock volatile"
    <3>0. ~Faulty("spi", "Lock volatile")
      BY <2>0, <2>20, PromAssumption
    <3>1. Obey(spi, c) = [spi EXCEPT !.vlocked = TRUE]
      BY <1>c, <2>20, <3>0, DoesLockVolatile, Zenon
    <3> QED
      BY <3>1 DEF Obeyed, Spi
  <2>21. CASE c = "Unlock volatile"
    <3>0. ~Faulty("spi", "Unlock volatile")
      BY <2>0, <2>21, PromAssumption
    <3>1. Obey(spi, c) = [spi EXCEPT !.vlocked = FALSE]
      BY <1>c, <2>21, <3>0, DoesUnlockVolatile, Zenon
    <3> QED
      BY <3>1 DEF Obeyed, Spi
  <2>22. CASE c = "Read volatile lock"
    <3>0. ~Faulty("spi", "Read volatile lock")
      BY <2>0, <2>22, PromAssumption
    <3>1. Obey(spi, c) = Pushed(spi, <<IF spi.vlocked THEN "1" ELSE "0">>)
      BY <1>c, <2>22, <3>0, DoesReadVolatileLock, Zenon
    <3> DEFINE w == IF spi.vlocked THEN "1" ELSE "0"
    <3>2. w \in SpiWords
      BY <1>0 DEF SpiWords, Contents
    <3>3. Pushes(c) = 1
      BY <2>22, Zenon DEF Pushes
    <3> HIDE DEF w
    <3> DEFINE words == <<w>>
    <3>4. words \in Seq(SpiWords) /\ Len(words) = 1
      BY <3>2, OneWord, Zenon
    <3>5. Obey(spi, c) = Pushed(spi, words)
      BY <3>1 DEF w
    <3> HIDE DEF words
    <3>6. Len(spi.fifo \o words) = Len(spi.fifo) + Pushes(c)
      BY <1>0, <3>3, <3>4, Joined
    <3> QED
      BY <3>4, <3>5, <3>6, PushedTyped DEF Obeyed
  <2>23. CASE c \in Files
    <3>1. Obey(spi, c) = Stored(spi, Written(spi.rom[spi.sel], c))
      BY <1>c, <2>0, <2>23, DoesFile, Zenon
    <3> DEFINE w == Written(spi.rom[spi.sel], c)
    <3>2. w \in Contents
      BY <2>23, CommandOf, RomTyped
    <3> HIDE DEF w
    <3>3. Obey(spi, c) = Stored(spi, w)
      BY <3>1 DEF w
    <3> QED
      BY <3>2, <3>3, RomTyped DEF Obeyed
  <2> QED
    BY <2>1, <2>2, <2>3, <2>4, <2>5, <2>6, <2>7, <2>8, <2>9, <2>10, <2>11, <2>12, <2>13, <2>14, <2>15, <2>16, <2>17, <2>18, <2>19, <2>20, <2>21, <2>22, <2>23 DEF Commands, Queued
<1> QED
  BY <1>a, <1>b, <1>c

\* Enabled again, the port obeys the commands that have waited.
Flushed(spi) == AfterSteps(LAMBDA s, i: Obey(s, spi.queue[i]), spi, Len(spi.queue))
FlushedBy(g, spi) ==
  /\ g \in [0 .. Len(spi.queue) -> Ports]
  /\ g[0] = spi
  /\ \A i \in 1 .. Len(spi.queue) : g[i] = Obey(g[i - 1], spi.queue[i])
  /\ Flushed(spi) = g[Len(spi.queue)]

\* The same for a port with what it still has to do.
LEMMA ObeyedPort ==
  ASSUME NEW spi \in Ports, NEW c \in Queued
  PROVE  /\ Obey(spi, c) \in Ports /\ Obey(spi, c).on = spi.on /\ Obey(spi, c).queue = spi.queue
         /\ \/ Obey(spi, c).fifo = spi.fifo
            \/ Len(Obey(spi, c).fifo) = Len(spi.fifo) + Pushes(c)
  BY ObeyTyped DEF Ports, Obeyed

\* The states of the port while it does what has waited are a function.
LEMMA FlushSteps ==
  ASSUME NEW spi \in Ports
  PROVE  \E g : FlushedBy(g, spi)
<1> DEFINE q == spi.queue
           m == Len(q)
           op == [x \in Ports |-> [i \in 1 .. m |-> Obey(x, q[i])]]
           F(f) == [i \in 0 .. m |-> IF i = 0 THEN spi ELSE Obey(f[i - 1], q[i])]
           h == CHOOSE f : f = F(f)
<1>1. q \in Seq(Queued)
  BY DEF Ports
<1>2. m \in Nat /\ \A i \in 1 .. m : q[i] \in Queued
  BY <1>1
<1>3. Flushed(spi) = h[m]
  BY DEF Flushed, AfterSteps
<1> HIDE DEF q, m
<1>4. Closed(op, Ports, m)
  BY <1>2, ObeyedPort DEF Closed
<1>5. \A x \in Ports, i \in 1 .. m : op[x][i] = Obey(x, q[i])
  OBVIOUS
<1> HIDE DEF op
<1>6. PICK g \in [0 .. m -> Ports] : Walks(g, op, spi, m)
  BY <1>2, <1>4, StepsExist
<1>7. g = F(g)
  <2>1. ASSUME NEW i \in 1 .. m PROVE g[i] = Obey(g[i - 1], q[i])
    <3>1. g[i - 1] \in Ports
      BY <1>2
    <3>2. g[i] = op[g[i - 1]][i]
      BY <1>6 DEF Walks
    <3> QED
      BY <1>5, <3>1, <3>2
  <2>2. \A i \in 0 .. m : g[i] = IF i = 0 THEN spi ELSE Obey(g[i - 1], q[i])
    BY <1>2, <1>6, <2>1 DEF Walks
  <2>3. g = [i \in 0 .. m |-> g[i]]
    OBVIOUS
  <2> QED
    BY <2>2, <2>3
<1>8. h = F(h)
  BY <1>7
<1> HIDE DEF h
<1>9. h[0] = spi /\ \A i \in 1 .. m : h[i] = Obey(h[i - 1], q[i])
  BY <1>2, <1>8
<1>10. \A i \in 0 .. m : h[i] \in Ports
  <2>1. \A i \in 1 .. m : h[i - 1] \in Ports => h[i] \in Ports
    BY <1>2, <1>9, ObeyedPort
  <2> QED
    BY <1>2, <1>9, <2>1, StepsTaken
<1>11. h \in [0 .. m -> Ports]
  BY <1>8, <1>10
<1> QED
  BY <1>3, <1>9, <1>11, Zenon DEF m, q, FlushedBy

\* Commands that put no words into the FIFO.
Quiet == Queued \ {"Read", "Read ID", "Read lock", "Read volatile lock"}

\* Most commands push no words.
LEMMA ObeyQuiet ==
  ASSUME NEW spi \in Ports, NEW c \in Quiet
  PROVE  Obey(spi, c).fifo = spi.fifo \/ Len(Obey(spi, c).fifo) = Len(spi.fifo)
<1>1. c \in Queued /\ c \notin {"Read", "Read ID", "Read lock", "Read volatile lock"}
  BY DEF Quiet
<1>2. Pushes(c) = 0
  BY <1>1, Zenon DEF Pushes
<1>3. Len(spi.fifo) \in Nat
  BY DEF Ports, Spi
<1>4. Len(spi.fifo) + Pushes(c) = Len(spi.fifo)
  BY <1>2, <1>3
<1> QED
  BY <1>1, <1>4, ObeyedPort

\* A port that has done what waited is a port.
LEMMA FlushedPort ==
  ASSUME NEW spi \in Ports
  PROVE  /\ Flushed(spi) \in Ports
         /\ spi.queue \in Seq(Quiet) => Len(Flushed(spi).fifo) = Len(spi.fifo)
<1>1. PICK g : FlushedBy(g, spi)
  BY FlushSteps
<1> DEFINE m == Len(spi.queue)
           S == {s \in Ports : Len(s.fifo) = Len(spi.fifo)}
<1>2. m \in Nat
  BY DEF Ports
<1>3. Flushed(spi) \in Ports
  BY <1>1, <1>2 DEF FlushedBy
<1>4. ASSUME spi.queue \in Seq(Quiet)
      PROVE  Len(Flushed(spi).fifo) = Len(spi.fifo)
  <2>1. \A i \in 1 .. m : spi.queue[i] \in Quiet
    BY <1>4
  <2>2. \A i \in 1 .. m : g[i - 1] \in Ports /\ g[i] \in Ports /\ g[i] = Obey(g[i - 1], spi.queue[i])
    BY <1>1, <1>2 DEF FlushedBy
  <2>3. \A i \in 1 .. m : g[i - 1] \in S => g[i] \in S
    BY <2>1, <2>2, ObeyQuiet
  <2>4. g[0] \in S
    BY <1>1 DEF FlushedBy
  <2> HIDE DEF S, m
  <2>5. \A i \in 0 .. m : g[i] \in S
    BY <1>2, <2>3, <2>4, StepsTaken
  <2>6. g[m] \in S
    BY <1>2, <2>5
  <2> QED
    BY <1>1, <2>6 DEF S, m, FlushedBy
<1> QED
  BY <1>3, <1>4

\* What reaches the port.
PortCommands == Queued \cup {"Enable", "Disable", "Reset FSM"}

\* The commands that may wait do not switch the port.
LEMMA QueuedIsNoSwitch ==
  ASSUME NEW c \in Queued
  PROVE  c \notin {"Enable", "Disable", "Reset FSM"}
<1>1. "Enable" \notin Queued
  BY PromAssumption, Zenon DEF Queued, Commands
<1>2. "Disable" \notin Queued
  BY PromAssumption, Zenon DEF Queued, Commands
<1>3. "Reset FSM" \notin Queued
  BY PromAssumption, Zenon DEF Queued, Commands
<1> QED
  BY <1>1, <1>2, <1>3, Zenon

\* A port that is on obeys at once.
LEMMA PortOn ==
  ASSUME NEW spi, NEW c \in Queued, spi.on
  PROVE  Port(spi, c) = Obey(spi, c)
<1>1. c \notin {"Enable", "Disable", "Reset FSM"}
  BY QueuedIsNoSwitch, Zenon
<1> QED
  BY <1>1, Zenon DEF Port

\* A port that is off lets the command wait.
LEMMA PortOff ==
  ASSUME NEW spi, NEW c \in Queued, ~spi.on
  PROVE  Port(spi, c) = [spi EXCEPT !.queue = Append(spi.queue, c)]
<1>1. c \notin {"Enable", "Disable", "Reset FSM"}
  BY QueuedIsNoSwitch, Zenon
<1> QED
  BY <1>1, Zenon DEF Port

\* Enable does what has waited, unless it is faulty.
LEMMA PortEnable ==
  ASSUME NEW spi
  PROVE  /\ Faulty("spi", "Enable") => Port(spi, "Enable") = spi
         /\ ~Faulty("spi", "Enable") =>
              Port(spi, "Enable") = [Flushed(spi) EXCEPT !.on = TRUE, !.queue = <<>>]
  BY Zenon DEF Port, Flushed

\* Disable switches the port off, unless it is faulty.
LEMMA PortDisable ==
  ASSUME NEW spi
  PROVE  /\ Faulty("spi", "Disable") => Port(spi, "Disable") = spi
         /\ ~Faulty("spi", "Disable") => Port(spi, "Disable") = [spi EXCEPT !.on = FALSE]
<1>1. "Disable" # "Enable"
  OBVIOUS
<1> QED
  BY <1>1, Zenon DEF Port

\* Reset FSM ends an address that has been begun, unless it is faulty.
LEMMA PortReset ==
  ASSUME NEW spi
  PROVE  /\ Faulty("spi", "Reset FSM") => Port(spi, "Reset FSM") = spi
         /\ ~Faulty("spi", "Reset FSM") => Port(spi, "Reset FSM") = [spi EXCEPT !.half = FALSE]
<1>1. "Reset FSM" # "Enable" /\ "Reset FSM" # "Disable"
  OBVIOUS
<1> QED
  BY <1>1, Zenon DEF Port

\* The port after Enable.
LEMMA EnabledPort ==
  ASSUME NEW spi \in Ports
  PROVE  \E p \in Ports : /\ p = [Flushed(spi) EXCEPT !.on = TRUE, !.queue = <<>>]
                          /\ p.on = TRUE /\ p.queue = <<>>
                          /\ p.fifo = Flushed(spi).fifo
<1> DEFINE f == Flushed(spi)
           f1 == [f EXCEPT !.on = TRUE]
           f2 == [f1 EXCEPT !.queue = <<>>]
<1>1. f \in Ports
  BY FlushedPort
<1> HIDE DEF f
<1>2. f1 \in Ports /\ f1.on = TRUE /\ f1.fifo = f.fifo
  BY <1>1 DEF Ports, Spi
<1> HIDE DEF f1
<1>3. f2 \in Ports /\ f2.on = TRUE /\ f2.queue = <<>> /\ f2.fifo = f.fifo
  <2>1. <<>> \in Seq(Queued) /\ <<>> \in Seq(Commands \cup Files)
    OBVIOUS
  <2> QED
    BY <1>2, <2>1 DEF Ports, Spi
<1>4. f2 = [Flushed(spi) EXCEPT !.on = TRUE, !.queue = <<>>]
  BY DEF f, f1
<1> QED
  BY <1>3, <1>4, Zenon DEF f

\* The port with one more command that waits.
LEMMA QueuedLonger ==
  ASSUME NEW spi \in Ports, NEW c \in Queued
  PROVE  \E p \in Ports : /\ p = [spi EXCEPT !.queue = Append(spi.queue, c)]
                          /\ p.on = spi.on /\ p.fifo = spi.fifo
                          /\ p.queue = Append(spi.queue, c)
<1> DEFINE q == Append(spi.queue, c)
           p == [spi EXCEPT !.queue = q]
<1>1. q \in Seq(Queued) /\ q \in Seq(Commands \cup Files)
  <2>1. spi.queue \in Seq(Queued)
    BY DEF Ports
  <2>2. q \in Seq(Queued)
    BY <2>1
  <2>3. Queued \subseteq Commands \cup Files
    BY Zenon DEF Queued
  <2> HIDE DEF q
  <2> QED
    BY <2>2, <2>3, SeqMonotonic, Zenon
<1> HIDE DEF q
<1>2. p \in Ports /\ p.on = spi.on /\ p.fifo = spi.fifo /\ p.queue = q
  BY <1>1 DEF Ports, Spi
<1> HIDE DEF p
<1> QED
  BY <1>2, Zenon DEF q, p

\* Every command keeps the port's type.
LEMMA PortTyped ==
  ASSUME NEW spi \in Ports, NEW c \in PortCommands
  PROVE  Port(spi, c) \in Ports
<1>1. CASE c \in Queued /\ spi.on
  <2>1. Obey(spi, c) \in Ports
    BY <1>1, ObeyedPort
  <2> QED
    BY <1>1, <2>1, PortOn, Zenon
<1>2. CASE c \in Queued /\ ~spi.on
  <2>1. PICK p \in Ports : p = [spi EXCEPT !.queue = Append(spi.queue, c)]
    BY <1>2, QueuedLonger
  <2>2. Port(spi, c) = [spi EXCEPT !.queue = Append(spi.queue, c)]
    BY <1>2, PortOff, Zenon
  <2>3. Port(spi, c) = p
    BY <2>1, <2>2, Zenon
  <2> QED
    BY <2>3
<1>3. CASE c = "Enable"
  BY <1>3, PortEnable, EnabledPort, Zenon
<1>4. CASE c = "Disable"
  <2>1. [spi EXCEPT !.on = FALSE] \in Ports
    BY DEF Ports, Spi
  <2> QED
    BY <1>4, <2>1, PortDisable, Zenon
<1>5. CASE c = "Reset FSM"
  <2>1. [spi EXCEPT !.half = FALSE] \in Ports
    BY DEF Ports, Spi
  <2> QED
    BY <1>5, <2>1, PortReset, Zenon
<1> QED
  BY <1>1, <1>2, <1>3, <1>4, <1>5, Zenon DEF PortCommands

(***************************************************************************)
(* SPIcheck: the states of a run, and what each kind of step makes of one. *)
(***************************************************************************)
Uids == SpiWords \cup {"misread"}

RunStates ==
    [board : IdleBoards, uids : Seq(Uids), og : Configurations, known : BOOLEAN, ok : BOOLEAN]

\* q is r with another port, or with other configurations.
SpiStep(r, q, spi) ==
    /\ q \in RunStates /\ q.board.spi = spi
    /\ q.board.cfg = r.board.cfg /\ q.board.prom = r.board.prom
    /\ q.og = r.og /\ q.known = r.known

CfgStep(r, q, cfg, prom) ==
    /\ q \in RunStates /\ q.board.spi = r.board.spi
    /\ q.board.cfg = cfg /\ q.board.prom = prom
    /\ q.uids = r.uids /\ q.og = r.og /\ q.known = r.known /\ q.ok = r.ok

\* A step at the port changes nothing else of the run.
LEMMA PortPlaced ==
  ASSUME NEW r \in RunStates, NEW p \in Ports
  PROVE  LET q == [r EXCEPT !.board.spi = p]
         IN SpiStep(r, q, p) /\ q.uids = r.uids /\ q.ok = r.ok
<1> DEFINE b == [r.board EXCEPT !.spi = p]
           q == [r EXCEPT !.board = b]
<1>1. b \in IdleBoards /\ b.spi = p /\ b.cfg = r.board.cfg /\ b.prom = r.board.prom
  <2>1. r.board \in IdleBoards
    BY DEF RunStates
  <2>2. b \in Boards(Spi) /\ b.jtag = r.board.jtag /\ b.spi = p
    BY <2>1 DEF IdleBoards, Boards, Ports
  <2>3. b.cfg = r.board.cfg /\ b.prom = r.board.prom
    BY <2>1 DEF IdleBoards, Boards
  <2> HIDE DEF b
  <2> QED
    BY <2>1, <2>2, <2>3 DEF IdleBoards
<1> HIDE DEF b
<1>2. /\ q \in RunStates /\ q.board = b /\ q.uids = r.uids /\ q.og = r.og
      /\ q.known = r.known /\ q.ok = r.ok
  BY <1>1 DEF RunStates
<1>3. q = [r EXCEPT !.board.spi = p]
  BY Zenon DEF b
<1> HIDE DEF q
<1> QED
  BY <1>1, <1>2, <1>3 DEF SpiStep

\* A step at the registers changes nothing else of the run.
LEMMA CfgPlaced ==
  ASSUME NEW r \in RunStates, NEW c \in Configurations
  PROVE  /\ CfgStep(r, [r EXCEPT !.board.cfg = c], c, r.board.prom)
         /\ CfgStep(r, [r EXCEPT !.board.prom = c], r.board.cfg, c)
<1> DEFINE b == [r.board EXCEPT !.cfg = c]
           d == [r.board EXCEPT !.prom = c]
           q == [r EXCEPT !.board = b]
           p == [r EXCEPT !.board = d]
<1>1. r.board \in IdleBoards
  BY DEF RunStates
<1>2. b \in IdleBoards /\ b.spi = r.board.spi /\ b.cfg = c /\ b.prom = r.board.prom
  <2>1. b \in Boards(Spi) /\ b.jtag = r.board.jtag /\ b.spi = r.board.spi
    BY <1>1 DEF IdleBoards, Boards
  <2>2. b.cfg = c /\ b.prom = r.board.prom
    BY <1>1 DEF IdleBoards, Boards
  <2> HIDE DEF b
  <2> QED
    BY <1>1, <2>1, <2>2 DEF IdleBoards
<1>3. d \in IdleBoards /\ d.spi = r.board.spi /\ d.prom = c /\ d.cfg = r.board.cfg
  <2>1. d \in Boards(Spi) /\ d.jtag = r.board.jtag /\ d.spi = r.board.spi
    BY <1>1 DEF IdleBoards, Boards
  <2>2. d.prom = c /\ d.cfg = r.board.cfg
    BY <1>1 DEF IdleBoards, Boards
  <2> HIDE DEF d
  <2> QED
    BY <1>1, <2>1, <2>2 DEF IdleBoards
<1> HIDE DEF b, d
<1>4. /\ q \in RunStates /\ q.board = b /\ q.uids = r.uids /\ q.og = r.og
      /\ q.known = r.known /\ q.ok = r.ok
  BY <1>2 DEF RunStates
<1>5. /\ p \in RunStates /\ p.board = d /\ p.uids = r.uids /\ p.og = r.og
      /\ p.known = r.known /\ p.ok = r.ok
  BY <1>3 DEF RunStates
<1>6. q = [r EXCEPT !.board.cfg = c] /\ p = [r EXCEPT !.board.prom = c]
  BY Zenon DEF b, d
<1> HIDE DEF p, q
<1> QED
  BY <1>2, <1>3, <1>4, <1>5, <1>6 DEF CfgStep

\* What is left when a word has been taken.
TakenPort(spi) == IF spi.fifo = <<>> THEN spi ELSE [spi EXCEPT !.fifo = Tail(spi.fifo)]

\* Taking a word from the FIFO changes nothing else of the run.
LEMMA TakenTyped ==
  ASSUME NEW r \in RunStates
  PROVE  /\ TakenPort(r.board.spi) \in Ports
         /\ SpiStep(r, Taken(r), TakenPort(r.board.spi))
         /\ Taken(r).uids = r.uids /\ Taken(r).ok = r.ok
<1> DEFINE spi == r.board.spi
           p == [spi EXCEPT !.fifo = Tail(spi.fifo)]
<1>1. spi \in Ports
  BY DEF RunStates, IdleBoards
<1>2. CASE spi.fifo = <<>>
  <2>1. TakenPort(spi) = spi /\ Taken(r) = r
    BY <1>2, Zenon DEF TakenPort, Taken
  <2> QED
    BY <1>1, <2>1 DEF SpiStep
<1>3. CASE spi.fifo # <<>>
  <2>1. Tail(spi.fifo) \in Seq(SpiWords)
    <3>1. spi.fifo \in Seq(SpiWords)
      BY <1>1 DEF Ports, Spi
    <3> QED
      BY <1>3, <3>1, HeadTailProperties
  <2>2. p \in Ports
    BY <1>1, <2>1 DEF Ports, Spi
  <2>3. TakenPort(spi) = p /\ Taken(r) = [r EXCEPT !.board.spi = p]
    BY <1>3, Zenon DEF TakenPort, Taken
  <2> HIDE DEF p
  <2>4. /\ SpiStep(r, [r EXCEPT !.board.spi = p], p)
        /\ [r EXCEPT !.board.spi = p].uids = r.uids /\ [r EXCEPT !.board.spi = p].ok = r.ok
    BY <2>2, PortPlaced, Zenon
  <2> QED
    BY <2>2, <2>3, <2>4, Zenon
<1> QED
  BY <1>2, <1>3

\* An error changes nothing of the run but that it has failed.
LEMMA Decided ==
  ASSUME NEW r \in RunStates, NEW v \in BOOLEAN
  PROVE  LET q == [r EXCEPT !.ok = v]
         IN /\ q \in RunStates /\ q.board = r.board /\ q.uids = r.uids /\ q.og = r.og
            /\ q.known = r.known /\ q.ok = v
  BY DEF RunStates

\* A look is right or wrong.
LEMMA AgreesTyped ==
  ASSUME NEW r, NEW what, NEW value
  PROVE  Agrees(r, what, value) \in BOOLEAN
  BY Zenon DEF Agrees

\* A look, and the rest of a look at a word.
LEMMA SeeStep ==
  ASSUME NEW r \in RunStates, NEW what, NEW value, NEW m \in BOOLEAN
  PROVE  LET q == Step(r, See(what, value), m)
         IN /\ what # "word" => SpiStep(r, q, r.board.spi)
            /\ what = "word" => SpiStep(r, q, TakenPort(r.board.spi))
            /\ q.uids = r.uids /\ q.ok = (Agrees(r, what, value) /\ ~m)
<1> DEFINE v == Agrees(r, what, value) /\ ~m
           t == IF what = "word" THEN Taken(r) ELSE r
           q == [t EXCEPT !.ok = v]
<1>1. v \in BOOLEAN
  BY AgreesTyped
<1>2. Step(r, See(what, value), m) = q
  <2>1. See(what, value).do = "See" /\ See(what, value).on = what /\ See(what, value).with = value
    BY DEF See
  <2> HIDE DEF See
  <2> QED
    BY <2>1, Zenon DEF Step
<1>3. t \in RunStates
  BY TakenTyped DEF SpiStep
<1>4. /\ what # "word" => SpiStep(r, t, r.board.spi)
      /\ what = "word" => SpiStep(r, t, TakenPort(r.board.spi))
      /\ t.uids = r.uids
  <2>1. CASE what = "word"
    BY <2>1, TakenTyped
  <2>2. CASE what # "word"
    BY <2>2 DEF SpiStep
  <2> QED
    BY <2>1, <2>2
<1> HIDE DEF v, t
<1>5. /\ q \in RunStates /\ q.board = t.board /\ q.uids = t.uids /\ q.og = t.og
      /\ q.known = t.known /\ q.ok = v
  BY <1>1, <1>3, Decided
<1> HIDE DEF q
<1> QED
  BY <1>2, <1>4, <1>5 DEF v, SpiStep

\* Keep takes a word, and notes it.
LEMMA KeepStep ==
  ASSUME NEW r \in RunStates, NEW m \in BOOLEAN
  PROVE  LET q == Step(r, Keep, m)
             u == IF m \/ r.board.spi.fifo = <<>> THEN "misread" ELSE Head(r.board.spi.fifo)
         IN /\ SpiStep(r, q, TakenPort(r.board.spi))
            /\ q.uids = Append(r.uids, u) /\ q.ok = r.ok
<1> DEFINE t == Taken(r)
           u == IF m \/ r.board.spi.fifo = <<>> THEN "misread" ELSE Head(r.board.spi.fifo)
           us == Append(t.uids, u)
           q == [t EXCEPT !.uids = us]
<1>1. Step(r, Keep, m) = q
  <2>1. Keep.do = "Keep"
    BY DEF Keep, Do
  <2>2. Keep.do # "See"
    BY <2>1
  <2> HIDE DEF Keep
  <2> QED
    BY <2>1, <2>2, Zenon DEF Step
<1>2. SpiStep(r, t, TakenPort(r.board.spi)) /\ t.uids = r.uids /\ t.ok = r.ok
  BY TakenTyped
<1>3. u \in Uids
  <2>1. r.board.spi.fifo \in Seq(SpiWords)
    BY DEF RunStates, IdleBoards, Ports, Spi
  <2>2. r.board.spi.fifo # <<>> => Head(r.board.spi.fifo) \in SpiWords
    BY <2>1, HeadTailProperties
  <2> HIDE DEF u
  <2>3. u = "misread" \/ u \in SpiWords
    BY <2>2, Zenon DEF u
  <2> QED
    BY <2>3, Zenon DEF Uids
<1> HIDE DEF t, u
<1>4. us \in Seq(Uids)
  <2>1. t.uids \in Seq(Uids)
    BY <1>2 DEF SpiStep, RunStates
  <2> HIDE DEF Uids
  <2> QED
    BY <1>3, <2>1
<1> HIDE DEF us
<1>5. /\ q \in RunStates /\ q.board = t.board /\ q.uids = us /\ q.og = t.og
      /\ q.known = t.known /\ q.ok = t.ok
  BY <1>2, <1>4 DEF SpiStep, RunStates
<1> HIDE DEF q
<1>6. us = Append(r.uids, u)
  BY <1>2, Zenon DEF us
<1>7. SpiStep(r, q, TakenPort(r.board.spi))
  BY <1>2, <1>5 DEF SpiStep
<1> QED
  BY <1>1, <1>2, <1>5, <1>6, <1>7, Zenon DEF u

\* Registers that work take their new values, the others keep theirs.
LEMMA SetTyped ==
  ASSUME NEW c \in Configurations, NEW d \in Configurations
  PROVE  SetTo(c, d) \in Configurations
  BY DEF SetTo, Configurations

\* What is loaded are values of the registers.
LEMMA LoadedTyped ==
  ASSUME NEW b \in IdleBoards
  PROVE  Loaded(b) \in Configurations
<1>1. b.cfg \in Configurations /\ b.prom \in Configurations
  BY DEF IdleBoards, Boards
<1> QED
  BY <1>1 DEF Loaded, Configurations

\* Setting a register sets it unless it is faulty.
LEMMA SetStep ==
  ASSUME NEW r \in RunStates, NEW reg \in CfgRegs, NEW v \in CfgValues, NEW m \in BOOLEAN
  PROVE  CfgStep(r, Step(r, SetReg(reg, v), m),
                 SetTo(r.board.cfg, [r.board.cfg EXCEPT ![reg] = v]), r.board.prom)
<1> DEFINE s == SetReg(reg, v)
           d == [r.board.cfg EXCEPT ![reg] = v]
           c == SetTo(r.board.cfg, d)
<1>1. s.do = "Set" /\ s.on = reg /\ s.with = v
  BY DEF SetReg
<1> HIDE DEF s
<1>2. s.do # "See" /\ s.do # "Keep"
  BY <1>1
<1>3. Step(r, s, m) = [r EXCEPT !.board.cfg = c]
  BY <1>1, <1>2, Zenon DEF Step
<1>4. r.board.cfg \in Configurations
  BY DEF RunStates, IdleBoards, Boards
<1>5. d \in Configurations
  BY <1>4 DEF Configurations
<1>6. c \in Configurations
  BY <1>4, <1>5, SetTyped
<1> HIDE DEF c
<1>7. CfgStep(r, [r EXCEPT !.board.cfg = c], c, r.board.prom)
  BY <1>6, CfgPlaced
<1> QED
  BY <1>3, <1>7, Zenon DEF s, c

\* Both ways to load, if they work.
LEMMA LoadStep ==
  ASSUME NEW r \in RunStates, NEW m \in BOOLEAN
  PROVE  /\ \/ CfgStep(r, Step(r, Do("Load"), m), r.board.cfg, r.board.prom)
            \/ CfgStep(r, Step(r, Do("Load"), m), Loaded(r.board), r.board.prom)
         /\ \/ CfgStep(r, Step(r, Do("Soft reset"), m), r.board.cfg, r.board.prom)
            \/ CfgStep(r, Step(r, Do("Soft reset"), m), Loaded(r.board), r.board.prom)
         /\ ~Faulty("cfg load", 0) =>
              CfgStep(r, Step(r, Do("Load"), m), Loaded(r.board), r.board.prom)
         /\ ~Faulty("soft reset", 0) =>
              CfgStep(r, Step(r, Do("Soft reset"), m), Loaded(r.board), r.board.prom)
         /\ Faulty("cfg load", 0) => Step(r, Do("Load"), m) = r
         /\ Faulty("soft reset", 0) => Step(r, Do("Soft reset"), m) = r
<1> DEFINE l == Do("Load")
           s == Do("Soft reset")
           c == Loaded(r.board)
<1>1. l.do = "Load" /\ s.do = "Soft reset"
  BY DEF Do
<1> HIDE DEF l, s
<1>2. /\ l.do # "See" /\ l.do # "Keep" /\ l.do # "Set"
      /\ s.do # "See" /\ s.do # "Keep" /\ s.do # "Set" /\ s.do # "Load"
  BY <1>1, Zenon
<1>3. Step(r, l, m) = IF Faulty("cfg load", 0) THEN r ELSE [r EXCEPT !.board.cfg = c]
  BY <1>1, <1>2, Zenon DEF Step
<1>4. Step(r, s, m) = IF Faulty("soft reset", 0) THEN r ELSE [r EXCEPT !.board.cfg = c]
  BY <1>1, <1>2, Zenon DEF Step
<1>5. c \in Configurations
  BY LoadedTyped DEF RunStates
<1> HIDE DEF c
<1>6. CfgStep(r, [r EXCEPT !.board.cfg = c], c, r.board.prom)
  BY <1>5, CfgPlaced
<1>7. CfgStep(r, r, r.board.cfg, r.board.prom)
  BY Zenon DEF CfgStep
<1> QED
  BY <1>3, <1>4, <1>6, <1>7, Zenon DEF l, s, c

\* Save stores the registers unless it is faulty.
LEMMA SaveStep ==
  ASSUME NEW r \in RunStates, NEW m \in BOOLEAN
  PROVE  /\ \/ CfgStep(r, Step(r, Do("Save"), m), r.board.cfg, r.board.prom)
            \/ CfgStep(r, Step(r, Do("Save"), m), r.board.cfg, r.board.cfg)
         /\ ~Faulty("cfg save", 0) =>
              CfgStep(r, Step(r, Do("Save"), m), r.board.cfg, r.board.cfg)
         /\ Faulty("cfg save", 0) => Step(r, Do("Save"), m) = r
<1> DEFINE s == Do("Save")
           c == r.board.cfg
<1>1. s.do = "Save"
  BY DEF Do
<1> HIDE DEF s
<1>2. s.do # "See" /\ s.do # "Keep" /\ s.do # "Set" /\ s.do # "Load" /\ s.do # "Soft reset"
  BY <1>1
<1>3. Step(r, s, m) = IF Faulty("cfg save", 0) THEN r ELSE [r EXCEPT !.board.prom = c]
  BY <1>1, <1>2, Zenon DEF Step
<1>5. c \in Configurations
  BY DEF RunStates, IdleBoards, Boards
<1>6. CfgStep(r, [r EXCEPT !.board.prom = c], r.board.cfg, c)
  BY <1>5, CfgPlaced
<1>7. CfgStep(r, r, r.board.cfg, r.board.prom)
  BY Zenon DEF CfgStep
<1> QED
  BY <1>3, <1>6, <1>7, Zenon DEF s

\* The originals are those of the registers, but for a wrong reading.
LEMMA OriginalsStep ==
  ASSUME NEW r \in RunStates, NEW m \in BOOLEAN
  PROVE  LET q == Step(r, Do("Originals"), m)
         IN /\ q \in RunStates /\ q.board = r.board /\ q.uids = r.uids
            /\ q.og = [x \in CfgRegs |-> IF m /\ x = "DELAYS" THEN "default" ELSE r.board.cfg[x]]
            /\ q.known = TRUE /\ q.ok = r.ok
<1> DEFINE s == Do("Originals")
           c == [x \in CfgRegs |-> IF m /\ x = "DELAYS" THEN "default" ELSE r.board.cfg[x]]
           q1 == [r EXCEPT !.og = c]
           q == [q1 EXCEPT !.known = TRUE]
<1>1. s.do = "Originals"
  BY DEF Do
<1> HIDE DEF s
<1>2. /\ s.do # "See" /\ s.do # "Keep" /\ s.do # "Set" /\ s.do # "Load"
      /\ s.do # "Soft reset" /\ s.do # "Save"
  BY <1>1
<1>3. Step(r, s, m) = q
  BY <1>1, <1>2, Zenon DEF Step
<1>4. c \in Configurations
  <2>1. r.board.cfg \in Configurations
    BY DEF RunStates, IdleBoards, Boards
  <2>2. \A x \in CfgRegs : (IF m /\ x = "DELAYS" THEN "default" ELSE r.board.cfg[x]) \in CfgValues
    <3>1. \A x \in CfgRegs : r.board.cfg[x] \in CfgValues
      BY <2>1 DEF Configurations
    <3>2. "default" \in CfgValues
      BY DEF CfgValues
    <3> HIDE DEF CfgValues, CfgRegs
    <3> QED
      BY <3>1, <3>2, Zenon
  <2> HIDE DEF CfgRegs, CfgValues
  <2> QED
    BY <2>2, Zenon DEF Configurations
<1> HIDE DEF c
<1>5. /\ q1 \in RunStates /\ q1.board = r.board /\ q1.uids = r.uids /\ q1.og = c /\ q1.ok = r.ok
  BY <1>4 DEF RunStates
<1> HIDE DEF q1
<1>6. /\ q \in RunStates /\ q.board = q1.board /\ q.uids = q1.uids /\ q.og = q1.og
      /\ q.known = TRUE /\ q.ok = q1.ok
  BY <1>5 DEF RunStates
<1> HIDE DEF q
<1> QED
  BY <1>3, <1>5, <1>6, Zenon DEF s, c

\* A command to the port is done by the port.
LEMMA PortStep ==
  ASSUME NEW r \in RunStates, NEW c \in PortCommands, NEW m \in BOOLEAN
  PROVE  LET q == Step(r, Do(c), m)
         IN SpiStep(r, q, Port(r.board.spi, c)) /\ q.uids = r.uids /\ q.ok = r.ok
<1> DEFINE s == Do(c)
           p == Port(r.board.spi, c)
           q == [r EXCEPT !.board.spi = p]
<1>1. s.do = c
  BY DEF Do
<1>2. /\ c # "See" /\ c # "Keep" /\ c # "Set" /\ c # "Load"
      /\ c # "Soft reset" /\ c # "Save" /\ c # "Originals"
  BY PromAssumption, Zenon DEF PortCommands, Queued, Commands
<1> HIDE DEF s
<1>3. Step(r, s, m) = q
  BY <1>1, <1>2, Zenon DEF Step
<1>4. p \in Ports
  BY PortTyped DEF RunStates, IdleBoards
<1> HIDE DEF p
<1>5. SpiStep(r, q, p) /\ q.uids = r.uids /\ q.ok = r.ok
  BY <1>4, PortPlaced
<1> QED
  BY <1>3, <1>5, Zenon DEF s, p

(***************************************************************************)
(* Steps lead from some states of a run to others. M: whether what is      *)
(* looked at may be read wrong. An error ends the run: the state stays.    *)
(***************************************************************************)
Looks == {"on", "words", "full", "word", "LSB", "MSB", "stopped", "register", "uids"} \cup CfgRegs
Views == {"yes", "no", "none", "one", "ID", "zero", "some", "default", "FB", "0B", "two"}
         \cup SpiWords \cup CfgValues \cup Files

PortSteps == {Do(c) : c \in PortCommands}
LookSteps == {See(w, v) : w \in Looks, v \in Views}
PlainSteps == PortSteps \cup LookSteps \cup {Keep, Do("Load")}
SetSteps == {SetReg(reg, v) : reg \in CfgRegs, v \in CfgValues}
TestSteps == PlainSteps \cup SetSteps \cup {Do("Save"), Do("Soft reset")}
AllSteps == TestSteps \cup {Do("Originals")}

\* Every step leads to a state of a run.
LEMMA StepTyped ==
  ASSUME NEW r \in RunStates, NEW s \in AllSteps, NEW m \in BOOLEAN
  PROVE  Step(r, s, m) \in RunStates
<1>1. CASE s \in PortSteps
  BY <1>1, PortStep, Zenon DEF PortSteps, SpiStep
<1>2. CASE s \in LookSteps
  <2>1. PICK w \in Looks, v \in Views : s = See(w, v)
    BY <1>2 DEF LookSteps
  <2> QED
    BY <2>1, SeeStep, Zenon DEF SpiStep
<1>3. CASE s = Keep
  BY <1>3, KeepStep, Zenon DEF SpiStep
<1>4. CASE s = Do("Load") \/ s = Do("Soft reset")
  BY <1>4, LoadStep, Zenon DEF CfgStep
<1>5. CASE s \in SetSteps
  <2>1. PICK reg \in CfgRegs, v \in CfgValues : s = SetReg(reg, v)
    BY <1>5 DEF SetSteps
  <2> QED
    BY <2>1, SetStep, Zenon DEF CfgStep
<1>6. CASE s = Do("Save")
  BY <1>6, SaveStep, Zenon DEF CfgStep
<1>7. CASE s = Do("Originals")
  BY <1>7, OriginalsStep, Zenon
<1> QED
  BY <1>1, <1>2, <1>3, <1>4, <1>5, <1>6, <1>7, Zenon DEF AllSteps, TestSteps, PlainSteps

GoesTo(r, s, m) == IF r.ok THEN Step(r, s, m) ELSE r

IsRun(g, steps, M) ==
    /\ \A i \in 0 .. Len(steps) : g[i] \in RunStates
    /\ \A i \in 1 .. Len(steps) : \E m \in M : g[i] = GoesTo(g[i - 1], steps[i], m)

Makes(P, s, Q, M) ==
    \A r \in P : /\ r.ok => \A m \in M : Step(r, s, m) \in Q
                 /\ ~r.ok => r \in Q

Leads(P, steps, Q, M) ==
    \A g : IsRun(g, steps, M) /\ g[0] \in P => g[Len(steps)] \in Q

\* So does a step that is only made when nothing has failed.
LEMMA GoesTyped ==
  ASSUME NEW r \in RunStates, NEW s \in AllSteps, NEW m \in BOOLEAN
  PROVE  GoesTo(r, s, m) \in RunStates
<1>1. r.ok \in BOOLEAN
  BY DEF RunStates
<1> QED
  BY <1>1, StepTyped, Zenon DEF GoesTo

\* What a step makes of the states of P.
LEMMA GoesMade ==
  ASSUME NEW M, NEW P \in SUBSET RunStates, NEW Q, NEW s, Makes(P, s, Q, M),
         NEW r \in P, NEW m \in M
  PROVE  GoesTo(r, s, m) \in Q
<1>1. r.ok \in BOOLEAN
  BY DEF RunStates
<1>2. CASE r.ok
  BY <1>2, Zenon DEF GoesTo, Makes
<1>3. CASE ~r.ok
  BY <1>3, Zenon DEF GoesTo, Makes
<1> QED
  BY <1>2, <1>3

\* A run that is in P before a step is in Q after it.
LEMMA RunMade ==
  ASSUME NEW M, NEW P \in SUBSET RunStates, NEW Q, NEW steps, NEW g, IsRun(g, steps, M),
         NEW i \in 1 .. Len(steps), g[i - 1] \in P, Makes(P, steps[i], Q, M)
  PROVE  g[i] \in Q
<1>1. PICK m \in M : g[i] = GoesTo(g[i - 1], steps[i], m)
  BY DEF IsRun
<1>2. GoesTo(g[i - 1], steps[i], m) \in Q
  BY GoesMade
<1> QED
  BY <1>1, <1>2

\* One step leads where it makes.
LEMMA LeadsOne ==
  ASSUME NEW M, NEW P \in SUBSET RunStates, NEW Q, NEW s, Makes(P, s, Q, M)
  PROVE  Leads(P, <<s>>, Q, M)
<1> SUFFICES ASSUME NEW g, IsRun(g, <<s>>, M), g[0] \in P
             PROVE  g[Len(<<s>>)] \in Q
  BY DEF Leads
<1>1. Len(<<s>>) = 1 /\ <<s>>[1] = s /\ 1 \in 1 .. Len(<<s>>)
  OBVIOUS
<1> DEFINE t == <<s>>
<1> HIDE DEF t
<1>2. g[1] \in Q
  <2>1. t[1] = s /\ 1 \in 1 .. Len(t) /\ IsRun(g, t, M) /\ g[1 - 1] \in P
    BY <1>1 DEF t
  <2>2. Makes(P, t[1], Q, M)
    BY <2>1
  <2> QED
    BY <2>1, <2>2, RunMade
<1> QED
  BY <1>1, <1>2

\* Steps that all keep P lead from P to P.
LEMMA LeadsKeep ==
  ASSUME NEW M, NEW P \in SUBSET RunStates, NEW X, NEW steps \in Seq(X),
         \A s \in X : Makes(P, s, P, M)
  PROVE  Leads(P, steps, P, M)
<1> SUFFICES ASSUME NEW g, IsRun(g, steps, M), g[0] \in P
             PROVE  g[Len(steps)] \in P
  BY DEF Leads
<1>1. Len(steps) \in Nat /\ \A i \in 1 .. Len(steps) : steps[i] \in X
  OBVIOUS
<1>2. \A i \in 1 .. Len(steps) : g[i - 1] \in P => g[i] \in P
  <2>1. TAKE i \in 1 .. Len(steps)
  <2>2. HAVE g[i - 1] \in P
  <2>3. Makes(P, steps[i], P, M)
    BY <1>1
  <2> QED
    BY <2>2, <2>3, RunMade
<1>3. \A i \in 0 .. Len(steps) : g[i] \in P
  BY <1>1, <1>2, StepsTaken
<1> QED
  BY <1>1, <1>3

\* What leads to N_, and from there to Q, leads to Q.
LEMMA LeadsThen ==
  ASSUME NEW M, NEW P, NEW N_, NEW Q, NEW X, NEW s \in Seq(X), NEW t \in Seq(X),
         Leads(P, s, N_, M), Leads(N_, t, Q, M)
  PROVE  Leads(P, s \o t, Q, M)
<1> SUFFICES ASSUME NEW g, IsRun(g, s \o t, M), g[0] \in P
             PROVE  g[Len(s \o t)] \in Q
  BY DEF Leads
<1> DEFINE k == Len(s)
           n == Len(t)
           u == s \o t
           f == [i \in 0 .. k |-> g[i]]
           h == [i \in 0 .. n |-> g[k + i]]
<1>1. /\ k \in Nat /\ n \in Nat /\ Len(u) = k + n
      /\ \A i \in 1 .. k : u[i] = s[i]
      /\ \A i \in 1 .. n : u[k + i] = t[i]
  OBVIOUS
<1>2. IsRun(g, u, M)
  OBVIOUS
<1> HIDE DEF u
<1>3. IsRun(f, s, M)
  <2>1. \A i \in 0 .. k : f[i] = g[i] /\ i \in 0 .. Len(u)
    BY <1>1
  <2>2. ASSUME NEW i \in 1 .. k
        PROVE  \E m \in M : f[i] = GoesTo(f[i - 1], s[i], m)
    <3>1. i \in 1 .. Len(u) /\ f[i] = g[i] /\ f[i - 1] = g[i - 1] /\ u[i] = s[i]
      BY <1>1
    <3> HIDE DEF f
    <3> QED
      BY <1>2, <3>1 DEF IsRun
  <2> HIDE DEF f
  <2> QED
    BY <1>2, <2>1, <2>2 DEF IsRun
<1>4. f[0] = g[0] /\ f[k] = g[k]
  BY <1>1
<1>5. IsRun(h, t, M)
  <2>1. \A i \in 0 .. n : h[i] = g[k + i] /\ k + i \in 0 .. Len(u)
    BY <1>1
  <2>2. ASSUME NEW i \in 1 .. n
        PROVE  \E m \in M : h[i] = GoesTo(h[i - 1], t[i], m)
    <3> DEFINE j == k + i
    <3>1. /\ j \in 1 .. Len(u) /\ h[i] = g[j] /\ h[i - 1] = g[j - 1]
          /\ u[j] = t[i]
      BY <1>1
    <3> HIDE DEF h, j
    <3>2. \E m \in M : g[j] = GoesTo(g[j - 1], u[j], m)
      BY <1>2, <3>1 DEF IsRun
    <3> QED
      BY <3>1, <3>2
  <2> HIDE DEF h, k
  <2> QED
    BY <1>2, <2>1, <2>2 DEF IsRun
<1>6. h[0] = g[k] /\ h[n] = g[k + n]
  BY <1>1
<1> HIDE DEF f, h
<1>7. f[k] \in N_
  BY <1>3, <1>4 DEF Leads
<1>8. h[n] \in Q
  BY <1>4, <1>5, <1>6, <1>7 DEF Leads
<1> QED
  BY <1>1, <1>6, <1>8 DEF u

\* A run starts on the board as it is, with nothing known or noted.
LEMMA StartTyped ==
  ASSUME NEW b \in IdleBoards
  PROVE  /\ Start(b) \in RunStates /\ Start(b).board = b /\ Start(b).known = FALSE
         /\ Start(b).ok = TRUE /\ Start(b).uids = <<>>
<1>1. Own \in Configurations
  BY DEF Own, Configurations, CfgValues
<1>2. <<>> \in Seq(Uids)
  OBVIOUS
<1> QED
  BY <1>1, <1>2 DEF Start, RunStates

\* The states after each step, with what Ran returns as the last.
RunFrom(g, b, steps, glitch, M) ==
  IsRun(g, steps, M) /\ g[0] = Start(b) /\ Ran(b, steps, glitch) = g[Len(steps)]

\* The states of a run after each of its steps are a function.
LEMMA RanSteps ==
  ASSUME NEW b \in IdleBoards, NEW steps \in Seq(AllSteps), NEW glitch,
         NEW M \in SUBSET BOOLEAN, \A i \in 1 .. Len(steps) : (i = glitch) \in M
  PROVE  \E g : RunFrom(g, b, steps, glitch, M)
<1> DEFINE m == Len(steps)
           e(i) == i = glitch
           op == [x \in RunStates |-> [i \in 1 .. m |-> GoesTo(x, steps[i], e(i))]]
           F(f) == [i \in 0 .. m |-> IF i = 0 THEN Start(b) ELSE GoesTo(f[i - 1], steps[i], e(i))]
           h == CHOOSE f : f = F(f)
<1>1. m \in Nat /\ \A i \in 1 .. m : steps[i] \in AllSteps
  OBVIOUS
<1>2. Ran(b, steps, glitch) = h[m]
  BY DEF Ran, AfterSteps, GoesTo
<1>3. \A i \in 1 .. m : e(i) \in M /\ e(i) \in BOOLEAN
  OBVIOUS
<1> HIDE DEF m, e
<1>4. \A x \in RunStates, i \in 1 .. m : GoesTo(x, steps[i], e(i)) \in RunStates
  BY <1>1, <1>3, GoesTyped
<1>5. Closed(op, RunStates, m)
  BY <1>4 DEF Closed
<1>6. \A x \in RunStates, i \in 1 .. m : op[x][i] = GoesTo(x, steps[i], e(i))
  OBVIOUS
<1> HIDE DEF op
<1>7. Start(b) \in RunStates
  BY StartTyped
<1>8. PICK g \in [0 .. m -> RunStates] : Walks(g, op, Start(b), m)
  BY <1>1, <1>5, <1>7, StepsExist
<1>9. g = F(g)
  <2>1. ASSUME NEW i \in 1 .. m PROVE g[i] = GoesTo(g[i - 1], steps[i], e(i))
    <3>1. g[i - 1] \in RunStates
      BY <1>1
    <3>2. g[i] = op[g[i - 1]][i]
      BY <1>8 DEF Walks
    <3> QED
      BY <1>6, <3>1, <3>2
  <2>2. \A i \in 0 .. m : g[i] = IF i = 0 THEN Start(b) ELSE GoesTo(g[i - 1], steps[i], e(i))
    BY <1>1, <1>8, <2>1 DEF Walks
  <2>3. g = [i \in 0 .. m |-> g[i]]
    OBVIOUS
  <2> QED
    BY <2>2, <2>3
<1>10. h = F(h)
  BY <1>9
<1> HIDE DEF h
<1>11. h[0] = Start(b) /\ \A i \in 1 .. m : h[i] = GoesTo(h[i - 1], steps[i], e(i))
  BY <1>1, <1>10
<1>12. \A i \in 0 .. m : h[i] \in RunStates
  <2>1. \A i \in 1 .. m : h[i - 1] \in RunStates => h[i] \in RunStates
    BY <1>4, <1>11
  <2> QED
    BY <1>1, <1>7, <1>11, <2>1, StepsTaken
<1>13. IsRun(h, steps, M)
  BY <1>3, <1>11, <1>12 DEF IsRun, m
<1> QED
  BY <1>2, <1>11, <1>13, Zenon DEF m, RunFrom

\* A run ends where its steps lead.
LEMMA RanLeads ==
  ASSUME NEW b \in IdleBoards, NEW steps \in Seq(AllSteps), NEW glitch,
         NEW M \in SUBSET BOOLEAN, \A i \in 1 .. Len(steps) : (i = glitch) \in M,
         NEW P, NEW Q, Start(b) \in P, Leads(P, steps, Q, M)
  PROVE  Ran(b, steps, glitch) \in Q
<1>1. PICK g : RunFrom(g, b, steps, glitch, M)
  BY RanSteps
<1> QED
  BY <1>1 DEF RunFrom, Leads

(***************************************************************************)
(* What SPIcheck is made of.                                               *)
(***************************************************************************)
LEMMA PlainCommands ==
  /\ Do("Enable") \in PlainSteps /\ Do("Disable") \in PlainSteps /\ Do("Reset FSM") \in PlainSteps
  /\ Do("NoOp") \in PlainSteps /\ Do("AddrHi") \in PlainSteps /\ Do("AddrLo") \in PlainSteps
  /\ Do("Erase") \in PlainSteps /\ Do("Write D3B") \in PlainSteps /\ Do("Read") \in PlainSteps
  /\ Do("Timer reset") \in PlainSteps /\ Do("Timer start") \in PlainSteps
  /\ Do("Timer stop") \in PlainSteps /\ Do("Read register") \in PlainSteps
  /\ Do("Read volatile") \in PlainSteps /\ Do("Write volatile 0B") \in PlainSteps
  /\ Do("Write volatile FB") \in PlainSteps /\ Do("Read ID") \in PlainSteps
  /\ Do("Select 0") \in PlainSteps /\ Do("Select 1") \in PlainSteps
  /\ Do("Lock") \in PlainSteps /\ Do("Unlock") \in PlainSteps /\ Do("Read lock") \in PlainSteps
  /\ Do("Lock volatile") \in PlainSteps /\ Do("Unlock volatile") \in PlainSteps
  /\ Do("Read volatile lock") \in PlainSteps /\ Do("Load") \in PlainSteps
  /\ Keep \in PlainSteps /\ \A file \in Files : Do(file) \in PlainSteps
<1>1. \A c \in PortCommands : Do(c) \in PlainSteps
  BY Zenon DEF PlainSteps, PortSteps
<1>2. /\ "Enable" \in PortCommands /\ "Disable" \in PortCommands /\ "Reset FSM" \in PortCommands
      /\ "NoOp" \in PortCommands /\ "AddrHi" \in PortCommands /\ "AddrLo" \in PortCommands
      /\ "Erase" \in PortCommands /\ "Write D3B" \in PortCommands /\ "Read" \in PortCommands
      /\ "Timer reset" \in PortCommands /\ "Timer start" \in PortCommands
      /\ "Timer stop" \in PortCommands /\ "Read register" \in PortCommands
      /\ "Read volatile" \in PortCommands /\ "Write volatile 0B" \in PortCommands
      /\ "Write volatile FB" \in PortCommands /\ "Read ID" \in PortCommands
      /\ "Select 0" \in PortCommands /\ "Select 1" \in PortCommands
      /\ "Lock" \in PortCommands /\ "Unlock" \in PortCommands /\ "Read lock" \in PortCommands
      /\ "Lock volatile" \in PortCommands /\ "Unlock volatile" \in PortCommands
      /\ "Read volatile lock" \in PortCommands
  BY Zenon DEF PortCommands, Queued, Commands
<1>3. \A file \in Files : file \in PortCommands
  BY Zenon DEF PortCommands, Queued
<1>4. Keep \in PlainSteps /\ Do("Load") \in PlainSteps
  BY Zenon DEF PlainSteps
<1> QED
  BY <1>1, <1>2, <1>3, <1>4, Zenon

\* The looks of SPIcheck at the port change no register.
LEMMA PlainLooks ==
  /\ See("on", "yes") \in PlainSteps /\ See("on", "no") \in PlainSteps
  /\ See("words", "none") \in PlainSteps /\ See("words", "one") \in PlainSteps
  /\ See("words", "ID") \in PlainSteps /\ See("full", "yes") \in PlainSteps
  /\ See("LSB", "zero") \in PlainSteps /\ See("MSB", "zero") \in PlainSteps
  /\ See("LSB", "some") \in PlainSteps /\ See("MSB", "some") \in PlainSteps
  /\ See("stopped", "yes") \in PlainSteps /\ See("uids", "two") \in PlainSteps
  /\ See("register", "default") \in PlainSteps /\ See("register", "FB") \in PlainSteps
  /\ See("register", "0B") \in PlainSteps
  /\ \A w \in SpiWords \cup Files : See("word", w) \in PlainSteps
  /\ \A reg \in CfgRegs, v \in CfgValues : See(reg, v) \in PlainSteps
<1>1. ASSUME NEW w \in Looks, NEW v \in Views PROVE See(w, v) \in PlainSteps
  BY DEF PlainSteps, LookSteps
<1>2. /\ {"on", "words", "full", "word", "LSB", "MSB", "stopped", "register", "uids"} \subseteq Looks
      /\ CfgRegs \subseteq Looks
  BY Zenon DEF Looks
<1>3. /\ {"yes", "no", "none", "one", "ID", "zero", "some", "default", "FB", "0B", "two"} \subseteq Views
      /\ SpiWords \cup Files \subseteq Views /\ CfgValues \subseteq Views
  BY Zenon DEF Views
<1> HIDE DEF Looks, Views, CfgRegs, CfgValues, SpiWords
<1>4. /\ "on" \in Looks /\ "words" \in Looks /\ "full" \in Looks /\ "word" \in Looks
      /\ "LSB" \in Looks /\ "MSB" \in Looks /\ "stopped" \in Looks /\ "register" \in Looks
      /\ "uids" \in Looks
  BY <1>2, Zenon
<1>5. /\ "yes" \in Views /\ "no" \in Views /\ "none" \in Views /\ "one" \in Views
      /\ "ID" \in Views /\ "zero" \in Views /\ "some" \in Views /\ "default" \in Views
      /\ "FB" \in Views /\ "0B" \in Views /\ "two" \in Views
  BY <1>3, Zenon
<1>6. \A w \in SpiWords \cup Files : w \in Views
  BY <1>3, Zenon
<1>7. \A w \in CfgRegs : w \in Looks
  BY <1>2, Zenon
<1>8. \A v \in CfgValues : v \in Views
  BY <1>3, Zenon
<1> QED
  BY <1>1, <1>4, <1>5, <1>6, <1>7, <1>8, Zenon

\* The contents of a file can be read back.
LEMMA FileWords == Files \subseteq Contents /\ Contents \subseteq SpiWords
  BY PromAssumption DEF Contents, SpiWords

\* Short sequences.
LEMMA ShortSequences ==
  ASSUME NEW S, NEW a \in S, NEW b \in S
  PROVE  /\ <<a>> \in Seq(S) /\ <<a, b>> \in Seq(S)
         /\ \A c \in S : /\ <<a, b, c>> \in Seq(S)
                         /\ \A d \in S : <<a, b, c, d>> \in Seq(S)
  OBVIOUS

\* Six elements are a sequence.
LEMMA SixLong ==
  ASSUME NEW S, NEW a \in S, NEW b \in S, NEW c \in S, NEW d \in S, NEW e \in S, NEW f \in S
  PROVE  <<a, b, c, d, e, f>> \in Seq(S)
  OBVIOUS

\* Eight elements are a sequence.
LEMMA EightLong ==
  ASSUME NEW S, NEW a \in S, NEW b \in S, NEW c \in S, NEW d \in S, NEW e \in S, NEW f \in S,
         NEW g \in S, NEW h \in S
  PROVE  <<a, b, c, d, e, f, g, h>> \in Seq(S)
  OBVIOUS

\* Nine elements are a sequence.
LEMMA NineLong ==
  ASSUME NEW S, NEW a \in S, NEW b \in S, NEW c \in S, NEW d \in S, NEW e \in S, NEW f \in S,
         NEW g \in S, NEW h \in S, NEW i \in S
  PROVE  <<a, b, c, d, e, f, g, h, i>> \in Seq(S)
  OBVIOUS

\* Ten elements are a sequence.
LEMMA TenLong ==
  ASSUME NEW S, NEW a \in S, NEW b \in S, NEW c \in S, NEW d \in S, NEW e \in S, NEW f \in S,
         NEW g \in S, NEW h \in S, NEW i \in S, NEW j \in S
  PROVE  <<a, b, c, d, e, f, g, h, i, j>> \in Seq(S)
  OBVIOUS

\* The parts of SPIcheck that leave the registers alone.
LEMMA PlainParts ==
  ASSUME NEW file \in Files
  PROVE  /\ Address \in Seq(PlainSteps) /\ Basics \in Seq(PlainSteps)
         /\ Timer \in Seq(PlainSteps) /\ Registers \in Seq(PlainSteps)
         /\ ReadID \in Seq(PlainSteps) /\ Locks \in Seq(PlainSteps)
         /\ Pages(file) \in Seq(PlainSteps)
<1> HIDE DEF PlainSteps, Do, See, Keep
<1>1. Address \in Seq(PlainSteps)
  BY PlainCommands, ShortSequences, Zenon DEF Address
<1>2. Basics \in Seq(PlainSteps)
  <2>1. <<Do("Enable"), See("on", "yes"), Do("NoOp"), See("on", "yes"), Do("Disable"), Do("NoOp"),
          See("on", "no"), Do("Enable"), See("on", "yes")>> \in Seq(PlainSteps)
    BY PlainCommands, PlainLooks, NineLong, Zenon
  <2>2. <<Do("Erase"), Do("Write D3B"), See("words", "none")>> \in Seq(PlainSteps)
    BY PlainCommands, PlainLooks, ShortSequences, Zenon
  <2>3. <<Do("AddrHi"), Do("Reset FSM")>> \in Seq(PlainSteps)
    BY PlainCommands, ShortSequences, Zenon
  <2>4. See("word", "D3B") \in PlainSteps
    BY PlainLooks, Zenon DEF SpiWords, Contents
  <2>5. <<Do("Read"), See("words", "one"), See("full", "yes"), See("word", "D3B")>> \in Seq(PlainSteps)
    BY <2>4, PlainCommands, PlainLooks, ShortSequences, Zenon
  <2> HIDE DEF Address
  <2> QED
    BY <1>1, <2>1, <2>2, <2>3, <2>5, Joined, Zenon DEF Basics
<1>3. Timer \in Seq(PlainSteps)
  <2>1. <<Do("Timer reset"), See("LSB", "zero"), See("MSB", "zero")>> \in Seq(PlainSteps)
    BY PlainCommands, PlainLooks, ShortSequences, Zenon
  <2>2. <<Do("Disable"), Do("Timer start"), Do("Erase"), Do("Timer stop"), Do("Enable"),
          See("LSB", "some"), See("stopped", "yes"), See("MSB", "some")>> \in Seq(PlainSteps)
    BY PlainCommands, PlainLooks, EightLong, Zenon
  <2> HIDE DEF Address
  <2> QED
    BY <1>1, <2>1, <2>2, Joined, Zenon DEF Timer
<1>4. Registers \in Seq(PlainSteps)
  BY PlainCommands, PlainLooks, TenLong, Zenon DEF Registers
<1>5. ReadID \in Seq(PlainSteps)
  <2>1. See("word", "20BB") \in PlainSteps /\ See("word", "1810") \in PlainSteps /\ See("word", "other") \in PlainSteps
    BY PlainLooks, Zenon DEF SpiWords
  <2> QED
    BY <2>1, PlainCommands, PlainLooks, SixLong, Zenon DEF ReadID
<1>6. Locks \in Seq(PlainSteps)
  <2>1. See("word", "0") \in PlainSteps /\ See("word", "1") \in PlainSteps
    BY PlainLooks, Zenon DEF SpiWords
  <2>2. <<Do("Lock"), Do("Read lock"), See("word", "0")>> \in Seq(PlainSteps)
    BY <2>1, PlainCommands, ShortSequences, Zenon
  <2>3. <<Do("Unlock"), Do("Read lock"), See("word", "1"), Do("Lock volatile"), Do("Read volatile lock"),
          See("word", "1"), Do("Unlock volatile"), Do("Read volatile lock"), See("word", "0")>>
           \in Seq(PlainSteps)
    BY <2>1, PlainCommands, NineLong, Zenon
  <2> HIDE DEF Address
  <2> QED
    BY <1>1, <2>2, <2>3, Joined, Zenon DEF Locks
<1>7. Pages(file) \in Seq(PlainSteps)
  <2>1. See("word", file) \in PlainSteps /\ Do(file) \in PlainSteps
    BY PlainLooks, PlainCommands, Zenon
  <2>2. <<Do(file)>> \in Seq(PlainSteps)
    BY <2>1, OneWord, Zenon
  <2>3. <<Do("Read"), See("word", file)>> \in Seq(PlainSteps)
    BY <2>1, PlainCommands, ShortSequences, Zenon
  <2> HIDE DEF Address
  <2> QED
    BY <1>1, <2>2, <2>3, Joined, Zenon DEF Pages
<1> QED
  BY <1>1, <1>2, <1>3, <1>4, <1>5, <1>6, <1>7

Taking == <<Do("Select 0"), Do("Load"), Do("Originals")>>

\* Three steps in a row.
LEMMA ThreeSteps ==
  ASSUME NEW S, NEW a \in S, NEW b \in S, NEW c \in S
  PROVE  <<a, b>> \o <<c>> = <<a, b, c>>
<1> DEFINE s == <<a, b>>  t == <<c>>  u == <<a, b, c>>
<1>1. s \in Seq(S) /\ t \in Seq(S) /\ u \in Seq(S)
  OBVIOUS
<1>2. /\ Len(s) = 2 /\ s[1] = a /\ s[2] = b /\ Len(t) = 1 /\ t[1] = c
      /\ Len(u) = 3 /\ u[1] = a /\ u[2] = b /\ u[3] = c
  OBVIOUS
<1> HIDE DEF s, t, u
<1> DEFINE v == s \o t
<1>3. v \in Seq(S) /\ Len(v) = 3 /\ v[1] = s[1] /\ v[2] = s[2] /\ v[3] = t[1]
  <2>1. /\ v \in Seq(S) /\ Len(v) = Len(s) + Len(t)
        /\ \A i \in 1 .. Len(s) + Len(t) : v[i] = IF i <= Len(s) THEN s[i] ELSE t[i - Len(s)]
    BY <1>1, ConcatProperties, Zenon DEF v
  <2> HIDE DEF v
  <2>2. 3 \in 1 .. Len(s) + Len(t) /\ ~(3 <= Len(s)) /\ 3 - Len(s) = 1
    BY <1>2
  <2>3. v[3] = t[1]
    BY <2>1, <2>2
  <2> QED
    BY <1>2, <2>1, <2>3
<1> HIDE DEF v
<1>4. \A i \in 1 .. 3 : v[i] = u[i]
  <2>1. v[1] = u[1] /\ v[2] = u[2] /\ v[3] = u[3]
    BY <1>2, <1>3
  <2> QED
    BY <2>1
<1>5. v = u
  BY <1>1, <1>2, <1>3, <1>4, SeqEqual
<1> QED
  BY <1>5 DEF s, t, u, v

\* The kinds of steps.
LEMMA StepSets ==
  /\ PlainSteps \subseteq TestSteps /\ TestSteps \subseteq AllSteps /\ PlainSteps \subseteq AllSteps
  /\ Do("Save") \in TestSteps /\ Do("Soft reset") \in TestSteps /\ Do("Load") \in TestSteps
  /\ Do("Originals") \in AllSteps
  /\ \A reg \in CfgRegs, v \in CfgValues : SetReg(reg, v) \in TestSteps
<1>1. ASSUME NEW reg \in CfgRegs, NEW v \in CfgValues PROVE SetReg(reg, v) \in TestSteps
  <2>1. SetReg(reg, v) \in SetSteps
    BY DEF SetSteps
  <2> QED
    BY <2>1, Zenon DEF TestSteps
<1>2. /\ PlainSteps \subseteq TestSteps /\ TestSteps \subseteq AllSteps /\ PlainSteps \subseteq AllSteps
      /\ Do("Save") \in TestSteps /\ Do("Soft reset") \in TestSteps
      /\ Do("Originals") \in AllSteps
  BY Zenon DEF TestSteps, AllSteps
<1>3. Do("Load") \in TestSteps
  BY <1>2, PlainCommands, Zenon
<1> QED
  BY <1>1, <1>2, <1>3, Zenon

\* The parts of SPIcheck that set, look at, save and load the registers.
LEMMA ConfigParts ==
  ASSUME NEW v \in {"test", "test - 1"}
  PROVE  /\ SetAndSee(v) \in Seq(TestSteps) /\ SetAll(v) \in Seq(TestSteps)
         /\ SeeAll(v) \in Seq(TestSteps)
         /\ <<Do("Save")>> \in Seq(TestSteps) /\ <<Do("Load")>> \in Seq(TestSteps)
         /\ <<Do("Soft reset")>> \in Seq(TestSteps)
<1>1. "DELAYS" \in CfgRegs /\ "KILL" \in CfgRegs
  BY Zenon DEF CfgRegs
<1>2. v \in CfgValues
  BY Zenon DEF CfgValues
<1>3. /\ SetReg("DELAYS", v) \in TestSteps /\ SetReg("KILL", v) \in TestSteps
      /\ See("DELAYS", v) \in TestSteps /\ See("KILL", v) \in TestSteps
  BY <1>1, <1>2, StepSets, PlainLooks, Zenon
<1>4. <<SetReg("DELAYS", v), See("DELAYS", v), SetReg("KILL", v), See("KILL", v)>> \in Seq(TestSteps)
  BY <1>3, ShortSequences, Zenon
<1>5. /\ <<SetReg("DELAYS", v), SetReg("KILL", v)>> \in Seq(TestSteps)
      /\ <<See("DELAYS", v), See("KILL", v)>> \in Seq(TestSteps)
  BY <1>3, ShortSequences, Zenon
<1>6. /\ <<Do("Save")>> \in Seq(TestSteps) /\ <<Do("Load")>> \in Seq(TestSteps)
      /\ <<Do("Soft reset")>> \in Seq(TestSteps)
  BY StepSets, OneWord, Zenon
<1> QED
  BY <1>4, <1>5, <1>6, Zenon DEF SetAndSee, SetAll, SeeAll

\* SPIcheck is made of steps.
LEMMA StepsTyped ==
  ASSUME NEW file \in Files
  PROVE  Steps(file) \in Seq(AllSteps)
<1>1. ASSUME NEW s, s \in Seq(PlainSteps) \/ s \in Seq(TestSteps) PROVE s \in Seq(AllSteps)
  BY <1>1, StepSets, SeqMonotonic, Zenon
<1>2. Taking \in Seq(AllSteps)
  BY StepSets, PlainCommands, ShortSequences, Zenon DEF Taking
<1>3. Config \in Seq(AllSteps)
  <2> DEFINE a == SetAndSee("test")  b == <<Do("Save")>>  c == SetAndSee("test - 1")
             d == <<Do("Load")>>  e == SeeAll("test")  f == SetAll("test - 1")
             g == <<Do("Soft reset")>>
  <2>1. /\ a \in Seq(AllSteps) /\ b \in Seq(AllSteps) /\ c \in Seq(AllSteps) /\ d \in Seq(AllSteps)
        /\ e \in Seq(AllSteps) /\ f \in Seq(AllSteps) /\ g \in Seq(AllSteps)
    BY <1>1, ConfigParts, Zenon
  <2>2. Config = Taking \o a \o b \o c \o d \o e \o f \o g \o e
    BY Zenon DEF Config, Taking
  <2> HIDE DEF Taking, a, b, c, d, e, f, g
  <2>3. Taking \o a \o b \in Seq(AllSteps)
    BY <1>2, <2>1, Joined, Zenon
  <2>4. Taking \o a \o b \o c \o d \in Seq(AllSteps)
    BY <2>1, <2>3, Joined, Zenon
  <2>5. Taking \o a \o b \o c \o d \o e \o f \in Seq(AllSteps)
    BY <2>1, <2>4, Joined, Zenon
  <2> QED
    BY <2>1, <2>2, <2>5, Joined, Zenon
<1>4. <<Do("Select 1")>> \in Seq(PlainSteps) /\ <<See("uids", "two"), Do("Select 1")>> \in Seq(PlainSteps)
  BY PlainCommands, PlainLooks, ShortSequences, Zenon
<1> DEFINE x == Basics \o Timer \o Registers \o ReadID \o <<Do("Select 1")>> \o ReadID
           y == x \o <<See("uids", "two"), Do("Select 1")>> \o Locks \o Pages(file)
<1>5. x \in Seq(PlainSteps)
  BY <1>4, PlainParts, Joined, Zenon
<1> HIDE DEF x
<1>6. y \in Seq(PlainSteps)
  BY <1>4, <1>5, PlainParts, Joined, Zenon
<1>7. Steps(file) = y \o Config
  BY Zenon DEF Steps, x
<1> HIDE DEF y
<1>8. y \in Seq(AllSteps)
  BY <1>1, <1>6
<1> QED
  BY <1>3, <1>7, <1>8, Joined, Zenon

\* Before the originals are known, and from then on.
LEMMA TwoPhases ==
  ASSUME NEW file \in Files, NEW M, NEW P \in SUBSET RunStates, NEW Q \in SUBSET RunStates,
         \A s \in PlainSteps : Makes(P, s, P, M),
         Makes(P, Do("Originals"), Q, M),
         \A s \in TestSteps : Makes(Q, s, Q, M)
  PROVE  Leads(P, Steps(file), Q, M)
<1>1. \A s \in Seq(PlainSteps) : s \in Seq(AllSteps) /\ Leads(P, s, P, M)
  BY StepSets, SeqMonotonic, LeadsKeep, Zenon
<1>2. \A s \in Seq(TestSteps) : s \in Seq(AllSteps) /\ Leads(Q, s, Q, M)
  BY StepSets, SeqMonotonic, LeadsKeep, Zenon
<1>3. Taking \in Seq(AllSteps) /\ Leads(P, Taking, Q, M)
  <2>1. <<Do("Select 0"), Do("Load")>> \in Seq(PlainSteps)
    BY PlainCommands, ShortSequences, Zenon
  <2>2. Leads(P, <<Do("Select 0"), Do("Load")>>, P, M)
    BY <1>1, <2>1, Zenon
  <2>3. Leads(P, <<Do("Originals")>>, Q, M)
    <3> DEFINE o == Do("Originals")
    <3>1. Makes(P, o, Q, M)
      OBVIOUS
    <3> HIDE DEF o
    <3>2. Leads(P, <<o>>, Q, M)
      BY <3>1, LeadsOne
    <3> QED
      BY <3>2 DEF o
  <2>4. <<Do("Originals")>> \in Seq(AllSteps) /\ <<Do("Select 0"), Do("Load")>> \in Seq(AllSteps)
    BY <1>1, <2>1, StepSets, OneWord, Zenon
  <2>5. Leads(P, <<Do("Select 0"), Do("Load")>> \o <<Do("Originals")>>, Q, M)
    BY <2>2, <2>3, <2>4, LeadsThen, Zenon
  <2>6. <<Do("Select 0"), Do("Load")>> \o <<Do("Originals")>> = Taking
    <3>1. /\ Do("Select 0") \in AllSteps /\ Do("Load") \in AllSteps
          /\ Do("Originals") \in AllSteps
      BY PlainCommands, StepSets, Zenon
    <3> QED
      BY <3>1, ThreeSteps, Zenon DEF Taking
  <2> QED
    BY <2>4, <2>5, <2>6, Joined, Zenon
<1>4. /\ <<Do("Select 1")>> \in Seq(PlainSteps)
      /\ <<See("uids", "two"), Do("Select 1")>> \in Seq(PlainSteps)
  BY PlainCommands, PlainLooks, ShortSequences, Zenon
<1> DEFINE x == Basics \o Timer \o Registers \o ReadID \o <<Do("Select 1")>> \o ReadID
           y == x \o <<See("uids", "two"), Do("Select 1")>> \o Locks \o Pages(file)
<1>5. x \in Seq(PlainSteps)
  BY <1>4, PlainParts, Joined, Zenon
<1> HIDE DEF x
<1>6. y \in Seq(PlainSteps)
  BY <1>4, <1>5, PlainParts, Joined, Zenon
<1>7. Steps(file) = y \o Config
  BY Zenon DEF Steps, x
<1> HIDE DEF y
<1>8. Config \in Seq(AllSteps) /\ Leads(P, Config, Q, M)
  <2> DEFINE a == SetAndSee("test")  b == <<Do("Save")>>  c == SetAndSee("test - 1")
             d == <<Do("Load")>>  e == SeeAll("test")  f == SetAll("test - 1")
             g == <<Do("Soft reset")>>
             L(s) == s \in Seq(AllSteps) /\ Leads(P, s, Q, M)
  <2>1. /\ a \in Seq(TestSteps) /\ b \in Seq(TestSteps) /\ c \in Seq(TestSteps) /\ d \in Seq(TestSteps)
        /\ e \in Seq(TestSteps) /\ f \in Seq(TestSteps) /\ g \in Seq(TestSteps)
    BY ConfigParts, Zenon
  <2>2. Config = Taking \o a \o b \o c \o d \o e \o f \o g \o e
    BY Zenon DEF Config, Taking
  <2>3. ASSUME NEW s, NEW t \in Seq(TestSteps), L(s) PROVE L(s \o t)
    <3>1. t \in Seq(AllSteps) /\ Leads(Q, t, Q, M)
      BY <1>2
    <3>2. s \o t \in Seq(AllSteps)
      BY <2>3, <3>1, Joined, Zenon
    <3>3. Leads(P, s \o t, Q, M)
      BY <2>3, <3>1, LeadsThen, Zenon
    <3> QED
      BY <3>2, <3>3
  <2>4. L(Taking)
    BY <1>3
  <2> HIDE DEF Taking, a, b, c, d, e, f, g, L
  <2>5. L(Taking \o a \o b)
    BY <2>1, <2>3, <2>4, Zenon
  <2>6. L(Taking \o a \o b \o c \o d)
    BY <2>1, <2>3, <2>5, Zenon
  <2>7. L(Taking \o a \o b \o c \o d \o e \o f)
    BY <2>1, <2>3, <2>6, Zenon
  <2>8. L(Taking \o a \o b \o c \o d \o e \o f \o g \o e)
    BY <2>1, <2>3, <2>7, Zenon
  <2> QED
    BY <2>2, <2>8, Zenon DEF L
<1> QED
  BY <1>1, <1>6, <1>7, <1>8, LeadsThen, Zenon

(***************************************************************************)
(* The test values of SPIcheck. Before the originals are known there are   *)
(* none; from then on there are none where they could not be taken out.    *)
(***************************************************************************)
SaveFails == Faulty("cfg save", 0)
TestValues == {"test", "test - 1"}
Untested(c) == \A reg \in CfgRegs : c[reg] \notin TestValues

Pristine == {r \in RunStates : ~r.known /\ Untested(r.board.cfg) /\ Untested(r.board.prom)}

Removable(r) ==
  /\ r.known /\ Untested(r.og)
  /\ \A reg \in CfgRegs : Faulty("cfg", reg) =>
        r.board.cfg[reg] \notin TestValues /\ r.board.prom[reg] \notin TestValues
  /\ SaveFails => Untested(r.board.prom)

Restorable == {r \in RunStates : Removable(r) \/ (r \in Pristine /\ ~r.ok)}

\* A soft reset loads no test value that was not stored.
LEMMA LoadedUntested ==
  ASSUME NEW r \in RunStates
  PROVE  /\ Untested(r.board.cfg) /\ Untested(r.board.prom) => Untested(Loaded(r.board))
         /\ \A reg \in CfgRegs : Faulty("cfg", reg) => Loaded(r.board)[reg] = r.board.cfg[reg]
  BY DEF Loaded, Untested

\* Before the originals are known nothing touches the registers.
LEMMA PlainBefore ==
  ASSUME NEW s \in PlainSteps, NEW M \in SUBSET BOOLEAN
  PROVE  Makes(Pristine, s, Pristine, M)
<1> SUFFICES ASSUME NEW r \in Pristine, NEW m \in M PROVE Step(r, s, m) \in Pristine
  BY Zenon DEF Makes
<1>1. r \in RunStates /\ m \in BOOLEAN /\ ~r.known /\ Untested(r.board.cfg) /\ Untested(r.board.prom)
  BY DEF Pristine
<1>2. ASSUME NEW q, NEW p, SpiStep(r, q, p) PROVE q \in Pristine
  BY <1>1, <1>2 DEF SpiStep, Pristine
<1>3. CASE s \in PortSteps
  BY <1>1, <1>2, <1>3, PortStep, Zenon DEF PortSteps
<1>4. CASE s \in LookSteps
  <2>1. PICK w \in Looks, v \in Views : s = See(w, v)
    BY <1>4 DEF LookSteps
  <2> QED
    BY <1>1, <1>2, <2>1, SeeStep, Zenon
<1>5. CASE s = Keep
  BY <1>1, <1>2, <1>5, KeepStep, Zenon
<1>6. CASE s = Do("Load")
  <2>1. Untested(Loaded(r.board))
    BY <1>1, LoadedUntested
  <2>2. \/ CfgStep(r, Step(r, s, m), r.board.cfg, r.board.prom)
        \/ CfgStep(r, Step(r, s, m), Loaded(r.board), r.board.prom)
    BY <1>1, <1>6, LoadStep, Zenon
  <2> QED
    BY <1>1, <2>1, <2>2 DEF CfgStep, Pristine
<1> QED
  BY <1>3, <1>4, <1>5, <1>6, Zenon DEF PlainSteps

\* From then on they can be restored.
LEMMA OriginalsAfter ==
  ASSUME NEW M \in SUBSET BOOLEAN
  PROVE  Makes(Pristine, Do("Originals"), Restorable, M)
<1> SUFFICES ASSUME NEW r \in Pristine
             PROVE  /\ r.ok => \A m \in M : Step(r, Do("Originals"), m) \in Restorable
                    /\ ~r.ok => r \in Restorable
  BY Zenon DEF Makes
<1>1. r \in RunStates /\ ~r.known /\ Untested(r.board.cfg) /\ Untested(r.board.prom)
  BY DEF Pristine
<1>2. ASSUME NEW m \in M PROVE Step(r, Do("Originals"), m) \in Restorable
  <2> DEFINE q == Step(r, Do("Originals"), m)
  <2>1. /\ q \in RunStates /\ q.board = r.board /\ q.known = TRUE
        /\ q.og = [x \in CfgRegs |-> IF m /\ x = "DELAYS" THEN "default" ELSE r.board.cfg[x]]
    BY <1>1, OriginalsStep
  <2> HIDE DEF q
  <2>2. Untested(q.og)
    <3>1. ASSUME NEW x \in CfgRegs PROVE q.og[x] = "default" \/ q.og[x] = r.board.cfg[x]
      <4>1. q.og[x] = IF m /\ x = "DELAYS" THEN "default" ELSE r.board.cfg[x]
        BY <2>1, <3>1, Zenon
      <4> QED
        BY <4>1, Zenon
    <3>2. "default" \notin TestValues
      BY Zenon DEF TestValues
    <3> QED
      BY <1>1, <3>1, <3>2, Zenon DEF Untested
  <2>3. Removable(q)
    BY <1>1, <2>1, <2>2, Zenon DEF Removable, Untested
  <2> QED
    BY <2>1, <2>3, Zenon DEF Restorable, q
<1> QED
  BY <1>1, <1>2, Zenon DEF Restorable

\* Whatever is set and saved, they can still be restored.
LEMMA TestsAfter ==
  ASSUME NEW s \in TestSteps, NEW M \in SUBSET BOOLEAN
  PROVE  Makes(Restorable, s, Restorable, M)
<1> SUFFICES ASSUME NEW r \in Restorable, r.ok, NEW m \in M PROVE Step(r, s, m) \in Restorable
  BY Zenon DEF Makes
<1>1. r \in RunStates /\ m \in BOOLEAN /\ Removable(r)
  BY DEF Restorable
<1>2. ASSUME NEW q, NEW p, SpiStep(r, q, p) PROVE q \in Restorable
  BY <1>1, <1>2, Zenon DEF SpiStep, Restorable, Removable
<1>3. CASE s \in PortSteps
  BY <1>1, <1>2, <1>3, PortStep, Zenon DEF PortSteps
<1>4. CASE s \in LookSteps
  <2>1. PICK w \in Looks, v \in Views : s = See(w, v)
    BY <1>4 DEF LookSteps
  <2> QED
    BY <1>1, <1>2, <2>1, SeeStep, Zenon
<1>5. CASE s = Keep
  BY <1>1, <1>2, <1>5, KeepStep, Zenon
<1>6. ASSUME NEW q, NEW c, CfgStep(r, q, c, r.board.prom),
             \A reg \in CfgRegs : Faulty("cfg", reg) => c[reg] = r.board.cfg[reg]
      PROVE  q \in Restorable
  <2>1. Removable(q)
    BY <1>1, <1>6 DEF CfgStep, Removable
  <2> QED
    BY <1>6, <2>1, Zenon DEF CfgStep, Restorable
<1>7. CASE s = Do("Load") \/ s = Do("Soft reset")
  <2>1. \/ CfgStep(r, Step(r, s, m), r.board.cfg, r.board.prom)
        \/ CfgStep(r, Step(r, s, m), Loaded(r.board), r.board.prom)
    BY <1>1, <1>7, LoadStep, Zenon
  <2> QED
    BY <1>1, <1>6, <2>1, LoadedUntested
<1>8. CASE s \in SetSteps
  <2>1. PICK reg \in CfgRegs, v \in CfgValues : s = SetReg(reg, v)
    BY <1>8 DEF SetSteps
  <2> DEFINE d == [r.board.cfg EXCEPT ![reg] = v]
             c == SetTo(r.board.cfg, d)
  <2>2. CfgStep(r, Step(r, s, m), c, r.board.prom)
    BY <1>1, <2>1, SetStep, Zenon
  <2>3. \A x \in CfgRegs : Faulty("cfg", x) => c[x] = r.board.cfg[x]
    BY DEF SetTo
  <2> HIDE DEF c
  <2> QED
    BY <1>6, <2>2, <2>3
<1>9. CASE s = Do("Save")
  <2>1. CASE SaveFails
    <3>1. Step(r, s, m) = r
      BY <1>1, <1>9, <2>1, SaveStep, Zenon DEF SaveFails
    <3> QED
      BY <3>1
  <2>2. CASE ~SaveFails
    <3> DEFINE q == Step(r, s, m)
    <3>1. CfgStep(r, q, r.board.cfg, r.board.cfg)
      BY <1>1, <1>9, <2>2, SaveStep, Zenon DEF SaveFails
    <3> HIDE DEF q
    <3>2. Removable(q)
      BY <1>1, <2>2, <3>1, Zenon DEF CfgStep, Removable
    <3> QED
      BY <3>1, <3>2, Zenon DEF CfgStep, Restorable, q
  <2> QED
    BY <2>1, <2>2
<1> QED
  BY <1>3, <1>4, <1>5, <1>7, <1>8, <1>9, Zenon DEF TestSteps, PlainSteps

\* The registers and the PROM of a restored board hold no test value.
LEMMA RestoredValues ==
  ASSUME NEW r \in Restorable
  PROVE  /\ Restored(r) \in IdleBoards /\ Restored(r).spi = r.board.spi
         /\ Untested(Restored(r).cfg) /\ Untested(Restored(r).prom)
<1>1. r \in RunStates /\ r.known \in BOOLEAN /\ r.board \in IdleBoards
  BY DEF Restorable, RunStates
<1>2. CASE ~r.known
  <2>1. r \in Pristine
    BY <1>2, Zenon DEF Restorable, Removable
  <2>2. Restored(r) = r.board
    BY <1>2, Zenon DEF Restored
  <2> QED
    BY <1>1, <2>1, <2>2 DEF Pristine
<1>3. CASE r.known
  <2>1. Removable(r)
    BY <1>3, Zenon DEF Restorable, Pristine
  <2> DEFINE c == SetTo(r.board.cfg, r.og)
             q == [r EXCEPT !.board.cfg = c]
             p == Step(q, Do("Save"), FALSE)
  <2>2. r.board.cfg \in Configurations /\ r.og \in Configurations
    BY <1>1 DEF RunStates, IdleBoards, Boards
  <2>3. c \in Configurations
    BY <2>2, SetTyped
  <2>4. Untested(c)
    BY <2>1 DEF SetTo, Removable, Untested
  <2>5. Restored(r) = p.board
    BY <1>3, Zenon DEF Restored
  <2> HIDE DEF c
  <2>6. CfgStep(r, q, c, r.board.prom)
    BY <1>1, <2>3, CfgPlaced, Zenon
  <2> HIDE DEF q
  <2>7. q \in RunStates
    BY <2>6 DEF CfgStep
  <2>8. CASE SaveFails
    <3>1. p = q
      BY <2>7, <2>8, SaveStep, Zenon DEF SaveFails
    <3> QED
      BY <2>1, <2>4, <2>5, <2>6, <2>8, <3>1, Zenon DEF CfgStep, RunStates, Removable
  <2>9. CASE ~SaveFails
    <3>1. CfgStep(q, p, q.board.cfg, q.board.cfg)
      BY <2>7, <2>9, SaveStep, Zenon DEF SaveFails
    <3> QED
      BY <2>4, <2>5, <2>6, <3>1, Zenon DEF CfgStep, RunStates
  <2> QED
    BY <2>8, <2>9
<1> QED
  BY <1>1, <1>2, <1>3

\* A run of SPIcheck ends where the registers can be restored.
LEMMA RunValues ==
  ASSUME NEW b \in IdleBoards, Untested(b.cfg), Untested(b.prom), NEW file \in Files, NEW glitch
  PROVE  Ran(b, Steps(file), glitch) \in Restorable
<1>1. Steps(file) \in Seq(AllSteps)
  BY StepsTyped
<1>2. Start(b) \in Pristine
  BY StartTyped DEF Pristine
<1>3. Pristine \in SUBSET RunStates /\ Restorable \in SUBSET RunStates
  BY DEF Pristine, Restorable
<1>4. \A s \in PlainSteps : Makes(Pristine, s, Pristine, BOOLEAN)
  BY PlainBefore
<1>5. Makes(Pristine, Do("Originals"), Restorable, BOOLEAN)
  BY OriginalsAfter, Zenon
<1>6. \A s \in TestSteps : Makes(Restorable, s, Restorable, BOOLEAN)
  BY TestsAfter
<1>7. Leads(Pristine, Steps(file), Restorable, BOOLEAN)
  BY <1>3, <1>4, <1>5, <1>6, TwoPhases, Zenon
<1>8. \A i \in 1 .. Len(Steps(file)) : (i = glitch) \in BOOLEAN
  OBVIOUS
<1> QED
  BY <1>1, <1>2, <1>7, <1>8, RanLeads, Zenon

\* Short sequences, step by step.
LEMMA TwoStepsLead ==
  ASSUME NEW M, NEW P2,
         NEW P0 \in SUBSET RunStates, NEW P1 \in SUBSET RunStates,
         NEW a, NEW b,
         Makes(P0, a, P1, M), Makes(P1, b, P2, M)
  PROVE  Leads(P0, <<a, b>>, P2, M)
<1> DEFINE t == <<a, b>>
<1>1. Len(t) = 2
  OBVIOUS
<1>2. t[1] = a /\ t[2] = b
  OBVIOUS
<1> HIDE DEF t
<1> SUFFICES ASSUME NEW g_, IsRun(g_, t, M), g_[0] \in P0
             PROVE  g_[2] \in P2
  BY <1>1 DEF Leads, t
<1>3. g_[1] \in P1
  <2>1. 1 \in 1 .. Len(t) /\ g_[1 - 1] \in P0 /\ Makes(P0, t[1], P1, M)
    BY <1>1, <1>2
  <2> QED
    BY <2>1, RunMade
<1>4. g_[2] \in P2
  <2>1. 2 \in 1 .. Len(t) /\ g_[2 - 1] \in P1 /\ Makes(P1, t[2], P2, M)
    BY <1>1, <1>2, <1>3
  <2> QED
    BY <2>1, RunMade
<1> QED
  BY <1>4

\* Three steps, one after the other.
LEMMA ThreeStepsLead ==
  ASSUME NEW M, NEW P3,
         NEW P0 \in SUBSET RunStates, NEW P1 \in SUBSET RunStates, NEW P2 \in SUBSET RunStates,
         NEW a, NEW b, NEW c,
         Makes(P0, a, P1, M), Makes(P1, b, P2, M), Makes(P2, c, P3, M)
  PROVE  Leads(P0, <<a, b, c>>, P3, M)
<1> DEFINE t == <<a, b, c>>
<1>1. Len(t) = 3
  OBVIOUS
<1>2. t[1] = a /\ t[2] = b /\ t[3] = c
  OBVIOUS
<1> HIDE DEF t
<1> SUFFICES ASSUME NEW g_, IsRun(g_, t, M), g_[0] \in P0
             PROVE  g_[3] \in P3
  BY <1>1 DEF Leads, t
<1>3. g_[1] \in P1
  <2>1. 1 \in 1 .. Len(t) /\ g_[1 - 1] \in P0 /\ Makes(P0, t[1], P1, M)
    BY <1>1, <1>2
  <2> QED
    BY <2>1, RunMade
<1>4. g_[2] \in P2
  <2>1. 2 \in 1 .. Len(t) /\ g_[2 - 1] \in P1 /\ Makes(P1, t[2], P2, M)
    BY <1>1, <1>2, <1>3
  <2> QED
    BY <2>1, RunMade
<1>5. g_[3] \in P3
  <2>1. 3 \in 1 .. Len(t) /\ g_[3 - 1] \in P2 /\ Makes(P2, t[3], P3, M)
    BY <1>1, <1>2, <1>4
  <2> QED
    BY <2>1, RunMade
<1> QED
  BY <1>5

\* Four steps, one after the other.
LEMMA FourStepsLead ==
  ASSUME NEW M, NEW P4,
         NEW P0 \in SUBSET RunStates, NEW P1 \in SUBSET RunStates, NEW P2 \in SUBSET RunStates,
         NEW P3 \in SUBSET RunStates,
         NEW a, NEW b, NEW c, NEW d,
         Makes(P0, a, P1, M), Makes(P1, b, P2, M), Makes(P2, c, P3, M),
         Makes(P3, d, P4, M)
  PROVE  Leads(P0, <<a, b, c, d>>, P4, M)
<1> DEFINE t == <<a, b, c, d>>
<1>1. Len(t) = 4
  OBVIOUS
<1>2. t[1] = a /\ t[2] = b /\ t[3] = c /\ t[4] = d
  OBVIOUS
<1> HIDE DEF t
<1> SUFFICES ASSUME NEW g_, IsRun(g_, t, M), g_[0] \in P0
             PROVE  g_[4] \in P4
  BY <1>1 DEF Leads, t
<1>3. g_[1] \in P1
  <2>1. 1 \in 1 .. Len(t) /\ g_[1 - 1] \in P0 /\ Makes(P0, t[1], P1, M)
    BY <1>1, <1>2
  <2> QED
    BY <2>1, RunMade
<1>4. g_[2] \in P2
  <2>1. 2 \in 1 .. Len(t) /\ g_[2 - 1] \in P1 /\ Makes(P1, t[2], P2, M)
    BY <1>1, <1>2, <1>3
  <2> QED
    BY <2>1, RunMade
<1>5. g_[3] \in P3
  <2>1. 3 \in 1 .. Len(t) /\ g_[3 - 1] \in P2 /\ Makes(P2, t[3], P3, M)
    BY <1>1, <1>2, <1>4
  <2> QED
    BY <2>1, RunMade
<1>6. g_[4] \in P4
  <2>1. 4 \in 1 .. Len(t) /\ g_[4 - 1] \in P3 /\ Makes(P3, t[4], P4, M)
    BY <1>1, <1>2, <1>5
  <2> QED
    BY <2>1, RunMade
<1> QED
  BY <1>6

\* Six steps, one after the other.
LEMMA SixStepsLead ==
  ASSUME NEW M, NEW P6,
         NEW P0 \in SUBSET RunStates, NEW P1 \in SUBSET RunStates, NEW P2 \in SUBSET RunStates,
         NEW P3 \in SUBSET RunStates, NEW P4 \in SUBSET RunStates, NEW P5 \in SUBSET RunStates,
         NEW a, NEW b, NEW c, NEW d, NEW e, NEW f,
         Makes(P0, a, P1, M), Makes(P1, b, P2, M), Makes(P2, c, P3, M),
         Makes(P3, d, P4, M), Makes(P4, e, P5, M), Makes(P5, f, P6, M)
  PROVE  Leads(P0, <<a, b, c, d, e, f>>, P6, M)
<1> DEFINE t == <<a, b, c, d, e, f>>
<1>1. Len(t) = 6
  OBVIOUS
<1>2. t[1] = a /\ t[2] = b /\ t[3] = c /\ t[4] = d /\ t[5] = e /\ t[6] = f
  OBVIOUS
<1> HIDE DEF t
<1> SUFFICES ASSUME NEW g_, IsRun(g_, t, M), g_[0] \in P0
             PROVE  g_[6] \in P6
  BY <1>1 DEF Leads, t
<1>3. g_[1] \in P1
  <2>1. 1 \in 1 .. Len(t) /\ g_[1 - 1] \in P0 /\ Makes(P0, t[1], P1, M)
    BY <1>1, <1>2
  <2> QED
    BY <2>1, RunMade
<1>4. g_[2] \in P2
  <2>1. 2 \in 1 .. Len(t) /\ g_[2 - 1] \in P1 /\ Makes(P1, t[2], P2, M)
    BY <1>1, <1>2, <1>3
  <2> QED
    BY <2>1, RunMade
<1>5. g_[3] \in P3
  <2>1. 3 \in 1 .. Len(t) /\ g_[3 - 1] \in P2 /\ Makes(P2, t[3], P3, M)
    BY <1>1, <1>2, <1>4
  <2> QED
    BY <2>1, RunMade
<1>6. g_[4] \in P4
  <2>1. 4 \in 1 .. Len(t) /\ g_[4 - 1] \in P3 /\ Makes(P3, t[4], P4, M)
    BY <1>1, <1>2, <1>5
  <2> QED
    BY <2>1, RunMade
<1>7. g_[5] \in P5
  <2>1. 5 \in 1 .. Len(t) /\ g_[5 - 1] \in P4 /\ Makes(P4, t[5], P5, M)
    BY <1>1, <1>2, <1>6
  <2> QED
    BY <2>1, RunMade
<1>8. g_[6] \in P6
  <2>1. 6 \in 1 .. Len(t) /\ g_[6 - 1] \in P5 /\ Makes(P5, t[6], P6, M)
    BY <1>1, <1>2, <1>7
  <2> QED
    BY <2>1, RunMade
<1> QED
  BY <1>8

\* Eight steps, one after the other.
LEMMA EightStepsLead ==
  ASSUME NEW M, NEW P8,
         NEW P0 \in SUBSET RunStates, NEW P1 \in SUBSET RunStates, NEW P2 \in SUBSET RunStates,
         NEW P3 \in SUBSET RunStates, NEW P4 \in SUBSET RunStates, NEW P5 \in SUBSET RunStates,
         NEW P6 \in SUBSET RunStates, NEW P7 \in SUBSET RunStates,
         NEW a, NEW b, NEW c, NEW d, NEW e, NEW f, NEW g, NEW h,
         Makes(P0, a, P1, M), Makes(P1, b, P2, M), Makes(P2, c, P3, M),
         Makes(P3, d, P4, M), Makes(P4, e, P5, M), Makes(P5, f, P6, M),
         Makes(P6, g, P7, M), Makes(P7, h, P8, M)
  PROVE  Leads(P0, <<a, b, c, d, e, f, g, h>>, P8, M)
<1> DEFINE t == <<a, b, c, d, e, f, g, h>>
<1>1. Len(t) = 8
  OBVIOUS
<1>2. t[1] = a /\ t[2] = b /\ t[3] = c /\ t[4] = d /\ t[5] = e /\ t[6] = f /\ t[7] = g /\ t[8] = h
  OBVIOUS
<1> HIDE DEF t
<1> SUFFICES ASSUME NEW g_, IsRun(g_, t, M), g_[0] \in P0
             PROVE  g_[8] \in P8
  BY <1>1 DEF Leads, t
<1>3. g_[1] \in P1
  <2>1. 1 \in 1 .. Len(t) /\ g_[1 - 1] \in P0 /\ Makes(P0, t[1], P1, M)
    BY <1>1, <1>2
  <2> QED
    BY <2>1, RunMade
<1>4. g_[2] \in P2
  <2>1. 2 \in 1 .. Len(t) /\ g_[2 - 1] \in P1 /\ Makes(P1, t[2], P2, M)
    BY <1>1, <1>2, <1>3
  <2> QED
    BY <2>1, RunMade
<1>5. g_[3] \in P3
  <2>1. 3 \in 1 .. Len(t) /\ g_[3 - 1] \in P2 /\ Makes(P2, t[3], P3, M)
    BY <1>1, <1>2, <1>4
  <2> QED
    BY <2>1, RunMade
<1>6. g_[4] \in P4
  <2>1. 4 \in 1 .. Len(t) /\ g_[4 - 1] \in P3 /\ Makes(P3, t[4], P4, M)
    BY <1>1, <1>2, <1>5
  <2> QED
    BY <2>1, RunMade
<1>7. g_[5] \in P5
  <2>1. 5 \in 1 .. Len(t) /\ g_[5 - 1] \in P4 /\ Makes(P4, t[5], P5, M)
    BY <1>1, <1>2, <1>6
  <2> QED
    BY <2>1, RunMade
<1>8. g_[6] \in P6
  <2>1. 6 \in 1 .. Len(t) /\ g_[6 - 1] \in P5 /\ Makes(P5, t[6], P6, M)
    BY <1>1, <1>2, <1>7
  <2> QED
    BY <2>1, RunMade
<1>9. g_[7] \in P7
  <2>1. 7 \in 1 .. Len(t) /\ g_[7 - 1] \in P6 /\ Makes(P6, t[7], P7, M)
    BY <1>1, <1>2, <1>8
  <2> QED
    BY <2>1, RunMade
<1>10. g_[8] \in P8
  <2>1. 8 \in 1 .. Len(t) /\ g_[8 - 1] \in P7 /\ Makes(P7, t[8], P8, M)
    BY <1>1, <1>2, <1>9
  <2> QED
    BY <2>1, RunMade
<1> QED
  BY <1>10

\* Nine steps, one after the other.
LEMMA NineStepsLead ==
  ASSUME NEW M, NEW P9,
         NEW P0 \in SUBSET RunStates, NEW P1 \in SUBSET RunStates, NEW P2 \in SUBSET RunStates,
         NEW P3 \in SUBSET RunStates, NEW P4 \in SUBSET RunStates, NEW P5 \in SUBSET RunStates,
         NEW P6 \in SUBSET RunStates, NEW P7 \in SUBSET RunStates, NEW P8 \in SUBSET RunStates,
         NEW a, NEW b, NEW c, NEW d, NEW e, NEW f, NEW g, NEW h, NEW i,
         Makes(P0, a, P1, M), Makes(P1, b, P2, M), Makes(P2, c, P3, M),
         Makes(P3, d, P4, M), Makes(P4, e, P5, M), Makes(P5, f, P6, M),
         Makes(P6, g, P7, M), Makes(P7, h, P8, M), Makes(P8, i, P9, M)
  PROVE  Leads(P0, <<a, b, c, d, e, f, g, h, i>>, P9, M)
<1> DEFINE t == <<a, b, c, d, e, f, g, h, i>>
<1>1. Len(t) = 9
  OBVIOUS
<1>2. t[1] = a /\ t[2] = b /\ t[3] = c /\ t[4] = d /\ t[5] = e /\ t[6] = f /\ t[7] = g /\ t[8] = h /\ t[9] = i
  OBVIOUS
<1> HIDE DEF t
<1> SUFFICES ASSUME NEW g_, IsRun(g_, t, M), g_[0] \in P0
             PROVE  g_[9] \in P9
  BY <1>1 DEF Leads, t
<1>3. g_[1] \in P1
  <2>1. 1 \in 1 .. Len(t) /\ g_[1 - 1] \in P0 /\ Makes(P0, t[1], P1, M)
    BY <1>1, <1>2
  <2> QED
    BY <2>1, RunMade
<1>4. g_[2] \in P2
  <2>1. 2 \in 1 .. Len(t) /\ g_[2 - 1] \in P1 /\ Makes(P1, t[2], P2, M)
    BY <1>1, <1>2, <1>3
  <2> QED
    BY <2>1, RunMade
<1>5. g_[3] \in P3
  <2>1. 3 \in 1 .. Len(t) /\ g_[3 - 1] \in P2 /\ Makes(P2, t[3], P3, M)
    BY <1>1, <1>2, <1>4
  <2> QED
    BY <2>1, RunMade
<1>6. g_[4] \in P4
  <2>1. 4 \in 1 .. Len(t) /\ g_[4 - 1] \in P3 /\ Makes(P3, t[4], P4, M)
    BY <1>1, <1>2, <1>5
  <2> QED
    BY <2>1, RunMade
<1>7. g_[5] \in P5
  <2>1. 5 \in 1 .. Len(t) /\ g_[5 - 1] \in P4 /\ Makes(P4, t[5], P5, M)
    BY <1>1, <1>2, <1>6
  <2> QED
    BY <2>1, RunMade
<1>8. g_[6] \in P6
  <2>1. 6 \in 1 .. Len(t) /\ g_[6 - 1] \in P5 /\ Makes(P5, t[6], P6, M)
    BY <1>1, <1>2, <1>7
  <2> QED
    BY <2>1, RunMade
<1>9. g_[7] \in P7
  <2>1. 7 \in 1 .. Len(t) /\ g_[7 - 1] \in P6 /\ Makes(P6, t[7], P7, M)
    BY <1>1, <1>2, <1>8
  <2> QED
    BY <2>1, RunMade
<1>10. g_[8] \in P8
  <2>1. 8 \in 1 .. Len(t) /\ g_[8 - 1] \in P7 /\ Makes(P7, t[8], P8, M)
    BY <1>1, <1>2, <1>9
  <2> QED
    BY <2>1, RunMade
<1>11. g_[9] \in P9
  <2>1. 9 \in 1 .. Len(t) /\ g_[9 - 1] \in P8 /\ Makes(P8, t[9], P9, M)
    BY <1>1, <1>2, <1>10
  <2> QED
    BY <2>1, RunMade
<1> QED
  BY <1>11

(***************************************************************************)
(* What waits at the port, and the words in its FIFO. Only a few commands  *)
(* are ever kept waiting; Fifo(n): the port is on, and may hold n words.   *)
(***************************************************************************)
Waits == {"NoOp", "Timer start", "Erase", "Timer stop"}
EnableWorks == ~Faulty("spi", "Enable")

PortOK(spi) ==
  /\ spi.queue \in Seq(Waits) /\ Len(spi.queue) <= 4 /\ Len(spi.fifo) <= 4
  /\ spi.on => spi.queue = <<>>

GoodRuns == {r \in RunStates : PortOK(r.board.spi)}
Fifo(n) == {r \in GoodRuns : r.ok => /\ r.board.spi.on /\ EnableWorks
                                     /\ Len(r.board.spi.fifo) <= n}

QuietSteps == {Do(c) : c \in Quiet} \cup LookSteps \cup SetSteps
              \cup {Do("Reset FSM"), Keep, Do("Load"), Do("Save"), Do("Soft reset"), Do("Originals")}

\* Taking a word leaves one less, if there was one.
LEMMA TakenShorter ==
  ASSUME NEW spi \in Ports
  PROVE  LET t == TakenPort(spi)
         IN /\ t.on = spi.on /\ t.queue = spi.queue
            /\ Len(spi.fifo) \in Nat /\ Len(t.fifo) \in Nat
            /\ Len(t.fifo) <= Len(spi.fifo)
            /\ spi.fifo # <<>> => Len(t.fifo) = Len(spi.fifo) - 1
            /\ spi.fifo = <<>> => Len(t.fifo) = 0
<1> DEFINE p == [spi EXCEPT !.fifo = Tail(spi.fifo)]
<1>1. spi.fifo \in Seq(SpiWords)
  BY DEF Ports, Spi
<1>2. CASE spi.fifo = <<>>
  <2>1. TakenPort(spi) = spi
    BY <1>2, Zenon DEF TakenPort
  <2>2. Len(spi.fifo) = 0
    BY <1>2
  <2> QED
    BY <1>2, <2>1, <2>2
<1>3. CASE spi.fifo # <<>>
  <2>1. TakenPort(spi) = p
    BY <1>3, Zenon DEF TakenPort
  <2>2. p.on = spi.on /\ p.queue = spi.queue /\ p.fifo = Tail(spi.fifo)
    BY DEF Ports, Spi
  <2> HIDE DEF p
  <2>3. Len(spi.fifo) \in Nat /\ Len(Tail(spi.fifo)) = Len(spi.fifo) - 1 /\ Len(Tail(spi.fifo)) \in Nat
    <3> DEFINE f == spi.fifo
    <3>1. f \in Seq(SpiWords) /\ f # <<>>
      BY <1>1, <1>3
    <3> HIDE DEF f, SpiWords
    <3>2. Len(f) \in Nat /\ Len(Tail(f)) = Len(f) - 1 /\ Len(f) > 0
      BY <3>1
    <3> QED
      BY <3>2 DEF f
  <2> QED
    BY <1>3, <2>1, <2>2, <2>3
<1> QED
  BY <1>2, <1>3

\* A port that is on pushes the words of the command, if any.
LEMMA PortObeys ==
  ASSUME NEW spi \in Ports, spi.on, NEW c \in Queued
  PROVE  LET p == Port(spi, c)
         IN /\ p \in Ports /\ p.on = spi.on /\ p.queue = spi.queue
            /\ Len(spi.fifo) \in Nat
            /\ Len(p.fifo) = Len(spi.fifo) \/ Len(p.fifo) = Len(spi.fifo) + Pushes(c)
            /\ c \in Quiet => Len(p.fifo) = Len(spi.fifo)
<1> DEFINE p == Obey(spi, c)
<1>1. Port(spi, c) = p
  BY PortOn, Zenon
<1>2. p \in Ports /\ p.on = spi.on /\ p.queue = spi.queue
  BY ObeyedPort
<1>3. p.fifo = spi.fifo \/ Len(p.fifo) = Len(spi.fifo) + Pushes(c)
  BY ObeyedPort
<1>4. c \in Quiet => p.fifo = spi.fifo \/ Len(p.fifo) = Len(spi.fifo)
  BY ObeyQuiet
<1>5. Len(spi.fifo) \in Nat
  BY DEF Ports, Spi
<1> HIDE DEF p
<1>6. /\ Len(p.fifo) = Len(spi.fifo) \/ Len(p.fifo) = Len(spi.fifo) + Pushes(c)
      /\ c \in Quiet => Len(p.fifo) = Len(spi.fifo)
  BY <1>3, <1>4, Zenon
<1> QED
  BY <1>1, <1>2, <1>5, <1>6, Zenon

\* The run goes on with the same port, or one that is as good.
LEMMA StaysGood ==
  ASSUME NEW n \in Nat, NEW r \in Fifo(n), r.ok, NEW q \in RunStates, NEW k \in Nat, k <= 4,
         q.board.spi.on = r.board.spi.on, q.board.spi.queue = r.board.spi.queue,
         Len(q.board.spi.fifo) <= 4, q.ok => Len(q.board.spi.fifo) <= k
  PROVE  q \in Fifo(k)
<1>1. PortOK(r.board.spi) /\ r.board.spi.on /\ EnableWorks
  BY DEF Fifo, GoodRuns
<1>2. PortOK(q.board.spi)
  BY <1>1, Zenon DEF PortOK
<1> QED
  BY <1>1, <1>2, Zenon DEF Fifo, GoodRuns

\* No more words, and nothing else that matters here has changed.
NoMore(spi, p) ==
  /\ p.on = spi.on /\ p.queue = spi.queue
  /\ Len(p.fifo) \in Nat /\ Len(p.fifo) <= Len(spi.fifo)

\* What adds no words and lets no command wait.
LEMMA NoMorePorts ==
  ASSUME NEW spi \in Ports
  PROVE  /\ NoMore(spi, spi) /\ NoMore(spi, TakenPort(spi))
         /\ NoMore(spi, Port(spi, "Reset FSM"))
         /\ \A c \in Quiet : spi.on => NoMore(spi, Port(spi, c))
<1>1. Len(spi.fifo) \in Nat
  BY DEF Ports, Spi
<1>2. NoMore(spi, spi)
  BY <1>1 DEF NoMore
<1>3. NoMore(spi, TakenPort(spi))
  BY TakenShorter, Zenon DEF NoMore
<1>4. NoMore(spi, Port(spi, "Reset FSM"))
  <2> DEFINE p == [spi EXCEPT !.half = FALSE]
  <2>1. p.on = spi.on /\ p.queue = spi.queue /\ p.fifo = spi.fifo
    BY DEF Ports, Spi
  <2> HIDE DEF p
  <2>2. NoMore(spi, p)
    BY <1>1, <2>1 DEF NoMore
  <2>3. Port(spi, "Reset FSM") = spi \/ Port(spi, "Reset FSM") = p
    BY PortReset, Zenon DEF p
  <2> QED
    BY <1>2, <2>2, <2>3, Zenon
<1>5. ASSUME NEW c \in Quiet, spi.on PROVE NoMore(spi, Port(spi, c))
  <2> DEFINE p == Port(spi, c)
  <2>1. c \in Queued
    BY Zenon DEF Quiet
  <2>2. p.on = spi.on /\ p.queue = spi.queue /\ Len(p.fifo) = Len(spi.fifo)
    BY <1>5, <2>1, PortObeys, Zenon
  <2> HIDE DEF p
  <2>3. NoMore(spi, p)
    BY <1>1, <2>2 DEF NoMore
  <2> QED
    BY <2>3 DEF p
<1> QED
  BY <1>2, <1>3, <1>4, <1>5, Zenon

\* With no more words and commands, a run stays within its limit.
LEMMA FifoStays ==
  ASSUME NEW n \in Nat, n <= 4, NEW r \in Fifo(n), r.ok, NEW q \in RunStates,
         NoMore(r.board.spi, q.board.spi)
  PROVE  q \in Fifo(n)
<1>1. Len(r.board.spi.fifo) <= n /\ Len(r.board.spi.fifo) \in Nat
  BY DEF Fifo, GoodRuns, RunStates, IdleBoards, Ports, Spi
<1> DEFINE x == Len(q.board.spi.fifo)  y == Len(r.board.spi.fifo)
<1>2. x \in Nat /\ y \in Nat /\ x <= y /\ y <= n
  BY <1>1, Zenon DEF NoMore
<1> HIDE DEF x, y
<1>3. x <= n /\ x <= 4
  BY <1>2
<1> QED
  BY <1>3, StaysGood, Zenon DEF NoMore, x

\* Steps that add none keep the limit.
LEMMA FifoKeeps ==
  ASSUME NEW n \in Nat, n <= 4, NEW s \in QuietSteps, NEW M \in SUBSET BOOLEAN
  PROVE  Makes(Fifo(n), s, Fifo(n), M)
<1> SUFFICES ASSUME NEW r \in Fifo(n), r.ok, NEW m \in M PROVE Step(r, s, m) \in Fifo(n)
  BY Zenon DEF Makes
<1> DEFINE q == Step(r, s, m)
           spi == r.board.spi
<1>1. r \in RunStates /\ m \in BOOLEAN /\ spi \in Ports /\ spi.on
  BY DEF Fifo, GoodRuns, RunStates, IdleBoards
<1>2. ASSUME q \in RunStates, NoMore(spi, q.board.spi) PROVE q \in Fifo(n)
  BY <1>2, FifoStays, Zenon
<1>3. /\ NoMore(spi, spi) /\ NoMore(spi, TakenPort(spi)) /\ NoMore(spi, Port(spi, "Reset FSM"))
      /\ \A c \in Quiet : NoMore(spi, Port(spi, c))
  BY <1>1, NoMorePorts, Zenon
<1>4. \A c \in Quiet : c \in PortCommands
  BY Zenon DEF Quiet, PortCommands
<1>5. "Reset FSM" \in PortCommands
  BY Zenon DEF PortCommands
<1> HIDE DEF q, spi
<1>6. CASE s \in {Do(c) : c \in Quiet}
  <2>1. PICK c \in Quiet : s = Do(c)
    BY <1>6
  <2>2. q \in RunStates /\ q.board.spi = Port(spi, c)
    BY <1>1, <1>4, <2>1, PortStep, Zenon DEF SpiStep, q, spi
  <2> QED
    BY <1>2, <1>3, <2>2, Zenon DEF q
<1>7. CASE s \in LookSteps
  <2>1. PICK w \in Looks, v \in Views : s = See(w, v)
    BY <1>7 DEF LookSteps
  <2>2. SpiStep(r, q, spi) \/ SpiStep(r, q, TakenPort(spi))
    BY <1>1, <2>1, SeeStep, Zenon DEF q, spi
  <2> QED
    BY <1>2, <1>3, <2>2, Zenon DEF SpiStep, q
<1>8. CASE s = Keep
  <2>1. SpiStep(r, q, TakenPort(spi))
    BY <1>1, <1>8, KeepStep, Zenon DEF q, spi
  <2> QED
    BY <1>2, <1>3, <2>1, Zenon DEF SpiStep, q
<1>9. CASE s \in SetSteps
  <2>1. PICK reg \in CfgRegs, v \in CfgValues : s = SetReg(reg, v)
    BY <1>9 DEF SetSteps
  <2>2. \E c, d : CfgStep(r, q, c, d)
    BY <1>1, <2>1, SetStep, Zenon DEF q
  <2> QED
    BY <1>2, <1>3, <2>2, Zenon DEF CfgStep, q, spi
<1>10. CASE s \in {Do("Load"), Do("Save"), Do("Soft reset")}
  <2>1. \E c, d : CfgStep(r, q, c, d)
    BY <1>1, <1>10, LoadStep, SaveStep, Zenon DEF q
  <2> QED
    BY <1>2, <1>3, <2>1, Zenon DEF CfgStep, q, spi
<1>11. CASE s = Do("Originals")
  <2>1. q \in RunStates /\ q.board = r.board
    BY <1>1, <1>11, OriginalsStep, Zenon DEF q
  <2> QED
    BY <1>2, <1>3, <2>1, Zenon DEF q, spi
<1>12. CASE s = Do("Reset FSM")
  <2>1. q \in RunStates /\ q.board.spi = Port(spi, "Reset FSM")
    BY <1>1, <1>5, <1>12, PortStep, Zenon DEF SpiStep, q, spi
  <2> QED
    BY <1>2, <1>3, <2>1, Zenon DEF q
<1> QED
  BY <1>6, <1>7, <1>8, <1>9, <1>10, <1>11, <1>12, Zenon DEF QuietSteps, q

\* A port that is on obeys, and may push words.
LEMMA FifoPushes ==
  ASSUME NEW n \in Nat, NEW k \in Nat, k <= 4, NEW c \in Queued, n + Pushes(c) <= k,
         Pushes(c) \in Nat, NEW M \in SUBSET BOOLEAN
  PROVE  Makes(Fifo(n), Do(c), Fifo(k), M)
<1> SUFFICES ASSUME NEW r \in Fifo(n), r.ok, NEW m \in M PROVE Step(r, Do(c), m) \in Fifo(k)
  <2>1. \A r \in Fifo(n) : ~r.ok => r \in Fifo(k)
    BY Zenon DEF Fifo
  <2> QED
    BY <2>1, Zenon DEF Makes
<1> DEFINE q == Step(r, Do(c), m)
           spi == r.board.spi
           p == Port(spi, c)
<1>1. r \in RunStates /\ m \in BOOLEAN /\ spi \in Ports /\ spi.on /\ Len(spi.fifo) <= n
  BY DEF Fifo, GoodRuns, RunStates, IdleBoards
<1>2. c \in PortCommands
  BY Zenon DEF PortCommands
<1>3. q \in RunStates /\ q.board.spi = p
  BY <1>1, <1>2, PortStep, Zenon DEF SpiStep
<1>4. /\ p.on = spi.on /\ p.queue = spi.queue /\ Len(spi.fifo) \in Nat
      /\ Len(p.fifo) = Len(spi.fifo) \/ Len(p.fifo) = Len(spi.fifo) + Pushes(c)
  BY <1>1, PortObeys
<1> DEFINE x == Len(p.fifo)  y == Len(spi.fifo)  z == Pushes(c)
<1>5. y \in Nat /\ z \in Nat /\ y <= n /\ n + z <= k /\ (x = y \/ x = y + z)
  BY <1>1, <1>4, Zenon
<1> HIDE DEF x, y, z
<1>6. x <= k /\ x <= 4
  BY <1>5
<1>7. Len(q.board.spi.fifo) <= k /\ Len(q.board.spi.fifo) <= 4
  BY <1>3, <1>6, Zenon DEF x
<1>8. q.board.spi.on = r.board.spi.on /\ q.board.spi.queue = r.board.spi.queue
  BY <1>3, <1>4, Zenon
<1> HIDE DEF q
<1>9. q \in Fifo(k)
  BY <1>3, <1>7, <1>8, StaysGood, Zenon
<1> QED
  BY <1>9, Zenon DEF q

\* A word that is compared has been there; one that is kept need not.
LEMMA FifoTakes ==
  ASSUME NEW n \in Nat, NEW k \in Nat, k <= 4, n <= k + 1, n <= 4, NEW s,
         s = Keep \/ \E v : s = See("word", v), NEW M \in SUBSET BOOLEAN
  PROVE  Makes(Fifo(n), s, Fifo(k), M)
<1> SUFFICES ASSUME NEW r \in Fifo(n), r.ok, NEW m \in M PROVE Step(r, s, m) \in Fifo(k)
  <2>1. \A r \in Fifo(n) : ~r.ok => r \in Fifo(k)
    BY Zenon DEF Fifo
  <2> QED
    BY <2>1, Zenon DEF Makes
<1> DEFINE q == Step(r, s, m)
           spi == r.board.spi
           p == TakenPort(spi)
<1>1. r \in RunStates /\ m \in BOOLEAN /\ spi \in Ports /\ spi.on /\ Len(spi.fifo) <= n
  BY DEF Fifo, GoodRuns, RunStates, IdleBoards
<1>2. SpiStep(r, q, p)
  <2>1. CASE s = Keep
    BY <1>1, <2>1, KeepStep, Zenon
  <2>2. CASE \E v : s = See("word", v)
    BY <1>1, <2>2, SeeStep, Zenon
  <2> QED
    BY <2>1, <2>2
<1>3. /\ p.on = spi.on /\ p.queue = spi.queue
      /\ Len(spi.fifo) \in Nat /\ Len(p.fifo) \in Nat
      /\ spi.fifo # <<>> => Len(p.fifo) = Len(spi.fifo) - 1
      /\ spi.fifo = <<>> => Len(p.fifo) = 0
  BY <1>1, TakenShorter, Zenon
<1> DEFINE x == Len(p.fifo)  y == Len(spi.fifo)
<1>4. x \in Nat /\ y \in Nat /\ y <= n /\ (x = y - 1 \/ x = 0)
  BY <1>1, <1>3, Zenon
<1> HIDE DEF x, y
<1>5. x <= k /\ x <= 4
  BY <1>4
<1>6. /\ q \in RunStates /\ Len(q.board.spi.fifo) <= k /\ Len(q.board.spi.fifo) <= 4
      /\ q.board.spi.on = r.board.spi.on /\ q.board.spi.queue = r.board.spi.queue
  BY <1>2, <1>3, <1>5, Zenon DEF x, SpiStep
<1> HIDE DEF q
<1>7. q \in Fifo(k)
  BY <1>6, StaysGood, Zenon
<1> QED
  BY <1>7, Zenon DEF q

\* The FIFO is seen to be empty.
LEMMA FifoSeen ==
  ASSUME NEW n \in Nat, n <= 4, NEW M \in SUBSET BOOLEAN
  PROVE  Makes(Fifo(n), See("words", "none"), Fifo(0), M)
<1> SUFFICES ASSUME NEW r \in Fifo(n), r.ok, NEW m \in M
             PROVE Step(r, See("words", "none"), m) \in Fifo(0)
  <2>1. \A r \in Fifo(n) : ~r.ok => r \in Fifo(0)
    BY Zenon DEF Fifo
  <2> QED
    BY <2>1, Zenon DEF Makes
<1> DEFINE q == Step(r, See("words", "none"), m)
           spi == r.board.spi
<1>1. r \in RunStates /\ m \in BOOLEAN /\ PortOK(spi)
  BY DEF Fifo, GoodRuns
<1>2. SpiStep(r, q, spi) /\ q.ok = (Agrees(r, "words", "none") /\ ~m)
  BY <1>1, SeeStep, Zenon
<1>3. Agrees(r, "words", "none") => Len(spi.fifo) = 0
  BY Zenon DEF Agrees
<1>4. Len(spi.fifo) <= 4
  BY <1>1, Zenon DEF PortOK
<1> HIDE DEF q
<1>5. q \in RunStates /\ q.board.spi = spi
  BY <1>2, Zenon DEF SpiStep
<1> DEFINE x == Len(q.board.spi.fifo)
<1>6. (q.ok => x = 0) /\ x <= 4
  BY <1>2, <1>3, <1>4, <1>5, Zenon
<1> HIDE DEF x
<1>7. q.ok => x <= 0
  BY <1>6
<1>8. 0 \in Nat /\ 0 <= 4
  OBVIOUS
<1>9. q \in Fifo(0)
  BY <1>5, <1>6, <1>7, <1>8, StaysGood, Zenon DEF x
<1> QED
  BY <1>9, Zenon DEF q

\* Opening and closing the port.
Running == {r \in GoodRuns : r.ok => r.board.spi.on}
Emptied == {r \in GoodRuns : r.ok => r.board.spi.queue = <<>>}
Stopped == {r \in GoodRuns : r.ok => ~r.board.spi.on}
Started == {r \in GoodRuns : r.ok => (r.board.spi.on => EnableWorks)}

\* The commands that may wait push no words.
LEMMA WaitsQuiet == Waits \subseteq Quiet /\ Waits \subseteq Queued
<1>1. Waits \subseteq Queued
  BY Zenon DEF Waits, Queued, Commands
<1>2. \A c \in Waits : c \notin {"Read", "Read ID", "Read lock", "Read volatile lock"}
  BY Zenon DEF Waits
<1> QED
  BY <1>1, <1>2, Zenon DEF Quiet

\* p is the port spi after it was enabled.
Enabled(spi, p) ==
  /\ PortOK(p) /\ Len(p.fifo) = Len(spi.fifo)
  /\ EnableWorks => p.on
  /\ ~EnableWorks => p = spi

\* Enable leaves no command waiting, and no more words than before.
LEMMA EnableGood ==
  ASSUME NEW spi \in Ports, PortOK(spi)
  PROVE  Enabled(spi, Port(spi, "Enable"))
<1>1. CASE ~EnableWorks
  <2>1. Port(spi, "Enable") = spi
    BY <1>1, PortEnable, Zenon DEF EnableWorks
  <2> QED
    BY <1>1, <2>1, Zenon DEF Enabled
<1>2. CASE EnableWorks
  <2>1. PICK p \in Ports : /\ p = [Flushed(spi) EXCEPT !.on = TRUE, !.queue = <<>>]
                           /\ p.on = TRUE /\ p.queue = <<>>
                           /\ p.fifo = Flushed(spi).fifo
    BY EnabledPort, Zenon
  <2>2. Port(spi, "Enable") = p
    BY <1>2, <2>1, PortEnable, Zenon DEF EnableWorks
  <2>3. spi.queue \in Seq(Quiet)
    BY WaitsQuiet, SeqMonotonic, Zenon DEF PortOK
  <2>4. Len(p.fifo) = Len(spi.fifo)
    BY <2>1, <2>3, FlushedPort, Zenon
  <2>5. <<>> \in Seq(Waits) /\ Len(<<>>) <= 4
    OBVIOUS
  <2>6. PortOK(p)
    BY <2>1, <2>4, <2>5, Zenon DEF PortOK
  <2> QED
    BY <1>2, <2>1, <2>2, <2>4, <2>6, Zenon DEF Enabled
<1> QED
  BY <1>1, <1>2, Zenon

\* p is the port spi after a command that can wait.
Waited(spi, p) ==
  /\ PortOK(p) /\ Len(p.fifo) = Len(spi.fifo) /\ p.on = spi.on
  /\ Len(p.queue) \in Nat /\ Len(p.queue) <= Len(spi.queue) + 1

\* One command more waits, while there are few.
LEMMA WaitGood ==
  ASSUME NEW spi \in Ports, PortOK(spi), Len(spi.queue) <= 3, NEW c \in Waits
  PROVE  Waited(spi, Port(spi, c))
<1> DEFINE p == Port(spi, c)
<1>1. c \in Quiet /\ c \in Queued
  BY WaitsQuiet
<1>2. spi.queue \in Seq(Waits) /\ Len(spi.queue) \in Nat
  BY DEF PortOK
<1>3. CASE spi.on
  <2>1. p.on = spi.on /\ p.queue = spi.queue /\ Len(p.fifo) = Len(spi.fifo)
    BY <1>1, <1>3, PortObeys, Zenon
  <2> HIDE DEF p
  <2>2. PortOK(p)
    BY <2>1, Zenon DEF PortOK
  <2>3. Len(spi.queue) <= Len(spi.queue) + 1
    BY <1>2
  <2>4. Waited(spi, p)
    BY <1>2, <2>1, <2>2, <2>3, Zenon DEF Waited
  <2> QED
    BY <2>4 DEF p
<1>4. CASE ~spi.on
  <2>1. PICK w \in Ports : /\ w = [spi EXCEPT !.queue = Append(spi.queue, c)]
                           /\ w.on = spi.on /\ w.fifo = spi.fifo
                           /\ w.queue = Append(spi.queue, c)
    BY <1>1, QueuedLonger, Zenon
  <2>2. p = w
    BY <1>1, <1>4, <2>1, PortOff, Zenon
  <2>3. w.queue \in Seq(Waits) /\ Len(w.queue) = Len(spi.queue) + 1
    <3> DEFINE u == spi.queue
    <3>1. u \in Seq(Waits)
      BY <1>2
    <3> HIDE DEF u, Waits
    <3>2. Append(u, c) \in Seq(Waits) /\ Len(Append(u, c)) = Len(u) + 1
      BY <3>1
    <3> QED
      BY <2>1, <3>2 DEF u
  <2>4. Len(w.queue) \in Nat /\ Len(w.queue) <= 4 /\ Len(w.queue) <= Len(spi.queue) + 1
    BY <1>2, <2>3
  <2>5. PortOK(w)
    BY <1>4, <2>1, <2>3, <2>4, Zenon DEF PortOK
  <2> QED
    BY <2>1, <2>2, <2>4, <2>5, Zenon DEF Waited
<1> QED
  BY <1>3, <1>4

\* Disable leaves words and waiting commands as they are.
LEMMA DisableGood ==
  ASSUME NEW spi \in Ports, PortOK(spi)
  PROVE  LET p == Port(spi, "Disable")
         IN PortOK(p) /\ p.queue = spi.queue /\ p.fifo = spi.fifo
<1> DEFINE p == [spi EXCEPT !.on = FALSE]
<1>1. p.queue = spi.queue /\ p.fifo = spi.fifo /\ p.on = FALSE
  BY DEF Ports, Spi
<1> HIDE DEF p
<1>2. PortOK(p)
  BY <1>1, Zenon DEF PortOK
<1>3. Port(spi, "Disable") = spi \/ Port(spi, "Disable") = p
  BY PortDisable, Zenon DEF p
<1> QED
  BY <1>1, <1>2, <1>3, Zenon

\* A step of a good run that gives a command to the port.
LEMMA CommandGood ==
  ASSUME NEW r \in GoodRuns, NEW c \in PortCommands, NEW m \in BOOLEAN
  PROVE  LET q == Step(r, Do(c), m)
         IN /\ q.board.spi = Port(r.board.spi, c) /\ q.ok = r.ok
            /\ r.board.spi \in Ports /\ PortOK(r.board.spi)
            /\ PortOK(q.board.spi) => q \in GoodRuns
<1> DEFINE q == Step(r, Do(c), m)
<1>1. r \in RunStates /\ r.board.spi \in Ports /\ PortOK(r.board.spi)
  BY DEF GoodRuns, RunStates, IdleBoards
<1>2. SpiStep(r, q, Port(r.board.spi, c)) /\ q.ok = r.ok
  BY <1>1, PortStep, Zenon
<1> HIDE DEF q
<1>3. PortOK(q.board.spi) => q \in GoodRuns
  BY <1>2, Zenon DEF GoodRuns, SpiStep
<1> QED
  BY <1>1, <1>2, <1>3, Zenon DEF SpiStep, q

\* The sets of states of a run that are used below.
LEMMA WalkSets ==
  /\ GoodRuns \in SUBSET RunStates /\ Running \in SUBSET RunStates
  /\ Emptied \in SUBSET RunStates /\ Stopped \in SUBSET RunStates
  /\ Started \in SUBSET RunStates /\ \A n : Fifo(n) \in SUBSET RunStates
  BY DEF GoodRuns, Running, Emptied, Stopped, Started, Fifo

\* The commands that are used below.
LEMMA WalkCommands ==
  /\ "Enable" \in PortCommands /\ "Disable" \in PortCommands
  /\ Waits \subseteq PortCommands /\ "NoOp" \in Waits
<1>1. Waits \subseteq PortCommands
  BY WaitsQuiet, Zenon DEF PortCommands
<1>2. "Enable" \in PortCommands /\ "Disable" \in PortCommands /\ "NoOp" \in Waits
  BY Zenon DEF PortCommands, Waits
<1> QED
  BY <1>1, <1>2

\* The steps with which SPIcheck opens and closes the port.
LEMMA EnableMakes ==
  ASSUME NEW M \in SUBSET BOOLEAN
  PROVE  /\ Makes(GoodRuns, Do("Enable"), GoodRuns, M)
         /\ Makes(Stopped, Do("Enable"), Started, M)
<1>1. ASSUME NEW r \in GoodRuns, r.ok, NEW m \in M
      PROVE  /\ Step(r, Do("Enable"), m) \in GoodRuns
             /\ ~r.board.spi.on => Step(r, Do("Enable"), m) \in Started
  <2> DEFINE q == Step(r, Do("Enable"), m)
             spi == r.board.spi
  <2>1. /\ q.board.spi = Port(spi, "Enable") /\ q.ok = r.ok
        /\ spi \in Ports /\ PortOK(spi)
        /\ PortOK(q.board.spi) => q \in GoodRuns
    <3>1. m \in BOOLEAN
      OBVIOUS
    <3> QED
      BY <3>1, WalkCommands, CommandGood, Zenon
  <2>2. Enabled(spi, q.board.spi)
    BY <2>1, EnableGood, Zenon
  <2> HIDE DEF q
  <2>3. q \in GoodRuns
    BY <2>1, <2>2, Zenon DEF Enabled
  <2>4. ~r.board.spi.on => (q.board.spi.on => EnableWorks)
    BY <2>2, Zenon DEF Enabled
  <2> QED
    BY <2>3, <2>4, Zenon DEF Started, q
<1>2. Makes(GoodRuns, Do("Enable"), GoodRuns, M)
  BY <1>1, Zenon DEF Makes
<1>3. Makes(Stopped, Do("Enable"), Started, M)
  BY <1>1, Zenon DEF Makes, Stopped, Started
<1> QED
  BY <1>2, <1>3

\* A command that is done at once, or waits while the port is off.
LEMMA WaitMakes ==
  ASSUME NEW M \in SUBSET BOOLEAN
  PROVE  /\ Makes(Running, Do("NoOp"), Running, M)
         /\ Makes(Emptied, Do("NoOp"), GoodRuns, M)
<1>1. ASSUME NEW r \in GoodRuns, NEW m \in M, r.board.spi.queue = <<>>
      PROVE  /\ Step(r, Do("NoOp"), m) \in GoodRuns
             /\ r.board.spi.on => Step(r, Do("NoOp"), m).board.spi.on
  <2> DEFINE q == Step(r, Do("NoOp"), m)
             spi == r.board.spi
  <2>1. /\ q.board.spi = Port(spi, "NoOp") /\ q.ok = r.ok
        /\ spi \in Ports /\ PortOK(spi)
        /\ PortOK(q.board.spi) => q \in GoodRuns
    <3>1. m \in BOOLEAN
      OBVIOUS
    <3> QED
      BY <3>1, WalkCommands, CommandGood, Zenon
  <2>2. Len(spi.queue) <= 3
    BY <1>1
  <2>3. Waited(spi, q.board.spi)
    BY <2>1, <2>2, WaitGood, WalkCommands, Zenon
  <2> HIDE DEF q
  <2>4. q \in GoodRuns
    BY <2>1, <2>3, Zenon DEF Waited
  <2> QED
    BY <2>3, <2>4, Zenon DEF Waited, q
<1>2. \A r \in GoodRuns : r.board.spi.on => r.board.spi.queue = <<>>
  BY Zenon DEF GoodRuns, PortOK
<1>3. Makes(Running, Do("NoOp"), Running, M)
  BY <1>1, <1>2, Zenon DEF Makes, Running
<1>4. Makes(Emptied, Do("NoOp"), GoodRuns, M)
  BY <1>1, Zenon DEF Makes, Emptied
<1> QED
  BY <1>3, <1>4

\* Disable empties no queue, but there is none while the port is on.
LEMMA DisableMakes ==
  ASSUME NEW M \in SUBSET BOOLEAN
  PROVE  Makes(Running, Do("Disable"), Emptied, M)
<1>1. ASSUME NEW r \in Running, r.ok, NEW m \in M
      PROVE  Step(r, Do("Disable"), m) \in Emptied
  <2> DEFINE q == Step(r, Do("Disable"), m)
             spi == r.board.spi
  <2>0. r \in GoodRuns
    BY DEF Running
  <2>1. /\ q.board.spi = Port(spi, "Disable") /\ q.ok = r.ok
        /\ spi \in Ports /\ PortOK(spi)
        /\ PortOK(q.board.spi) => q \in GoodRuns
    <3>1. m \in BOOLEAN
      OBVIOUS
    <3> QED
      BY <2>0, <3>1, WalkCommands, CommandGood, Zenon
  <2>2. PortOK(q.board.spi) /\ q.board.spi.queue = spi.queue
    BY <2>1, DisableGood, Zenon
  <2>3. spi.queue = <<>>
    BY <1>1, <2>1, Zenon DEF Running, PortOK
  <2> HIDE DEF q
  <2> QED
    BY <2>1, <2>2, <2>3, Zenon DEF Emptied, q
<1>2. \A r \in Running : ~r.ok => r \in Emptied
  BY Zenon DEF Running, Emptied
<1> QED
  BY <1>1, <1>2, Zenon DEF Makes

\* Looks whether the port is on end the run if it is not.
LEMMA LookMakes ==
  ASSUME NEW M \in SUBSET BOOLEAN
  PROVE  /\ Makes(GoodRuns, See("on", "yes"), Running, M)
         /\ Makes(Running, See("on", "yes"), Running, M)
         /\ Makes(GoodRuns, See("on", "no"), Stopped, M)
         /\ Makes(Started, See("on", "yes"), Fifo(4), M)

<1>1. ASSUME NEW r \in GoodRuns, NEW m \in M, NEW v
      PROVE  LET q == Step(r, See("on", v), m)
             IN /\ q \in GoodRuns /\ q.board.spi = r.board.spi
                /\ q.ok => YesNo(r.board.spi.on) = v
  <2> DEFINE q == Step(r, See("on", v), m)
  <2>1. r \in RunStates /\ m \in BOOLEAN /\ PortOK(r.board.spi)
    BY DEF GoodRuns
  <2> DEFINE w == "on"
  <2>2. w # "word"
    OBVIOUS
  <2> HIDE DEF w
  <2>3. LET p == Step(r, See(w, v), m)
        IN SpiStep(r, p, r.board.spi) /\ p.ok = (Agrees(r, w, v) /\ ~m)
    BY <2>1, <2>2, SeeStep
  <2>4. Agrees(r, "on", v) => YesNo(r.board.spi.on) = v
    BY Zenon DEF Agrees
  <2>5. SpiStep(r, q, r.board.spi) /\ q.ok = (Agrees(r, "on", v) /\ ~m)
    BY <2>3, Zenon DEF w
  <2> HIDE DEF q
  <2> QED
    BY <2>1, <2>4, <2>5, Zenon DEF SpiStep, GoodRuns, q
<1>2. \A b : YesNo(b) = "yes" => b
  BY DEF YesNo
<1>3. \A b : YesNo(b) = "no" => ~b
  BY DEF YesNo
<1>4. Makes(GoodRuns, See("on", "yes"), Running, M)
  <2>1. ASSUME NEW r \in GoodRuns, NEW m \in M
        PROVE  Step(r, See("on", "yes"), m) \in Running
    <3> DEFINE q == Step(r, See("on", "yes"), m)
    <3>1. /\ q \in GoodRuns /\ q.board.spi = r.board.spi
          /\ q.ok => YesNo(r.board.spi.on) = "yes"
      BY <1>1, Zenon
    <3> HIDE DEF q
    <3> QED
      BY <1>2, <3>1, SMT DEF Running, q
  <2>2. \A r \in GoodRuns : ~r.ok => r \in Running
    BY Zenon DEF Running
  <2> QED
    BY <2>1, <2>2, Zenon DEF Makes
<1>5. Makes(Running, See("on", "yes"), Running, M)
  BY <1>4, Zenon DEF Makes, Running
<1>6. Makes(GoodRuns, See("on", "no"), Stopped, M)
  BY <1>1, <1>3, Zenon DEF Makes, Stopped
<1>7. Makes(Started, See("on", "yes"), Fifo(4), M)
  <2>1. \A r \in GoodRuns : Len(r.board.spi.fifo) <= 4
    BY Zenon DEF GoodRuns, PortOK
  <2>2. ASSUME NEW r \in Started, r.ok, NEW m \in M
        PROVE  Step(r, See("on", "yes"), m) \in Fifo(4)
    <3> DEFINE q == Step(r, See("on", "yes"), m)
    <3>1. r \in GoodRuns /\ (r.board.spi.on => EnableWorks)
      BY <2>2, Zenon DEF Started
    <3>3. /\ q \in GoodRuns /\ q.board.spi = r.board.spi
          /\ q.ok => YesNo(r.board.spi.on) = "yes"
      BY <1>1, <3>1, Zenon
    <3>2. /\ q \in GoodRuns /\ q.board.spi = r.board.spi
          /\ q.ok => r.board.spi.on
      BY <1>2, <3>1, <3>3, SMT
    <3> HIDE DEF q
    <3> QED
      BY <2>1, <3>1, <3>2, Zenon DEF Fifo, q
  <2>3. \A r \in Started : ~r.ok => r \in Fifo(4)
    BY Zenon DEF Started, Fifo
  <2> QED
    BY <2>2, <2>3, Zenon DEF Makes
<1> QED
  BY <1>4, <1>5, <1>6, <1>7

\* The test of the timer, whose commands wait together.
Waiting(k) == {r \in GoodRuns : r.ok => /\ EnableWorks
                                        /\ Len(r.board.spi.fifo) <= 0 /\ Len(r.board.spi.queue) <= k}

\* With the port off, commands wait.
LEMMA TimerCloses ==
  ASSUME NEW M \in SUBSET BOOLEAN
  PROVE  Makes(Fifo(0), Do("Disable"), Waiting(0), M)
<1>1. ASSUME NEW r \in Fifo(0), r.ok, NEW m \in M
      PROVE  Step(r, Do("Disable"), m) \in Waiting(0)
  <2> DEFINE q == Step(r, Do("Disable"), m)
             spi == r.board.spi
  <2>1. r \in GoodRuns /\ spi.on /\ EnableWorks /\ Len(spi.fifo) <= 0
    BY <1>1, Zenon DEF Fifo
  <2>2. /\ q.board.spi = Port(spi, "Disable") /\ q.ok = r.ok
        /\ spi \in Ports /\ PortOK(spi)
        /\ PortOK(q.board.spi) => q \in GoodRuns
    <3>1. m \in BOOLEAN
      OBVIOUS
    <3> QED
      BY <2>1, <3>1, WalkCommands, CommandGood, Zenon
  <2>3. /\ PortOK(q.board.spi) /\ q.board.spi.queue = spi.queue
        /\ q.board.spi.fifo = spi.fifo
    BY <2>2, DisableGood, Zenon
  <2>4. spi.queue = <<>>
    BY <2>1, <2>2, Zenon DEF PortOK
  <2> HIDE DEF q
  <2>5. Len(q.board.spi.queue) <= 0
    BY <2>3, <2>4
  <2> QED
    BY <2>1, <2>2, <2>3, <2>5, Zenon DEF Waiting, q
<1>2. \A r \in Fifo(0) : ~r.ok => r \in Waiting(0)
  BY Zenon DEF Fifo, Waiting
<1> QED
  BY <1>1, <1>2, Zenon DEF Makes

\* One more command waits.
LEMMA TimerWaits ==
  ASSUME NEW M \in SUBSET BOOLEAN, NEW k \in Nat, k <= 3, NEW c \in Waits
  PROVE  Makes(Waiting(k), Do(c), Waiting(k + 1), M)
<1>1. ASSUME NEW r \in Waiting(k), r.ok, NEW m \in M
      PROVE  Step(r, Do(c), m) \in Waiting(k + 1)
  <2> DEFINE q == Step(r, Do(c), m)
             spi == r.board.spi
  <2>1. r \in GoodRuns /\ EnableWorks /\ Len(spi.fifo) <= 0 /\ Len(spi.queue) <= k
    BY <1>1, Zenon DEF Waiting
  <2>2. /\ q.board.spi = Port(spi, c) /\ q.ok = r.ok
        /\ spi \in Ports /\ PortOK(spi)
        /\ PortOK(q.board.spi) => q \in GoodRuns
    <3>1. m \in BOOLEAN /\ c \in PortCommands
      BY WalkCommands
    <3> QED
      BY <2>1, <3>1, CommandGood, Zenon
  <2> DEFINE x == Len(spi.queue)  y == Len(q.board.spi.queue)
  <2>3. x \in Nat
    <3>1. spi.queue \in Seq(Waits)
      BY <2>2, Zenon DEF PortOK
    <3> QED
      BY <3>1
  <2>4. x <= k
    BY <2>1
  <2> HIDE DEF x
  <2>5. x <= 3
    BY <2>3, <2>4
  <2>6. Waited(spi, q.board.spi)
    BY <2>2, <2>5, WaitGood, Zenon DEF x
  <2>7. y \in Nat /\ y <= x + 1
    BY <2>6, Zenon DEF Waited, x
  <2> HIDE DEF y
  <2>8. y <= k + 1
    BY <2>3, <2>4, <2>7
  <2>9. PortOK(q.board.spi) /\ Len(q.board.spi.fifo) <= 0
    BY <2>1, <2>6, Zenon DEF Waited
  <2>10. q \in GoodRuns /\ Len(q.board.spi.queue) <= k + 1
    BY <2>2, <2>8, <2>9, Zenon DEF y
  <2> HIDE DEF q
  <2> QED
    BY <2>1, <2>9, <2>10, Zenon DEF Waiting, q
<1>2. \A r \in Waiting(k) : ~r.ok => r \in Waiting(k + 1)
  BY Zenon DEF Waiting
<1> QED
  BY <1>1, <1>2, Zenon DEF Makes

\* And is done when the port is on again.
LEMMA TimerOpens ==
  ASSUME NEW M \in SUBSET BOOLEAN
  PROVE  Makes(Waiting(3), Do("Enable"), Fifo(0), M)
<1>1. ASSUME NEW r \in Waiting(3), r.ok, NEW m \in M
      PROVE  Step(r, Do("Enable"), m) \in Fifo(0)
  <2> DEFINE q == Step(r, Do("Enable"), m)
             spi == r.board.spi
  <2>1. r \in GoodRuns /\ EnableWorks /\ Len(spi.fifo) <= 0
    BY <1>1, Zenon DEF Waiting
  <2>2. /\ q.board.spi = Port(spi, "Enable") /\ q.ok = r.ok
        /\ spi \in Ports /\ PortOK(spi)
        /\ PortOK(q.board.spi) => q \in GoodRuns
    <3>1. m \in BOOLEAN
      OBVIOUS
    <3> QED
      BY <2>1, <3>1, WalkCommands, CommandGood, Zenon
  <2>3. Enabled(spi, q.board.spi)
    BY <2>2, EnableGood, Zenon
  <2> HIDE DEF q
  <2>4. q \in GoodRuns /\ q.board.spi.on /\ Len(q.board.spi.fifo) <= 0
    BY <2>1, <2>2, <2>3, Zenon DEF Enabled
  <2> QED
    BY <2>1, <2>4, Zenon DEF Fifo, q
<1>2. \A r \in Waiting(3) : ~r.ok => r \in Fifo(0)
  BY Zenon DEF Fifo, Waiting
<1> QED
  BY <1>1, <1>2, Zenon DEF Makes

\* Steps that are commands or looks which leave the words in the FIFO alone.
LEMMA QuietCommands ==
  /\ \A c \in {"NoOp", "AddrHi", "AddrLo", "Erase", "Write D3B", "Timer reset", "Timer start",
               "Timer stop", "Read register", "Read volatile", "Write volatile 0B",
               "Write volatile FB", "Select 0", "Select 1", "Lock", "Unlock",
               "Lock volatile", "Unlock volatile"} : Do(c) \in QuietSteps
  /\ \A file \in Files : Do(file) \in QuietSteps
  /\ Do("Reset FSM") \in QuietSteps /\ Do("Load") \in QuietSteps /\ Do("Save") \in QuietSteps
  /\ Do("Soft reset") \in QuietSteps /\ Do("Originals") \in QuietSteps /\ Keep \in QuietSteps
  /\ \A reg \in CfgRegs, v \in CfgValues : SetReg(reg, v) \in QuietSteps
  /\ \A w \in Looks, v \in Views : See(w, v) \in QuietSteps
<1>1. ASSUME NEW c \in {"NoOp", "AddrHi", "AddrLo", "Erase", "Write D3B", "Timer reset", "Timer start",
               "Timer stop", "Read register", "Read volatile", "Write volatile 0B",
               "Write volatile FB", "Select 0", "Select 1", "Lock", "Unlock",
               "Lock volatile", "Unlock volatile"}
      PROVE  c \in Quiet
  <2>1. c \in Queued
    BY Zenon DEF Queued, Commands
  <2>2. c \notin {"Read", "Read ID", "Read lock", "Read volatile lock"}
    BY Zenon
  <2> QED
    BY <2>1, <2>2, Zenon DEF Quiet
<1>2. ASSUME NEW file \in Files PROVE file \in Quiet
  <2>1. file \notin {"Read", "Read ID", "Read lock", "Read volatile lock"}
    BY PromAssumption, Zenon
  <2> QED
    BY <2>1, Zenon DEF Quiet, Queued
<1>3. \A c \in Quiet : Do(c) \in QuietSteps
  BY Zenon DEF QuietSteps
<1>4. ASSUME NEW reg \in CfgRegs, NEW v \in CfgValues PROVE SetReg(reg, v) \in QuietSteps
  <2>1. SetReg(reg, v) \in SetSteps
    BY DEF SetSteps
  <2> QED
    BY <2>1, Zenon DEF QuietSteps
<1>5. ASSUME NEW w \in Looks, NEW v \in Views PROVE See(w, v) \in QuietSteps
  <2>1. See(w, v) \in LookSteps
    BY DEF LookSteps
  <2> QED
    BY <2>1, Zenon DEF QuietSteps
<1>6. /\ Do("Reset FSM") \in QuietSteps /\ Do("Load") \in QuietSteps /\ Do("Save") \in QuietSteps
      /\ Do("Soft reset") \in QuietSteps /\ Do("Originals") \in QuietSteps /\ Keep \in QuietSteps
  BY Zenon DEF QuietSteps
<1> QED
  BY <1>1, <1>2, <1>3, <1>4, <1>5, <1>6, Zenon

\* Looks add no words.
LEMMA QuietLooks ==
  /\ See("on", "yes") \in QuietSteps /\ See("words", "none") \in QuietSteps
  /\ See("words", "one") \in QuietSteps /\ See("words", "ID") \in QuietSteps
  /\ See("full", "yes") \in QuietSteps
  /\ See("LSB", "zero") \in QuietSteps /\ See("MSB", "zero") \in QuietSteps
  /\ See("LSB", "some") \in QuietSteps /\ See("MSB", "some") \in QuietSteps
  /\ See("stopped", "yes") \in QuietSteps /\ See("uids", "two") \in QuietSteps
  /\ See("register", "default") \in QuietSteps /\ See("register", "FB") \in QuietSteps
  /\ See("register", "0B") \in QuietSteps
  /\ \A reg \in CfgRegs, v \in CfgValues : See(reg, v) \in QuietSteps
<1>1. \A w \in Looks, v \in Views : See(w, v) \in QuietSteps
  BY QuietCommands, Zenon
<1>2. /\ {"on", "words", "full", "word", "LSB", "MSB", "stopped", "register", "uids"} \subseteq Looks
      /\ CfgRegs \subseteq Looks
  BY Zenon DEF Looks
<1>3. /\ {"yes", "no", "none", "one", "ID", "zero", "some", "default", "FB", "0B", "two"} \subseteq Views
      /\ CfgValues \subseteq Views
  BY Zenon DEF Views
<1> HIDE DEF Looks, Views, CfgRegs, CfgValues
<1>4. /\ "on" \in Looks /\ "words" \in Looks /\ "full" \in Looks
      /\ "LSB" \in Looks /\ "MSB" \in Looks /\ "stopped" \in Looks /\ "register" \in Looks
      /\ "uids" \in Looks
  BY <1>2, Zenon
<1>5. /\ "yes" \in Views /\ "none" \in Views /\ "one" \in Views
      /\ "ID" \in Views /\ "zero" \in Views /\ "some" \in Views /\ "default" \in Views
      /\ "FB" \in Views /\ "0B" \in Views /\ "two" \in Views
  BY <1>3, Zenon
<1>6. \A w \in CfgRegs : w \in Looks
  BY <1>2, Zenon
<1>7. \A v \in CfgValues : v \in Views
  BY <1>3, Zenon
<1> QED
  BY <1>1, <1>4, <1>5, <1>6, <1>7, Zenon

\* Sequences of steps, one after the other.
Goes(P, s, Q, M) == s \in Seq(AllSteps) /\ Leads(P, s, Q, M)

\* What goes to N_, and on from there to Q, goes to Q.
LEMMA GoesOn ==
  ASSUME NEW P, NEW N_, NEW Q, NEW M, NEW s, NEW t, Goes(P, s, N_, M), Goes(N_, t, Q, M)
  PROVE  Goes(P, s \o t, Q, M)
<1>1. s \in Seq(AllSteps) /\ t \in Seq(AllSteps) /\ Leads(P, s, N_, M) /\ Leads(N_, t, Q, M)
  BY Zenon DEF Goes
<1>2. s \o t \in Seq(AllSteps)
  BY <1>1, Joined, Zenon
<1>3. Leads(P, s \o t, Q, M)
  BY <1>1, LeadsThen, Zenon
<1> QED
  BY <1>2, <1>3, Zenon DEF Goes

\* A part of SPIcheck that adds no words keeps their limit.
LEMMA QuietGoes ==
  ASSUME NEW n \in Nat, n <= 4, NEW M \in SUBSET BOOLEAN, NEW s \in Seq(AllSteps), s \in Seq(QuietSteps)
  PROVE  Goes(Fifo(n), s, Fifo(n), M)
<1>1. \A x \in QuietSteps : Makes(Fifo(n), x, Fifo(n), M)
  BY FifoKeeps, Zenon
<1>2. Fifo(n) \in SUBSET RunStates
  BY WalkSets, Zenon
<1>3. Leads(Fifo(n), s, Fifo(n), M)
  BY <1>1, <1>2, LeadsKeep, Zenon
<1> QED
  BY <1>3, Zenon DEF Goes

\* Such steps are steps of a run.
LEMMA PlainGoes == \A s \in Seq(PlainSteps) : s \in Seq(AllSteps)
  BY StepSets, SeqMonotonic, Zenon

\* Setting the address adds no words.
LEMMA AddressGoes ==
  ASSUME NEW n \in Nat, n <= 4, NEW M \in SUBSET BOOLEAN
  PROVE  Goes(Fifo(n), Address, Fifo(n), M)
<1>1. Do("AddrHi") \in PlainSteps /\ Do("AddrLo") \in PlainSteps
  BY PlainCommands, Zenon
<1>2. Do("AddrHi") \in QuietSteps /\ Do("AddrLo") \in QuietSteps
  BY QuietCommands, Zenon
<1>3. Address \in Seq(PlainSteps) /\ Address \in Seq(QuietSteps)
  BY <1>1, <1>2, ShortSequences, Zenon DEF Address
<1> QED
  BY <1>3, PlainGoes, QuietGoes, Zenon

\* Reading a word or four, and taking them.
LEMMA WordsGo ==
  ASSUME NEW M \in SUBSET BOOLEAN
  PROVE  /\ Makes(Fifo(0), Do("Read"), Fifo(1), M)
         /\ Makes(Fifo(0), Do("Read lock"), Fifo(1), M)
         /\ Makes(Fifo(0), Do("Read volatile lock"), Fifo(1), M)
         /\ Makes(Fifo(0), Do("Read ID"), Fifo(4), M)
         /\ \A v : /\ Makes(Fifo(1), See("word", v), Fifo(0), M)
                   /\ Makes(Fifo(2), See("word", v), Fifo(1), M)
                   /\ Makes(Fifo(3), See("word", v), Fifo(2), M)
                   /\ Makes(Fifo(4), See("word", v), Fifo(3), M)
         /\ Makes(Fifo(1), Keep, Fifo(0), M)
<1>1. /\ "Read" \in Queued /\ "Read lock" \in Queued /\ "Read volatile lock" \in Queued
      /\ "Read ID" \in Queued
  BY Zenon DEF Queued, Commands
<1>2. Pushes("Read") = 1 /\ Pushes("Read lock") = 1 /\ Pushes("Read volatile lock") = 1
  BY Zenon DEF Pushes
<1>3. Pushes("Read ID") = 4
  BY Zenon DEF Pushes
<1>4. /\ 0 \in Nat /\ 1 \in Nat /\ 2 \in Nat /\ 3 \in Nat /\ 4 \in Nat
      /\ 0 <= 4 /\ 1 <= 4 /\ 2 <= 4 /\ 3 <= 4 /\ 4 <= 4
      /\ 0 + 1 <= 1 /\ 0 + 4 <= 4
      /\ 1 <= 0 + 1 /\ 2 <= 1 + 1 /\ 3 <= 2 + 1 /\ 4 <= 3 + 1
  OBVIOUS
<1>5. /\ Makes(Fifo(0), Do("Read"), Fifo(1), M)
      /\ Makes(Fifo(0), Do("Read lock"), Fifo(1), M)
      /\ Makes(Fifo(0), Do("Read volatile lock"), Fifo(1), M)
  BY <1>1, <1>2, <1>4, FifoPushes, Zenon
<1>6. Makes(Fifo(0), Do("Read ID"), Fifo(4), M)
  BY <1>1, <1>3, <1>4, FifoPushes, Zenon
<1>7. ASSUME NEW v
      PROVE  /\ Makes(Fifo(1), See("word", v), Fifo(0), M)
             /\ Makes(Fifo(2), See("word", v), Fifo(1), M)
             /\ Makes(Fifo(3), See("word", v), Fifo(2), M)
             /\ Makes(Fifo(4), See("word", v), Fifo(3), M)
  <2> DEFINE s == See("word", v)
  <2>1. \E w : s = See("word", w)
    OBVIOUS
  <2> HIDE DEF s
  <2>2. /\ Makes(Fifo(1), s, Fifo(0), M) /\ Makes(Fifo(2), s, Fifo(1), M)
        /\ Makes(Fifo(3), s, Fifo(2), M) /\ Makes(Fifo(4), s, Fifo(3), M)
    BY <1>4, <2>1, FifoTakes, Zenon
  <2> QED
    BY <2>2 DEF s
<1>8. Makes(Fifo(1), Keep, Fifo(0), M)
  BY <1>4, FifoTakes, Zenon
<1> QED
  BY <1>5, <1>6, <1>7, <1>8, Zenon

\* The parts of Basics.
Switching ==
  <<Do("Enable"), See("on", "yes"), Do("NoOp"), See("on", "yes"),
    Do("Disable"), Do("NoOp"), See("on", "no"), Do("Enable"), See("on", "yes")>>
Storing == <<Do("Erase"), Do("Write D3B"), See("words", "none")>>
Resetting == <<Do("AddrHi"), Do("Reset FSM")>>
Recalling == <<Do("Read"), See("words", "one"), See("full", "yes"), See("word", "D3B")>>

\* The basic commands, part by part.
LEMMA BasicsParts ==
  ASSUME NEW M \in SUBSET BOOLEAN
  PROVE  /\ Goes(GoodRuns, Switching, Fifo(4), M) /\ Goes(Fifo(4), Address \o Storing, Fifo(0), M)
         /\ Goes(Fifo(0), Resetting \o Address, Fifo(0), M) /\ Goes(Fifo(0), Recalling, Fifo(0), M)
         /\ Basics = Switching \o (Address \o Storing) \o (Resetting \o Address) \o Recalling
<1>0. /\ 0 \in Nat /\ 1 \in Nat /\ 4 \in Nat /\ 0 <= 4 /\ 1 <= 4 /\ 4 <= 4
  OBVIOUS
<1> HIDE DEF PlainSteps, Do, See, Keep, QuietSteps
<1>1. Goes(GoodRuns, Switching, Fifo(4), M)
  <2>1. Switching \in Seq(PlainSteps)
    BY PlainCommands, PlainLooks, NineLong, Zenon DEF Switching
  <2>2. Leads(GoodRuns, Switching, Fifo(4), M)
    BY WalkSets, EnableMakes, LookMakes, WaitMakes, DisableMakes, NineStepsLead, Zenon DEF Switching
  <2> QED
    BY <2>1, <2>2, PlainGoes, Zenon DEF Goes
<1>2. Goes(Fifo(4), Storing, Fifo(0), M)
  <2>1. Storing \in Seq(PlainSteps)
    BY PlainCommands, PlainLooks, ShortSequences, Zenon DEF Storing
  <2>2. /\ Makes(Fifo(4), Do("Erase"), Fifo(4), M) /\ Makes(Fifo(4), Do("Write D3B"), Fifo(4), M)
    BY <1>0, QuietCommands, FifoKeeps, Zenon
  <2>3. Makes(Fifo(4), See("words", "none"), Fifo(0), M)
    BY <1>0, FifoSeen, Zenon
  <2>4. Leads(Fifo(4), Storing, Fifo(0), M)
    BY <2>2, <2>3, WalkSets, ThreeStepsLead, Zenon DEF Storing
  <2> QED
    BY <2>1, <2>4, PlainGoes, Zenon DEF Goes
<1>3. Goes(Fifo(0), Resetting, Fifo(0), M)
  <2>1. Resetting \in Seq(PlainSteps)
    BY PlainCommands, ShortSequences, Zenon DEF Resetting
  <2>2. Resetting \in Seq(QuietSteps)
    BY QuietCommands, ShortSequences, Zenon DEF Resetting
  <2> QED
    BY <1>0, <2>1, <2>2, PlainGoes, QuietGoes, Zenon
<1>4. Goes(Fifo(0), Recalling, Fifo(0), M)
  <2>1. See("word", "D3B") \in PlainSteps
    BY PlainLooks, Zenon DEF SpiWords, Contents
  <2>2. Recalling \in Seq(PlainSteps)
    BY <2>1, PlainCommands, PlainLooks, ShortSequences, Zenon DEF Recalling
  <2>3. /\ Makes(Fifo(1), See("words", "one"), Fifo(1), M)
        /\ Makes(Fifo(1), See("full", "yes"), Fifo(1), M)
    BY <1>0, QuietLooks, FifoKeeps, Zenon
  <2>4. Makes(Fifo(0), Do("Read"), Fifo(1), M) /\ Makes(Fifo(1), See("word", "D3B"), Fifo(0), M)
    BY WordsGo, Zenon
  <2>5. Leads(Fifo(0), Recalling, Fifo(0), M)
    BY <2>3, <2>4, WalkSets, FourStepsLead, Zenon DEF Recalling
  <2> QED
    BY <2>2, <2>5, PlainGoes, Zenon DEF Goes
<1>5. Goes(Fifo(4), Address, Fifo(4), M) /\ Goes(Fifo(0), Address, Fifo(0), M)
  BY <1>0, AddressGoes, Zenon
<1>6. Basics = Switching \o (Address \o Storing) \o (Resetting \o Address) \o Recalling
  <2>1. Basics = Switching \o Address \o Storing \o Resetting \o Address \o Recalling
    BY Zenon DEF Basics, Switching, Storing, Resetting, Recalling
  <2>2. /\ Switching \in Seq(AllSteps) /\ Address \in Seq(AllSteps) /\ Storing \in Seq(AllSteps)
        /\ Resetting \in Seq(AllSteps) /\ Recalling \in Seq(AllSteps)
    BY <1>1, <1>2, <1>3, <1>4, <1>5, Zenon DEF Goes
  <2> HIDE DEF Address, AllSteps
  <2>3. Switching \o Address \o Storing \o Resetting \o Address \o Recalling
        = Switching \o (Address \o Storing) \o (Resetting \o Address) \o Recalling
    BY <2>2
  <2> QED
    BY <2>1, <2>3, Zenon
<1> HIDE DEF Address
<1>7. Goes(Fifo(4), Address \o Storing, Fifo(0), M) /\ Goes(Fifo(0), Resetting \o Address, Fifo(0), M)
  BY <1>2, <1>3, <1>5, GoesOn, Zenon
<1> QED
  BY <1>1, <1>4, <1>6, <1>7, Zenon

\* They leave no words in the FIFO.
LEMMA BasicsGoes ==
  ASSUME NEW M \in SUBSET BOOLEAN
  PROVE  Goes(GoodRuns, Basics, Fifo(0), M)
<1>1. Goes(GoodRuns, Switching \o (Address \o Storing), Fifo(0), M)
  BY BasicsParts, GoesOn, Zenon
<1>2. Goes(GoodRuns, Switching \o (Address \o Storing) \o (Resetting \o Address), Fifo(0), M)
  BY <1>1, BasicsParts, GoesOn, Zenon
<1>3. Goes(GoodRuns, Switching \o (Address \o Storing) \o (Resetting \o Address) \o Recalling, Fifo(0), M)
  BY <1>2, BasicsParts, GoesOn, Zenon
<1> QED
  BY <1>3, BasicsParts, Zenon

\* Nor does the test of the timer.
LEMMA TimerGoes ==
  ASSUME NEW M \in SUBSET BOOLEAN
  PROVE  Goes(Fifo(0), Timer, Fifo(0), M)
<1>0. /\ 0 \in Nat /\ 1 \in Nat /\ 2 \in Nat /\ 3 \in Nat /\ 0 <= 4 /\ 0 <= 3 /\ 1 <= 3 /\ 2 <= 3
      /\ 0 + 1 = 1 /\ 1 + 1 = 2 /\ 2 + 1 = 3
  OBVIOUS
<1> HIDE DEF PlainSteps, Do, See, Keep, QuietSteps
<1> DEFINE s1 == <<Do("Timer reset"), See("LSB", "zero"), See("MSB", "zero")>>
           s2 == <<Do("Disable"), Do("Timer start"), Do("Erase"), Do("Timer stop"), Do("Enable"),
                   See("LSB", "some"), See("stopped", "yes"), See("MSB", "some")>>
<1>1. Goes(Fifo(0), s1, Fifo(0), M)
  <2>1. s1 \in Seq(PlainSteps)
    BY PlainCommands, PlainLooks, ShortSequences, Zenon
  <2>2. s1 \in Seq(QuietSteps)
    BY QuietCommands, QuietLooks, ShortSequences, Zenon
  <2> QED
    BY <1>0, <2>1, <2>2, PlainGoes, QuietGoes, Zenon
<1>2. Goes(Fifo(0), s2, Fifo(0), M)
  <2>1. s2 \in Seq(PlainSteps)
    BY PlainCommands, PlainLooks, EightLong, Zenon
  <2>2. "Timer start" \in Waits /\ "Erase" \in Waits /\ "Timer stop" \in Waits
    BY Zenon DEF Waits
  <2>3. /\ Makes(Waiting(0), Do("Timer start"), Waiting(0 + 1), M)
        /\ Makes(Waiting(1), Do("Erase"), Waiting(1 + 1), M)
        /\ Makes(Waiting(2), Do("Timer stop"), Waiting(2 + 1), M)
    BY <1>0, <2>2, TimerWaits, Zenon
  <2>4. /\ Makes(Waiting(0), Do("Timer start"), Waiting(1), M)
        /\ Makes(Waiting(1), Do("Erase"), Waiting(2), M)
        /\ Makes(Waiting(2), Do("Timer stop"), Waiting(3), M)
    BY <1>0, <2>3, Zenon
  <2>5. /\ Makes(Fifo(0), See("LSB", "some"), Fifo(0), M)
        /\ Makes(Fifo(0), See("stopped", "yes"), Fifo(0), M)
        /\ Makes(Fifo(0), See("MSB", "some"), Fifo(0), M)
    BY <1>0, QuietLooks, FifoKeeps, Zenon
  <2>6. /\ Waiting(0) \in SUBSET RunStates /\ Waiting(1) \in SUBSET RunStates
        /\ Waiting(2) \in SUBSET RunStates /\ Waiting(3) \in SUBSET RunStates
    BY DEF Waiting, GoodRuns
  <2>7. Leads(Fifo(0), s2, Fifo(0), M)
    BY <2>4, <2>5, <2>6, WalkSets, TimerCloses, TimerOpens, EightStepsLead, Zenon
  <2> QED
    BY <2>1, <2>7, PlainGoes, Zenon DEF Goes
<1>3. Goes(Fifo(0), Address, Fifo(0), M)
  BY <1>0, AddressGoes, Zenon
<1>4. Timer = s1 \o Address \o s2
  BY Zenon DEF Timer
<1> HIDE DEF s1, s2, Address
<1> QED
  BY <1>1, <1>2, <1>3, <1>4, GoesOn, Zenon

\* Nor do the registers.
LEMMA RegistersGoes ==
  ASSUME NEW M \in SUBSET BOOLEAN
  PROVE  Goes(Fifo(0), Registers, Fifo(0), M)
<1>0. 0 \in Nat /\ 0 <= 4
  OBVIOUS
<1>1. Registers \in Seq(AllSteps)
  <2>1. Registers \in Seq(PlainSteps)
    <3> HIDE DEF PlainSteps, Do, See, Keep
    <3> QED
      BY PlainCommands, PlainLooks, TenLong, Zenon DEF Registers
  <2> QED
    BY <2>1, PlainGoes, Zenon
<1> HIDE DEF Do, See, Keep, QuietSteps
<1>2. Registers \in Seq(QuietSteps)
  BY QuietCommands, QuietLooks, TenLong, Zenon DEF Registers
<1> QED
  BY <1>0, <1>1, <1>2, QuietGoes, Zenon

\* Nor do the IDs: what is read is taken.
LEMMA ReadIDGoes ==
  ASSUME NEW M \in SUBSET BOOLEAN
  PROVE  Goes(Fifo(0), ReadID, Fifo(0), M)
<1>0. 4 \in Nat /\ 4 <= 4
  OBVIOUS
<1> HIDE DEF PlainSteps, Do, See, Keep, QuietSteps
<1>1. ReadID \in Seq(PlainSteps)
  <2>1. See("word", "20BB") \in PlainSteps /\ See("word", "1810") \in PlainSteps /\ See("word", "other") \in PlainSteps
    BY PlainLooks, Zenon DEF SpiWords
  <2> QED
    BY <2>1, PlainCommands, PlainLooks, SixLong, Zenon DEF ReadID
<1>2. Makes(Fifo(4), See("words", "ID"), Fifo(4), M)
  BY <1>0, QuietLooks, FifoKeeps, Zenon
<1>3. /\ Makes(Fifo(0), Do("Read ID"), Fifo(4), M)
      /\ Makes(Fifo(4), See("word", "20BB"), Fifo(3), M)
      /\ Makes(Fifo(3), See("word", "1810"), Fifo(2), M)
      /\ Makes(Fifo(2), See("word", "other"), Fifo(1), M)
      /\ Makes(Fifo(1), Keep, Fifo(0), M)
  BY WordsGo, Zenon
<1>4. Leads(Fifo(0), ReadID, Fifo(0), M)
  BY <1>2, <1>3, WalkSets, SixStepsLead, Zenon DEF ReadID
<1> QED
  BY <1>1, <1>4, PlainGoes, Zenon DEF Goes

\* Nor do the locks.
LEMMA LocksGoes ==
  ASSUME NEW M \in SUBSET BOOLEAN
  PROVE  Goes(Fifo(0), Locks, Fifo(0), M)
<1>0. 0 \in Nat /\ 0 <= 4
  OBVIOUS
<1> HIDE DEF PlainSteps, Do, See, Keep, QuietSteps
<1> DEFINE s1 == <<Do("Lock"), Do("Read lock"), See("word", "0")>>
           s2 == <<Do("Unlock"), Do("Read lock"), See("word", "1"), Do("Lock volatile"),
                   Do("Read volatile lock"), See("word", "1"), Do("Unlock volatile"),
                   Do("Read volatile lock"), See("word", "0")>>
<1>1. See("word", "0") \in PlainSteps /\ See("word", "1") \in PlainSteps
  BY PlainLooks, Zenon DEF SpiWords
<1>2. /\ Makes(Fifo(0), Do("Lock"), Fifo(0), M) /\ Makes(Fifo(0), Do("Unlock"), Fifo(0), M)
      /\ Makes(Fifo(0), Do("Lock volatile"), Fifo(0), M)
      /\ Makes(Fifo(0), Do("Unlock volatile"), Fifo(0), M)
  BY <1>0, QuietCommands, FifoKeeps, Zenon
<1>3. /\ Makes(Fifo(0), Do("Read lock"), Fifo(1), M)
      /\ Makes(Fifo(0), Do("Read volatile lock"), Fifo(1), M)
      /\ Makes(Fifo(1), See("word", "0"), Fifo(0), M)
      /\ Makes(Fifo(1), See("word", "1"), Fifo(0), M)
  BY WordsGo, Zenon
<1>4. Goes(Fifo(0), s1, Fifo(0), M)
  <2>1. s1 \in Seq(PlainSteps)
    BY <1>1, PlainCommands, ShortSequences, Zenon
  <2>2. Leads(Fifo(0), s1, Fifo(0), M)
    BY <1>2, <1>3, WalkSets, ThreeStepsLead, Zenon
  <2> QED
    BY <2>1, <2>2, PlainGoes, Zenon DEF Goes
<1>5. Goes(Fifo(0), s2, Fifo(0), M)
  <2>1. s2 \in Seq(PlainSteps)
    BY <1>1, PlainCommands, NineLong, Zenon
  <2>2. Leads(Fifo(0), s2, Fifo(0), M)
    BY <1>2, <1>3, WalkSets, NineStepsLead, Zenon
  <2> QED
    BY <2>1, <2>2, PlainGoes, Zenon DEF Goes
<1>6. Goes(Fifo(0), Address, Fifo(0), M)
  BY <1>0, AddressGoes, Zenon
<1>7. Locks = Address \o s1 \o Address \o s2
  BY Zenon DEF Locks
<1> HIDE DEF s1, s2, Address
<1> QED
  BY <1>4, <1>5, <1>6, <1>7, GoesOn, Zenon

\* Nor do the pages.
LEMMA PagesGoes ==
  ASSUME NEW M \in SUBSET BOOLEAN, NEW file \in Files
  PROVE  Goes(Fifo(0), Pages(file), Fifo(0), M)
<1>0. 0 \in Nat /\ 0 <= 4
  OBVIOUS
<1> HIDE DEF PlainSteps, Do, See, Keep, QuietSteps
<1> DEFINE s1 == <<Do(file)>>
           s2 == <<Do("Read"), See("word", file)>>
<1>1. Goes(Fifo(0), s1, Fifo(0), M)
  <2>1. s1 \in Seq(PlainSteps)
    BY PlainCommands, OneWord, Zenon
  <2>2. s1 \in Seq(QuietSteps)
    BY QuietCommands, OneWord, Zenon
  <2> QED
    BY <1>0, <2>1, <2>2, PlainGoes, QuietGoes, Zenon
<1>2. Goes(Fifo(0), s2, Fifo(0), M)
  <2>1. s2 \in Seq(PlainSteps)
    BY PlainCommands, PlainLooks, ShortSequences, Zenon
  <2>2. /\ Makes(Fifo(0), Do("Read"), Fifo(1), M) /\ Makes(Fifo(1), See("word", file), Fifo(0), M)
    BY WordsGo, Zenon
  <2>3. Leads(Fifo(0), s2, Fifo(0), M)
    BY <2>2, WalkSets, TwoStepsLead, Zenon
  <2> QED
    BY <2>1, <2>3, PlainGoes, Zenon DEF Goes
<1>3. Goes(Fifo(0), Address, Fifo(0), M)
  BY <1>0, AddressGoes, Zenon
<1>4. Pages(file) = Address \o s1 \o Address \o s2
  BY Zenon DEF Pages
<1> HIDE DEF s1, s2, Address
<1> QED
  BY <1>1, <1>2, <1>3, <1>4, GoesOn, Zenon

\* The configuration registers need no port.
LEMMA ConfigGoes ==
  ASSUME NEW M \in SUBSET BOOLEAN
  PROVE  Goes(Fifo(0), Config, Fifo(0), M)
<1>0. 0 \in Nat /\ 0 <= 4
  OBVIOUS
<1>1. Taking \in Seq(AllSteps) /\ Taking \in Seq(QuietSteps)
  <2>1. Do("Select 0") \in QuietSteps /\ Do("Load") \in QuietSteps /\ Do("Originals") \in QuietSteps
    BY QuietCommands, Zenon
  <2>2. Taking \in Seq(AllSteps)
    BY StepSets, PlainCommands, ShortSequences, Zenon DEF Taking
  <2> QED
    BY <2>1, <2>2, ShortSequences, Zenon DEF Taking
<1>2. ASSUME NEW v \in {"test", "test - 1"}
      PROVE  /\ Goes(Fifo(0), SetAndSee(v), Fifo(0), M) /\ Goes(Fifo(0), SetAll(v), Fifo(0), M)
             /\ Goes(Fifo(0), SeeAll(v), Fifo(0), M)
  <2>1. "DELAYS" \in CfgRegs /\ "KILL" \in CfgRegs /\ v \in CfgValues
    BY Zenon DEF CfgRegs, CfgValues
  <2>2. /\ SetReg("DELAYS", v) \in QuietSteps /\ SetReg("KILL", v) \in QuietSteps
        /\ See("DELAYS", v) \in QuietSteps /\ See("KILL", v) \in QuietSteps
    BY <2>1, QuietCommands, QuietLooks, Zenon
  <2>3. <<SetReg("DELAYS", v), See("DELAYS", v), SetReg("KILL", v), See("KILL", v)>> \in Seq(QuietSteps)
    BY <2>2, ShortSequences, Zenon
  <2>4. /\ <<SetReg("DELAYS", v), SetReg("KILL", v)>> \in Seq(QuietSteps)
        /\ <<See("DELAYS", v), See("KILL", v)>> \in Seq(QuietSteps)
    BY <2>2, ShortSequences, Zenon
  <2>5. /\ SetAndSee(v) \in Seq(QuietSteps) /\ SetAll(v) \in Seq(QuietSteps)
        /\ SeeAll(v) \in Seq(QuietSteps)
    BY <2>3, <2>4, Zenon DEF SetAndSee, SetAll, SeeAll
  <2>6. /\ SetAndSee(v) \in Seq(AllSteps) /\ SetAll(v) \in Seq(AllSteps)
        /\ SeeAll(v) \in Seq(AllSteps)
    BY ConfigParts, StepSets, SeqMonotonic, Zenon
  <2> QED
    BY <1>0, <2>5, <2>6, QuietGoes, Zenon
<1>3. /\ Goes(Fifo(0), <<Do("Save")>>, Fifo(0), M) /\ Goes(Fifo(0), <<Do("Load")>>, Fifo(0), M)
      /\ Goes(Fifo(0), <<Do("Soft reset")>>, Fifo(0), M)
  <2>1. /\ <<Do("Save")>> \in Seq(QuietSteps) /\ <<Do("Load")>> \in Seq(QuietSteps)
        /\ <<Do("Soft reset")>> \in Seq(QuietSteps)
    BY QuietCommands, OneWord, Zenon
  <2>2. /\ <<Do("Save")>> \in Seq(AllSteps) /\ <<Do("Load")>> \in Seq(AllSteps)
        /\ <<Do("Soft reset")>> \in Seq(AllSteps)
    BY ConfigParts, StepSets, SeqMonotonic, Zenon
  <2> QED
    BY <1>0, <2>1, <2>2, QuietGoes, Zenon
<1> DEFINE a == SetAndSee("test")  b == <<Do("Save")>>  c == SetAndSee("test - 1")
           d == <<Do("Load")>>  e == SeeAll("test")  f == SetAll("test - 1")
           g == <<Do("Soft reset")>>
           L(s) == Goes(Fifo(0), s, Fifo(0), M)
<1>4. L(Taking) /\ L(a) /\ L(b) /\ L(c) /\ L(d) /\ L(e) /\ L(f) /\ L(g)
  BY <1>0, <1>1, <1>2, <1>3, QuietGoes, Zenon
<1>5. Config = Taking \o a \o b \o c \o d \o e \o f \o g \o e
  BY Zenon DEF Config, Taking
<1>6. ASSUME NEW s, NEW t, L(s), L(t) PROVE L(s \o t)
  BY <1>6, GoesOn, Zenon
<1> HIDE DEF Taking, a, b, c, d, e, f, g, L
<1>7. L(Taking \o a \o b)
  BY <1>4, <1>6, Zenon
<1>8. L(Taking \o a \o b \o c \o d)
  BY <1>4, <1>6, <1>7, Zenon
<1>9. L(Taking \o a \o b \o c \o d \o e \o f)
  BY <1>4, <1>6, <1>8, Zenon
<1>10. L(Taking \o a \o b \o c \o d \o e \o f \o g \o e)
  BY <1>4, <1>6, <1>9, Zenon
<1> QED
  BY <1>5, <1>10, Zenon DEF L

\* The port is as good after SPIcheck as before, wherever an error ends it.
LEMMA StepsGo ==
  ASSUME NEW M \in SUBSET BOOLEAN, NEW file \in Files
  PROVE  Goes(GoodRuns, Steps(file), Fifo(0), M)
<1>0. 0 \in Nat /\ 0 <= 4
  OBVIOUS
<1> DEFINE s1 == <<Do("Select 1")>>
           s2 == <<See("uids", "two"), Do("Select 1")>>
           L(s) == Goes(GoodRuns, s, Fifo(0), M)
<1>1. Goes(Fifo(0), s1, Fifo(0), M) /\ Goes(Fifo(0), s2, Fifo(0), M)
  <2>1. s1 \in Seq(PlainSteps) /\ s2 \in Seq(PlainSteps)
    BY PlainCommands, PlainLooks, ShortSequences, Zenon
  <2>2. Do("Select 1") \in QuietSteps /\ See("uids", "two") \in QuietSteps
    BY QuietCommands, QuietLooks, Zenon
  <2>3. s1 \in Seq(QuietSteps) /\ s2 \in Seq(QuietSteps)
    BY <2>2, ShortSequences, Zenon
  <2> QED
    BY <1>0, <2>1, <2>3, PlainGoes, QuietGoes, Zenon
<1>2. ASSUME NEW s, NEW t, L(s), Goes(Fifo(0), t, Fifo(0), M) PROVE L(s \o t)
  BY <1>2, GoesOn, Zenon
<1>3. L(Basics)
  BY BasicsGoes, Zenon
<1>4. /\ Goes(Fifo(0), Timer, Fifo(0), M) /\ Goes(Fifo(0), Registers, Fifo(0), M)
      /\ Goes(Fifo(0), ReadID, Fifo(0), M) /\ Goes(Fifo(0), Locks, Fifo(0), M)
      /\ Goes(Fifo(0), Pages(file), Fifo(0), M) /\ Goes(Fifo(0), Config, Fifo(0), M)
  BY TimerGoes, RegistersGoes, ReadIDGoes, LocksGoes, PagesGoes, ConfigGoes, Zenon
<1>5. Steps(file) = Basics \o Timer \o Registers \o ReadID \o s1 \o ReadID \o s2 \o Locks
                    \o Pages(file) \o Config
  BY Zenon DEF Steps
<1> HIDE DEF s1, s2, L
<1>6. L(Basics \o Timer \o Registers)
  BY <1>2, <1>3, <1>4, Zenon
<1>7. L(Basics \o Timer \o Registers \o ReadID \o s1)
  BY <1>1, <1>2, <1>4, <1>6, Zenon
<1>8. L(Basics \o Timer \o Registers \o ReadID \o s1 \o ReadID \o s2)
  BY <1>1, <1>2, <1>4, <1>7, Zenon
<1>9. L(Basics \o Timer \o Registers \o ReadID \o s1 \o ReadID \o s2 \o Locks \o Pages(file))
  BY <1>2, <1>4, <1>8, Zenon
<1>10. L(Basics \o Timer \o Registers \o ReadID \o s1 \o ReadID \o s2 \o Locks \o Pages(file) \o Config)
  BY <1>2, <1>4, <1>9, Zenon
<1> QED
  BY <1>5, <1>10, Zenon DEF L

\* Wherever a run ends, few commands wait and few words are left.
LEMMA RunPort ==
  ASSUME NEW b \in IdleBoards, PortOK(b.spi), NEW file \in Files, NEW glitch
  PROVE  Ran(b, Steps(file), glitch) \in GoodRuns
<1>1. Start(b) \in GoodRuns
  <2>1. Start(b) \in RunStates /\ Start(b).board = b
    BY StartTyped, Zenon
  <2> QED
    BY <2>1, Zenon DEF GoodRuns
<1>2. Steps(file) \in Seq(AllSteps) /\ Leads(GoodRuns, Steps(file), Fifo(0), BOOLEAN)
  BY StepsGo, Zenon DEF Goes
<1>3. \A i \in 1 .. Len(Steps(file)) : (i = glitch) \in BOOLEAN
  OBVIOUS
<1>4. Ran(b, Steps(file), glitch) \in Fifo(0)
  BY <1>1, <1>2, <1>3, RanLeads, Zenon
<1> QED
  BY <1>4, Zenon DEF Fifo

(***************************************************************************)
(* The faults of the SPI port: a command that does nothing. Some show      *)
(* in the port for ever, as no other command changes what this one would.  *)
(***************************************************************************)
HiWorks == ~Faulty("spi", "AddrHi")
EraseWorks == ~Faulty("spi", "Erase")
D3BWorks == ~Faulty("spi", "Write D3B")
PageWorks == ~Faulty("spi", "Write page")
StartWorks == ~Faulty("spi", "Timer start")
StopWorks == ~Faulty("spi", "Timer stop")
RegisterWorks == ~Faulty("spi", "Read register")
Sets0B == ~Faulty("spi", "Write volatile 0B")
SetsFB == ~Faulty("spi", "Write volatile FB")
Selects1 == ~Faulty("spi", "Select 1")
LockWorks == ~Faulty("spi", "Lock")
UnlockWorks == ~Faulty("spi", "Unlock")
LockVWorks == ~Faulty("spi", "Lock volatile")
UnlockVWorks == ~Faulty("spi", "Unlock volatile")

\* What a command can change in the port, apart from the words it pushes.
Kept(p, q) ==
  /\ q.half = p.half /\ q.addr = p.addr /\ q.sel = p.sel /\ q.timer = p.timer /\ q.runs = p.runs
  /\ q.shown = p.shown /\ q.vcfg = p.vcfg /\ q.locked = p.locked /\ q.vlocked = p.vlocked
  /\ q.rom = p.rom

TimerMoved(p, q) ==
  \/ q.timer = p.timer /\ q.runs = p.runs
  \/ q.timer = "long" /\ p.runs /\ q.runs = p.runs /\ EraseWorks
  \/ q.timer = "zero" /\ q.runs = p.runs
  \/ q.timer = "short" /\ q.runs = TRUE /\ StartWorks
  \/ q.timer = p.timer /\ q.runs = FALSE /\ StopWorks

ShownMoved(p, q) ==
  \/ q.shown = p.shown /\ q.vcfg = p.vcfg
  \/ q.shown = p.shown /\ q.vcfg = "0B" /\ Sets0B
  \/ q.shown = p.shown /\ q.vcfg = "FB" /\ SetsFB
  \/ q.shown = "default" /\ q.vcfg = p.vcfg /\ RegisterWorks
  \/ q.shown = p.vcfg /\ q.vcfg = p.vcfg

RomMoved(p, q) ==
  \A x \in 0..1 : \/ q.rom[x] = p.rom[x]
                  \/ q.rom[x] = "erased"
                  \/ D3BWorks /\ q.rom[x] = Written(p.rom[x], "D3B")
                  \/ PageWorks /\ \E f \in Files : q.rom[x] = Written(p.rom[x], f)

Moved(p, q) ==
  /\ q.half => p.half \/ HiWorks
  /\ q.addr = p.addr \/ p.half
  /\ q.sel = p.sel \/ q.sel = 0 \/ Selects1
  /\ TimerMoved(p, q) /\ ShownMoved(p, q) /\ RomMoved(p, q)
  /\ \/ q.locked = p.locked
     \/ q.locked = TRUE /\ LockWorks
     \/ q.locked = FALSE /\ UnlockWorks
  /\ \/ q.vlocked = p.vlocked
     \/ q.vlocked = TRUE /\ LockVWorks
     \/ q.vlocked = FALSE /\ UnlockVWorks

\* What changes nothing moves nothing.
LEMMA KeptMoves ==
  ASSUME NEW p, NEW q, Kept(p, q)
  PROVE  Moved(p, q)
  BY DEF Kept, Moved, TimerMoved, ShownMoved, RomMoved

\* Changes of the parts that are not stored.
LEMMA PartMoves ==
  ASSUME NEW p \in Spi
  PROVE  /\ HiWorks => Moved(p, [p EXCEPT !.half = TRUE])
         /\ \A a : p.half => Moved(p, [p EXCEPT !.half = FALSE, !.addr = a])
         /\ Moved(p, [p EXCEPT !.half = FALSE])
         /\ Moved(p, [p EXCEPT !.timer = "zero"])
         /\ StartWorks => Moved(p, [p EXCEPT !.runs = TRUE, !.timer = "short"])
         /\ StopWorks => Moved(p, [p EXCEPT !.runs = FALSE])
         /\ RegisterWorks => Moved(p, [p EXCEPT !.shown = "default"])
         /\ Moved(p, [p EXCEPT !.shown = p.vcfg])
         /\ Sets0B => Moved(p, [p EXCEPT !.vcfg = "0B"])
         /\ SetsFB => Moved(p, [p EXCEPT !.vcfg = "FB"])
         /\ Moved(p, [p EXCEPT !.sel = 0])
         /\ Selects1 => Moved(p, [p EXCEPT !.sel = 1])
         /\ LockWorks => Moved(p, [p EXCEPT !.locked = TRUE])
         /\ UnlockWorks => Moved(p, [p EXCEPT !.locked = FALSE])
         /\ LockVWorks => Moved(p, [p EXCEPT !.vlocked = TRUE])
         /\ UnlockVWorks => Moved(p, [p EXCEPT !.vlocked = FALSE])
         /\ \A w : Kept(p, Pushed(p, w)) /\ Moved(p, Pushed(p, w))
<1>1. HiWorks => Moved(p, [p EXCEPT !.half = TRUE])
  BY DEF Spi, Moved, TimerMoved, ShownMoved, RomMoved
<1>2. ASSUME NEW a, p.half PROVE Moved(p, [p EXCEPT !.half = FALSE, !.addr = a])
  BY <1>2 DEF Spi, Moved, TimerMoved, ShownMoved, RomMoved
<1>3. Moved(p, [p EXCEPT !.half = FALSE])
  BY DEF Spi, Moved, TimerMoved, ShownMoved, RomMoved
<1>4. Moved(p, [p EXCEPT !.timer = "zero"])
  BY DEF Spi, Moved, TimerMoved, ShownMoved, RomMoved
<1>5. StartWorks => Moved(p, [p EXCEPT !.runs = TRUE, !.timer = "short"])
  BY DEF Spi, Moved, TimerMoved, ShownMoved, RomMoved
<1>6. StopWorks => Moved(p, [p EXCEPT !.runs = FALSE])
  BY DEF Spi, Moved, TimerMoved, ShownMoved, RomMoved
<1>7. RegisterWorks => Moved(p, [p EXCEPT !.shown = "default"])
  BY DEF Spi, Moved, TimerMoved, ShownMoved, RomMoved
<1>8. Moved(p, [p EXCEPT !.shown = p.vcfg])
  BY DEF Spi, Moved, TimerMoved, ShownMoved, RomMoved
<1>9. Sets0B => Moved(p, [p EXCEPT !.vcfg = "0B"])
  BY DEF Spi, Moved, TimerMoved, ShownMoved, RomMoved
<1>10. SetsFB => Moved(p, [p EXCEPT !.vcfg = "FB"])
  BY DEF Spi, Moved, TimerMoved, ShownMoved, RomMoved
<1>11. Moved(p, [p EXCEPT !.sel = 0])
  BY DEF Spi, Moved, TimerMoved, ShownMoved, RomMoved
<1>12. Selects1 => Moved(p, [p EXCEPT !.sel = 1])
  BY DEF Spi, Moved, TimerMoved, ShownMoved, RomMoved
<1>13. LockWorks => Moved(p, [p EXCEPT !.locked = TRUE])
  BY DEF Spi, Moved, TimerMoved, ShownMoved, RomMoved
<1>14. UnlockWorks => Moved(p, [p EXCEPT !.locked = FALSE])
  BY DEF Spi, Moved, TimerMoved, ShownMoved, RomMoved
<1>15. LockVWorks => Moved(p, [p EXCEPT !.vlocked = TRUE])
  BY DEF Spi, Moved, TimerMoved, ShownMoved, RomMoved
<1>16. UnlockVWorks => Moved(p, [p EXCEPT !.vlocked = FALSE])
  BY DEF Spi, Moved, TimerMoved, ShownMoved, RomMoved
<1>17. ASSUME NEW w PROVE Kept(p, Pushed(p, w)) /\ Moved(p, Pushed(p, w))
  <2>1. Kept(p, Pushed(p, w))
    BY DEF Spi, Kept, Pushed
  <2> QED
    BY <2>1, KeptMoves
<1> QED
  BY <1>1, <1>2, <1>3, <1>4, <1>5, <1>6, <1>7, <1>8, <1>9, <1>10, <1>11, <1>12, <1>13, <1>14, <1>15,
     <1>16, <1>17, Zenon

\* Changes of what is stored.
LEMMA StoredMoves ==
  ASSUME NEW p \in Spi, NEW new \in Contents,
         \/ new = "erased"
         \/ D3BWorks /\ new = Written(p.rom[p.sel], "D3B")
         \/ PageWorks /\ \E f \in Files : new = Written(p.rom[p.sel], f)
  PROVE  /\ Moved(p, Stored(p, new))
         /\ EraseWorks => Moved(p, [Stored(p, new) EXCEPT !.timer = IF p.runs THEN "long" ELSE @])
         /\ Stored(p, new).half = p.half
<1> DEFINE s == Stored(p, new)
           t == IF p.runs THEN "long" ELSE s.timer
           q == [s EXCEPT !.timer = t]
<1>1. /\ s \in Spi /\ s.half = p.half /\ s.addr = p.addr /\ s.sel = p.sel /\ s.timer = p.timer
      /\ s.runs = p.runs /\ s.shown = p.shown /\ s.vcfg = p.vcfg /\ s.locked = p.locked
      /\ s.vlocked = p.vlocked
      /\ \A x \in 0..1 : s.rom[x] = p.rom[x] \/ (x = p.sel /\ s.rom[x] = new)
  <2> DEFINE m == [p.rom EXCEPT ![p.sel] = new]
             u == [p EXCEPT !.rom = m]
  <2>1. s = p \/ s = u
    BY DEF Stored
  <2>2. p.rom \in [0..1 -> Contents]
    BY DEF Spi
  <2>3. m \in [0..1 -> Contents] /\ \A x \in 0..1 : m[x] = p.rom[x] \/ (x = p.sel /\ m[x] = new)
    BY <2>2
  <2> HIDE DEF m
  <2>4. /\ u \in Spi /\ u.half = p.half /\ u.addr = p.addr /\ u.sel = p.sel /\ u.timer = p.timer
        /\ u.runs = p.runs /\ u.shown = p.shown /\ u.vcfg = p.vcfg /\ u.locked = p.locked
        /\ u.vlocked = p.vlocked /\ u.rom = m
    BY <2>3 DEF Spi
  <2> HIDE DEF u, s
  <2> QED
    BY <2>1, <2>3, <2>4
<1> HIDE DEF s
<1>2. RomMoved(p, s)
  BY <1>1 DEF RomMoved
<1>3. Moved(p, s)
  BY <1>1, <1>2 DEF Moved, TimerMoved, ShownMoved
<1>4. ASSUME EraseWorks PROVE Moved(p, q)
  <2>1. /\ q.half = p.half /\ q.addr = p.addr /\ q.sel = p.sel /\ q.timer = t
        /\ q.runs = p.runs /\ q.shown = p.shown /\ q.vcfg = p.vcfg /\ q.locked = p.locked
        /\ q.vlocked = p.vlocked /\ q.rom = s.rom
    BY <1>1 DEF Spi
  <2> HIDE DEF q
  <2>2. RomMoved(p, q)
    BY <1>2, <2>1 DEF RomMoved
  <2>3. TimerMoved(p, q)
    BY <1>1, <1>4, <2>1 DEF TimerMoved
  <2> QED
    BY <2>1, <2>2, <2>3 DEF Moved, ShownMoved
<1> QED
  BY <1>1, <1>3, <1>4 DEF s


\* Every command moves what it works on, or nothing if it is faulty.
LEMMA ObeyMoves ==
  ASSUME NEW p \in Spi, NEW c \in Queued
  PROVE  Moved(p, Obey(p, c))
<1>0. p.rom[p.sel] \in Contents /\ "erased" \in Contents /\ "D3B" \in Contents
  BY RomTyped DEF Contents
<1>a. CASE Faulty("spi", Command(c))
  <2>1. Obey(p, c) = p
    BY <1>a, DoesNothing
  <2>2. Kept(p, p)
    BY DEF Kept
  <2> QED
    BY <2>1, <2>2, KeptMoves, Zenon
<1>b. CASE ~Faulty("spi", Command(c)) /\ p.half
  <2> DEFINE a == IF c = "AddrLo" THEN "FF0000" ELSE "other"
  <2>1. Obey(p, c) = [p EXCEPT !.half = FALSE, !.addr = a]
    BY <1>b, DoesHalf
  <2>2. p.half
    BY <1>b
  <2> HIDE DEF a
  <2>3. Moved(p, [p EXCEPT !.half = FALSE, !.addr = a])
    BY <2>2, PartMoves, Zenon
  <2> QED
    BY <2>1, <2>3, Zenon DEF a
<1>c. CASE ~Faulty("spi", Command(c)) /\ ~p.half
  <2>0. (c \notin Files => ~Faulty("spi", c)) /\ (c \in Files => ~Faulty("spi", "Write page"))
    BY <1>c, CommandOf
  <2>1. CASE c = "NoOp"
    <3>1. ~Faulty("spi", "NoOp")
      BY <2>0, <2>1, PromAssumption
    <3>3. Obey(p, c) = p
      BY <1>c, <2>1, <3>1, DoesNoOp, Zenon
    <3>4. Kept(p, p)
      BY DEF Kept
    <3> QED
      BY <3>3, <3>4, KeptMoves, Zenon
  <2>2. CASE c = "AddrLo"
    <3>1. ~Faulty("spi", "AddrLo")
      BY <2>0, <2>2, PromAssumption
    <3>3. Obey(p, c) = p
      BY <1>c, <2>2, <3>1, DoesAddrLo, Zenon
    <3>4. Kept(p, p)
      BY DEF Kept
    <3> QED
      BY <3>3, <3>4, KeptMoves, Zenon
  <2>3. CASE c = "AddrHi"
    <3>1. ~Faulty("spi", "AddrHi")
      BY <2>0, <2>3, PromAssumption
    <3>2. HiWorks
      BY <3>1, Zenon DEF HiWorks
    <3> QED
      BY <1>c, <2>3, <3>1, <3>2, DoesAddrHi, PartMoves, Zenon
  <2>4. CASE c = "Erase"
    <3>1. ~Faulty("spi", "Erase")
      BY <2>0, <2>4, PromAssumption
    <3>2. EraseWorks
      BY <3>1, Zenon DEF EraseWorks
    <3>3. Moved(p, [Stored(p, "erased") EXCEPT !.timer = IF p.runs THEN "long" ELSE @])
      BY <1>0, <3>2, StoredMoves
    <3> QED
      BY <1>c, <2>4, <3>1, <3>3, DoesErase, Zenon
  <2>5. CASE c = "Write D3B"
    <3>1. ~Faulty("spi", "Write D3B")
      BY <2>0, <2>5, PromAssumption
    <3>2. D3BWorks
      BY <3>1, Zenon DEF D3BWorks
    <3> DEFINE w == Written(p.rom[p.sel], "D3B")
    <3>3. w \in Contents
      BY <1>0, RomTyped
    <3>4. Moved(p, Stored(p, w))
      BY <3>2, <3>3, StoredMoves
    <3> QED
      BY <1>c, <2>5, <3>1, <3>4, DoesWriteD3B, Zenon
  <2>6. CASE c = "Read"
    <3>1. ~Faulty("spi", "Read")
      BY <2>0, <2>6, PromAssumption
    <3> DEFINE w == <<IF p.addr = "FF0000" THEN p.rom[p.sel] ELSE "erased">>
    <3>3. Obey(p, c) = Pushed(p, w)
      BY <1>c, <2>6, <3>1, DoesRead, Zenon
    <3> HIDE DEF w
    <3>4. Moved(p, Pushed(p, w))
      BY PartMoves
    <3> QED
      BY <3>3, <3>4, Zenon
  <2>7. CASE c = "Timer reset"
    <3>1. ~Faulty("spi", "Timer reset")
      BY <2>0, <2>7, PromAssumption
    <3> QED
      BY <1>c, <2>7, <3>1, DoesTimerReset, PartMoves, Zenon
  <2>8. CASE c = "Timer start"
    <3>1. ~Faulty("spi", "Timer start")
      BY <2>0, <2>8, PromAssumption
    <3>2. StartWorks
      BY <3>1, Zenon DEF StartWorks
    <3> QED
      BY <1>c, <2>8, <3>1, <3>2, DoesTimerStart, PartMoves, Zenon
  <2>9. CASE c = "Timer stop"
    <3>1. ~Faulty("spi", "Timer stop")
      BY <2>0, <2>9, PromAssumption
    <3>2. StopWorks
      BY <3>1, Zenon DEF StopWorks
    <3> QED
      BY <1>c, <2>9, <3>1, <3>2, DoesTimerStop, PartMoves, Zenon
  <2>10. CASE c = "Read register"
    <3>1. ~Faulty("spi", "Read register")
      BY <2>0, <2>10, PromAssumption
    <3>2. RegisterWorks
      BY <3>1, Zenon DEF RegisterWorks
    <3> QED
      BY <1>c, <2>10, <3>1, <3>2, DoesReadRegister, PartMoves, Zenon
  <2>11. CASE c = "Read volatile"
    <3>1. ~Faulty("spi", "Read volatile")
      BY <2>0, <2>11, PromAssumption
    <3> QED
      BY <1>c, <2>11, <3>1, DoesReadVolatile, PartMoves, Zenon
  <2>12. CASE c = "Write volatile 0B"
    <3>1. ~Faulty("spi", "Write volatile 0B")
      BY <2>0, <2>12, PromAssumption
    <3>2. Sets0B
      BY <3>1, Zenon DEF Sets0B
    <3> QED
      BY <1>c, <2>12, <3>1, <3>2, DoesWriteVolatile0B, PartMoves, Zenon
  <2>13. CASE c = "Write volatile FB"
    <3>1. ~Faulty("spi", "Write volatile FB")
      BY <2>0, <2>13, PromAssumption
    <3>2. SetsFB
      BY <3>1, Zenon DEF SetsFB
    <3> QED
      BY <1>c, <2>13, <3>1, <3>2, DoesWriteVolatileFB, PartMoves, Zenon
  <2>14. CASE c = "Read ID"
    <3>1. ~Faulty("spi", "Read ID")
      BY <2>0, <2>14, PromAssumption
    <3> DEFINE w == <<"20BB", "1810", "other", IF p.sel = 0 THEN "uid 0" ELSE "uid 1">>
    <3>3. Obey(p, c) = Pushed(p, w)
      BY <1>c, <2>14, <3>1, DoesReadID, Zenon
    <3> HIDE DEF w
    <3>4. Moved(p, Pushed(p, w))
      BY PartMoves
    <3> QED
      BY <3>3, <3>4, Zenon
  <2>15. CASE c = "Select 0"
    <3>1. ~Faulty("spi", "Select 0")
      BY <2>0, <2>15, PromAssumption
    <3> QED
      BY <1>c, <2>15, <3>1, DoesSelect0, PartMoves, Zenon
  <2>16. CASE c = "Select 1"
    <3>1. ~Faulty("spi", "Select 1")
      BY <2>0, <2>16, PromAssumption
    <3>2. Selects1
      BY <3>1, Zenon DEF Selects1
    <3> QED
      BY <1>c, <2>16, <3>1, <3>2, DoesSelect1, PartMoves, Zenon
  <2>17. CASE c = "Lock"
    <3>1. ~Faulty("spi", "Lock")
      BY <2>0, <2>17, PromAssumption
    <3>2. LockWorks
      BY <3>1, Zenon DEF LockWorks
    <3> QED
      BY <1>c, <2>17, <3>1, <3>2, DoesLock, PartMoves, Zenon
  <2>18. CASE c = "Unlock"
    <3>1. ~Faulty("spi", "Unlock")
      BY <2>0, <2>18, PromAssumption
    <3>2. UnlockWorks
      BY <3>1, Zenon DEF UnlockWorks
    <3> QED
      BY <1>c, <2>18, <3>1, <3>2, DoesUnlock, PartMoves, Zenon
  <2>19. CASE c = "Read lock"
    <3>1. ~Faulty("spi", "Read lock")
      BY <2>0, <2>19, PromAssumption
    <3> DEFINE w == <<IF p.locked THEN "0" ELSE "1">>
    <3>3. Obey(p, c) = Pushed(p, w)
      BY <1>c, <2>19, <3>1, DoesReadLock, Zenon
    <3> HIDE DEF w
    <3>4. Moved(p, Pushed(p, w))
      BY PartMoves
    <3> QED
      BY <3>3, <3>4, Zenon
  <2>20. CASE c = "Lock volatile"
    <3>1. ~Faulty("spi", "Lock volatile")
      BY <2>0, <2>20, PromAssumption
    <3>2. LockVWorks
      BY <3>1, Zenon DEF LockVWorks
    <3> QED
      BY <1>c, <2>20, <3>1, <3>2, DoesLockVolatile, PartMoves, Zenon
  <2>21. CASE c = "Unlock volatile"
    <3>1. ~Faulty("spi", "Unlock volatile")
      BY <2>0, <2>21, PromAssumption
    <3>2. UnlockVWorks
      BY <3>1, Zenon DEF UnlockVWorks
    <3> QED
      BY <1>c, <2>21, <3>1, <3>2, DoesUnlockVolatile, PartMoves, Zenon
  <2>22. CASE c = "Read volatile lock"
    <3>1. ~Faulty("spi", "Read volatile lock")
      BY <2>0, <2>22, PromAssumption
    <3> DEFINE w == <<IF p.vlocked THEN "1" ELSE "0">>
    <3>3. Obey(p, c) = Pushed(p, w)
      BY <1>c, <2>22, <3>1, DoesReadVolatileLock, Zenon
    <3> HIDE DEF w
    <3>4. Moved(p, Pushed(p, w))
      BY PartMoves
    <3> QED
      BY <3>3, <3>4, Zenon
  <2>23. CASE c \in Files
    <3>1. PageWorks
      BY <2>0, <2>23, Zenon DEF PageWorks
    <3> DEFINE w == Written(p.rom[p.sel], c)
    <3>2. w \in Contents
      BY <2>23, CommandOf, RomTyped
    <3>3. Moved(p, Stored(p, w))
      BY <2>23, <3>1, <3>2, StoredMoves
    <3>4. Obey(p, c) = Stored(p, w)
      BY <1>c, <2>0, <2>23, DoesFile, Zenon
    <3> QED
      BY <3>3, <3>4
  <2> QED
    BY <2>1, <2>2, <2>3, <2>4, <2>5, <2>6, <2>7, <2>8, <2>9, <2>10, <2>11, <2>12,
       <2>13, <2>14, <2>15, <2>16, <2>17, <2>18, <2>19, <2>20, <2>21, <2>22, <2>23, Zenon DEF Commands, Queued
<1> QED
  BY <1>a, <1>b, <1>c

\* What a fault leaves behind, before the first run and after every step.
FaultShows(p) ==
  /\ ~HiWorks => ~p.half /\ p.addr # "FF0000"
  /\ ~EraseWorks => p.timer # "long"
  /\ ~D3BWorks => \A x \in 0..1 : p.rom[x] # "D3B"
  /\ ~PageWorks => \A x \in 0..1 : p.rom[x] \in {"erased", "D3B"}
  /\ ~StartWorks => ~p.runs /\ p.timer # "long"
  /\ ~StopWorks /\ p.timer # "zero" => p.runs
  /\ ~RegisterWorks => p.shown # "default"
  /\ ~Sets0B => p.vcfg # "0B" /\ p.shown # "0B"
  /\ ~SetsFB /\ p.shown = "0B" => p.vcfg = "0B"
  /\ ~Selects1 => p.sel = 0
  /\ ~LockWorks => ~p.locked
  /\ ~LockVWorks => ~p.vlocked

\* The traces of a fault stay.
LEMMA MovedShows ==
  ASSUME NEW p \in Spi, NEW q \in Spi, Moved(p, q), FaultShows(p)
  PROVE  FaultShows(q)
<1>1. /\ ~HiWorks => ~q.half /\ q.addr # "FF0000"
      /\ ~Selects1 => q.sel = 0
      /\ ~LockWorks => ~q.locked
      /\ ~LockVWorks => ~q.vlocked
  BY DEF Moved, FaultShows
<1>2. /\ ~EraseWorks => q.timer # "long"
      /\ ~StartWorks => ~q.runs /\ q.timer # "long"
      /\ ~StopWorks /\ q.timer # "zero" => q.runs
  BY DEF Moved, TimerMoved, FaultShows
<1>3. /\ ~RegisterWorks => q.shown # "default"
      /\ ~Sets0B => q.vcfg # "0B" /\ q.shown # "0B"
      /\ ~SetsFB /\ q.shown = "0B" => q.vcfg = "0B"
  BY DEF Moved, ShownMoved, FaultShows, Spi
<1>4. ASSUME ~D3BWorks, NEW x \in 0..1 PROVE q.rom[x] # "D3B"
  <2>1. /\ p.rom[x] # "D3B"
        /\ q.rom[x] = p.rom[x] \/ q.rom[x] = "erased" \/ \E f \in Files : q.rom[x] = Written(p.rom[x], f)
    BY <1>4 DEF Moved, RomMoved, FaultShows
  <2>2. \A f \in Files : f # "D3B"
    BY PromAssumption
  <2>3. \A f \in Files : Written(p.rom[x], f) # "D3B"
    BY <2>1, <2>2 DEF Written
  <2> QED
    BY <2>1, <2>3
<1>5. ASSUME ~PageWorks, NEW x \in 0..1 PROVE q.rom[x] \in {"erased", "D3B"}
  <2>1. /\ p.rom[x] \in {"erased", "D3B"}
        /\ q.rom[x] = p.rom[x] \/ q.rom[x] = "erased" \/ q.rom[x] = Written(p.rom[x], "D3B")
    BY <1>5 DEF Moved, RomMoved, FaultShows
  <2> QED
    BY <2>1 DEF Written
<1> QED
  BY <1>1, <1>2, <1>3, <1>4, <1>5, Zenon DEF FaultShows


(***************************************************************************)
(* States of a run by what its port looks like. An error leaves the run    *)
(* where it is.                                                            *)
(***************************************************************************)
Failed == {r \in RunStates : ~r.ok}
Holding(A) == {r \in RunStates : r.ok => r.board.spi \in A}
Showing == {r \in RunStates : FaultShows(r.board.spi)}

\* Sets of states of a run.
LEMMA HoldingSets ==
  /\ Failed \in SUBSET RunStates /\ Showing \in SUBSET RunStates
  /\ \A A : Holding(A) \in SUBSET RunStates
  BY DEF Failed, Showing, Holding

\* Once an error is found it stays found.
LEMMA FailedStays ==
  ASSUME NEW s, NEW M
  PROVE  Makes(Failed, s, Failed, M)
  BY Zenon DEF Makes, Failed

\* A failed run stays failed.
LEMMA FailedGoes ==
  ASSUME NEW s \in Seq(AllSteps), NEW M
  PROVE  Goes(Failed, s, Failed, M)
<1>1. \A x \in AllSteps : Makes(Failed, x, Failed, M)
  BY FailedStays
<1>2. Leads(Failed, s, Failed, M)
  BY <1>1, HoldingSets, LeadsKeep
<1> QED
  BY <1>2, Zenon DEF Goes

\* A command, a look at the port and a look at a word, by what they make
\* of the port.
LEMMA CommandMakes ==
  ASSUME NEW A, NEW B, NEW c \in PortCommands, NEW M \in SUBSET BOOLEAN,
         \A p \in Ports : p \in A => Port(p, c) \in B
  PROVE  Makes(Holding(A), Do(c), Holding(B), M)
<1> SUFFICES ASSUME NEW r \in Holding(A)
             PROVE  /\ r.ok => \A m \in M : Step(r, Do(c), m) \in Holding(B)
                    /\ ~r.ok => r \in Holding(B)
  BY Zenon DEF Makes
<1>1. r \in RunStates /\ r.board.spi \in Ports
  BY DEF Holding, RunStates, IdleBoards
<1>2. ASSUME r.ok, NEW m \in M PROVE Step(r, Do(c), m) \in Holding(B)
  <2> DEFINE q == Step(r, Do(c), m)
  <2>1. SpiStep(r, q, Port(r.board.spi, c))
    BY <1>1, PortStep, Zenon
  <2>2. r.board.spi \in A
    BY <1>2 DEF Holding
  <2> HIDE DEF q
  <2>3. q \in Holding(B)
    BY <1>1, <2>1, <2>2 DEF SpiStep, Holding
  <2> QED
    BY <2>3 DEF q
<1> QED
  BY <1>1, <1>2 DEF Holding

\* A look passes only the states that agree with it.
LEMMA SeeMakes ==
  ASSUME NEW A, NEW B, NEW what, what # "word", NEW v, NEW M \in SUBSET BOOLEAN,
         \A r \in RunStates : r.board.spi \in A /\ Agrees(r, what, v) => r.board.spi \in B
  PROVE  Makes(Holding(A), See(what, v), Holding(B), M)
<1> SUFFICES ASSUME NEW r \in Holding(A)
             PROVE  /\ r.ok => \A m \in M : Step(r, See(what, v), m) \in Holding(B)
                    /\ ~r.ok => r \in Holding(B)
  BY Zenon DEF Makes
<1>1. r \in RunStates
  BY DEF Holding
<1>2. ASSUME r.ok, NEW m \in M PROVE Step(r, See(what, v), m) \in Holding(B)
  <2> DEFINE q == Step(r, See(what, v), m)
  <2>0. SpiStep(r, q, r.board.spi) /\ q.ok = (Agrees(r, what, v) /\ ~m)
    <3>1. m \in BOOLEAN
      OBVIOUS
    <3> QED
      BY <1>1, <3>1, SeeStep
  <2>1. SpiStep(r, q, r.board.spi) /\ (q.ok => Agrees(r, what, v))
    BY <2>0
  <2>2. r.board.spi \in A
    BY <1>2 DEF Holding
  <2> HIDE DEF q
  <2>3. q \in Holding(B)
    BY <1>1, <2>1, <2>2, Zenon DEF SpiStep, Holding
  <2> QED
    BY <2>3 DEF q
<1> QED
  BY <1>1, <1>2 DEF Holding

\* A look at a word passes only if it is the one, and takes it.
LEMMA WordMakes ==
  ASSUME NEW A, NEW B, NEW v, NEW M \in SUBSET BOOLEAN,
         \A p \in Ports : p \in A /\ p.fifo # <<>> /\ Head(p.fifo) = v => TakenPort(p) \in B
  PROVE  Makes(Holding(A), See("word", v), Holding(B), M)
<1> SUFFICES ASSUME NEW r \in Holding(A)
             PROVE  /\ r.ok => \A m \in M : Step(r, See("word", v), m) \in Holding(B)
                    /\ ~r.ok => r \in Holding(B)
  BY Zenon DEF Makes
<1>1. r \in RunStates /\ r.board.spi \in Ports
  BY DEF Holding, RunStates, IdleBoards
<1>2. ASSUME r.ok, NEW m \in M PROVE Step(r, See("word", v), m) \in Holding(B)
  <2> DEFINE q == Step(r, See("word", v), m)
  <2>0. SpiStep(r, q, TakenPort(r.board.spi)) /\ q.ok = (Agrees(r, "word", v) /\ ~m)
    <3>1. m \in BOOLEAN
      OBVIOUS
    <3> QED
      BY <1>1, <3>1, SeeStep
  <2>1. SpiStep(r, q, TakenPort(r.board.spi)) /\ (q.ok => Agrees(r, "word", v))
    BY <2>0
  <2>2. r.board.spi \in A
    BY <1>2 DEF Holding
  <2>3. Agrees(r, "word", v) => r.board.spi.fifo # <<>> /\ Head(r.board.spi.fifo) = v
    BY Zenon DEF Agrees
  <2> HIDE DEF q
  <2>4. q \in Holding(B)
    BY <1>1, <2>1, <2>2, <2>3, Zenon DEF SpiStep, Holding
  <2> QED
    BY <2>4 DEF q
<1> QED
  BY <1>1, <1>2 DEF Holding

\* Nothing can be so: an error has been found.
LEMMA HoldingNone == Holding({}) = Failed
  BY DEF Holding, Failed

\* What changes nothing keeps the traces.
LEMMA KeptShows ==
  ASSUME NEW p \in Spi, NEW q \in Spi, Kept(p, q), FaultShows(p)
  PROVE  FaultShows(q)
  BY KeptMoves, MovedShows, Zenon

\* What shows still shows after all that waited has been done.
LEMMA FlushShows ==
  ASSUME NEW p \in Ports, FaultShows(p)
  PROVE  FaultShows(Flushed(p))
<1>1. PICK g : FlushedBy(g, p)
  BY FlushSteps
<1> DEFINE m == Len(p.queue)
           S == {s \in Ports : FaultShows(s)}
<1>2. m \in Nat /\ \A i \in 1 .. m : p.queue[i] \in Queued
  <2>1. p.queue \in Seq(Queued)
    BY DEF Ports
  <2> QED
    BY <2>1
<1>3. \A i \in 1 .. m : g[i - 1] \in S => g[i] \in S
  <2>1. TAKE i \in 1 .. m
  <2>2. HAVE g[i - 1] \in S
  <2>3. g[i - 1] \in Ports /\ g[i - 1] \in Spi /\ FaultShows(g[i - 1])
    BY <2>2 DEF Ports
  <2>4. g[i] = Obey(g[i - 1], p.queue[i]) /\ p.queue[i] \in Queued
    BY <1>1, <1>2 DEF FlushedBy
  <2>5. g[i] \in Ports /\ g[i] \in Spi
    BY <2>3, <2>4, ObeyedPort DEF Ports
  <2>6. Moved(g[i - 1], g[i])
    BY <2>3, <2>4, ObeyMoves
  <2>7. FaultShows(g[i])
    BY <2>3, <2>5, <2>6, MovedShows, Zenon
  <2> QED
    BY <2>5, <2>7
<1>4. g[0] \in S
  BY <1>1 DEF FlushedBy
<1> HIDE DEF S, m
<1>5. \A i \in 0 .. m : g[i] \in S
  BY <1>2, <1>3, <1>4, StepsTaken
<1>6. g[m] \in S
  BY <1>2, <1>5
<1> QED
  BY <1>1, <1>6 DEF S, m, FlushedBy

\* And after every command, and when a word is taken.
LEMMA PortShows ==
  ASSUME NEW p \in Ports, FaultShows(p)
  PROVE  /\ \A c \in PortCommands : FaultShows(Port(p, c))
         /\ FaultShows(TakenPort(p))
<1>0. p \in Spi
  BY DEF Ports
<1>1. ASSUME NEW c \in Queued, p.on PROVE FaultShows(Port(p, c))
  <2>1. Obey(p, c) \in Ports /\ Moved(p, Obey(p, c))
    BY <1>0, ObeyedPort, ObeyMoves, Zenon
  <2>2. Obey(p, c) \in Spi
    BY <2>1 DEF Ports
  <2>3. FaultShows(Obey(p, c))
    BY <1>0, <2>1, <2>2, MovedShows, Zenon
  <2> QED
    BY <1>1, <2>3, PortOn, Zenon
<1>2. ASSUME NEW c \in Queued, ~p.on PROVE FaultShows(Port(p, c))
  <2> DEFINE u == Append(p.queue, c)
             q == [p EXCEPT !.queue = u]
  <2>1. Kept(p, q)
    BY <1>0 DEF Spi, Kept
  <2>2. Port(p, c) = q
    BY <1>2, PortOff, Zenon
  <2>3. q \in Spi
    <3>1. Port(p, c) \in Ports
      BY PortTyped, Zenon DEF PortCommands
    <3> QED
      BY <2>2, <3>1 DEF Ports
  <2> HIDE DEF q
  <2>4. FaultShows(q)
    BY <1>0, <2>1, <2>3, KeptShows, Zenon
  <2> QED
    BY <2>2, <2>4, Zenon
<1>3. FaultShows(Port(p, "Enable"))
  <2> DEFINE f == Flushed(p)
             f1 == [f EXCEPT !.on = TRUE]
             f2 == [f1 EXCEPT !.queue = <<>>]
  <2>1. f \in Spi /\ FaultShows(f)
    <3>1. f \in Ports
      BY FlushedPort, Zenon
    <3> QED
      BY <3>1, FlushShows, Zenon DEF Ports
  <2> HIDE DEF f
  <2>2. f1 \in Spi /\ Kept(f, f1)
    BY <2>1 DEF Spi, Kept
  <2>3. FaultShows(f1)
    BY <2>1, <2>2, KeptShows, Zenon
  <2> HIDE DEF f1
  <2>4. f2 \in Spi /\ Kept(f1, f2)
    <3>1. <<>> \in Seq(Commands \cup Files)
      OBVIOUS
    <3> QED
      BY <2>2, <3>1 DEF Spi, Kept
  <2>5. FaultShows(f2)
    BY <2>2, <2>3, <2>4, KeptShows, Zenon
  <2>6. f2 = [Flushed(p) EXCEPT !.on = TRUE, !.queue = <<>>]
    BY DEF f, f1
  <2> HIDE DEF f2
  <2> QED
    BY <2>5, <2>6, PortEnable, Zenon
<1>4. FaultShows(Port(p, "Disable"))
  <2> DEFINE q == [p EXCEPT !.on = FALSE]
  <2>1. q \in Spi /\ Kept(p, q)
    BY <1>0 DEF Spi, Kept
  <2>2. Port(p, "Disable") = p \/ Port(p, "Disable") = q
    BY PortDisable, Zenon
  <2> HIDE DEF q
  <2>3. FaultShows(q)
    BY <1>0, <2>1, KeptShows, Zenon
  <2> QED
    BY <2>2, <2>3, Zenon
<1>5. FaultShows(Port(p, "Reset FSM"))
  <2> DEFINE q == [p EXCEPT !.half = FALSE]
  <2>1. q \in Spi
    BY <1>0 DEF Spi
  <2>2. Moved(p, q)
    BY <1>0, PartMoves, Zenon
  <2>3. Port(p, "Reset FSM") = p \/ Port(p, "Reset FSM") = q
    BY PortReset, Zenon
  <2> HIDE DEF q
  <2>4. FaultShows(q)
    BY <1>0, <2>1, <2>2, MovedShows, Zenon
  <2> QED
    BY <2>3, <2>4, Zenon
<1>6. FaultShows(TakenPort(p))
  <2> DEFINE t == Tail(p.fifo)
             q == [p EXCEPT !.fifo = t]
  <2>1. CASE p.fifo = <<>>
    BY <2>1, Zenon DEF TakenPort
  <2>2. CASE p.fifo # <<>>
    <3>1. TakenPort(p) = q
      BY <2>2, Zenon DEF TakenPort
    <3>2. p.fifo \in Seq(SpiWords)
      BY <1>0 DEF Spi
    <3> DEFINE f == p.fifo
    <3>3. f \in Seq(SpiWords) /\ f # <<>>
      BY <2>2, <3>2
    <3> HIDE DEF f, SpiWords
    <3>4. Tail(f) \in Seq(SpiWords)
      BY <3>3
    <3>5. t \in Seq(SpiWords)
      BY <3>4 DEF f
    <3> HIDE DEF t
    <3>6. q \in Spi /\ Kept(p, q)
      BY <1>0, <3>5 DEF Spi, Kept
    <3> HIDE DEF q
    <3>7. FaultShows(q)
      BY <1>0, <3>6, KeptShows, Zenon
    <3> QED
      BY <3>1, <3>7, Zenon
  <2> QED
    BY <2>1, <2>2
<1>7. \A c \in PortCommands : FaultShows(Port(p, c))
  BY <1>1, <1>2, <1>3, <1>4, <1>5, Zenon DEF PortCommands
<1> QED
  BY <1>6, <1>7

\* Every step keeps the traces.
LEMMA ShownStays ==
  ASSUME NEW s \in AllSteps, NEW M \in SUBSET BOOLEAN
  PROVE  Makes(Showing, s, Showing, M)
<1> SUFFICES ASSUME NEW r \in Showing, NEW m \in M PROVE Step(r, s, m) \in Showing
  BY Zenon DEF Makes
<1> DEFINE p == r.board.spi
<1>1. r \in RunStates /\ m \in BOOLEAN /\ p \in Ports /\ FaultShows(p)
  BY DEF Showing, RunStates, IdleBoards
<1> HIDE DEF p
<1>2. ASSUME NEW q, SpiStep(r, q, p) PROVE q \in Showing
  BY <1>1, <1>2, Zenon DEF SpiStep, Showing
<1>3. ASSUME NEW q, SpiStep(r, q, TakenPort(p)) PROVE q \in Showing
  BY <1>1, <1>3, PortShows, Zenon DEF SpiStep, Showing
<1>4. ASSUME NEW q, NEW a, NEW b, CfgStep(r, q, a, b) PROVE q \in Showing
  BY <1>1, <1>4, Zenon DEF CfgStep, Showing, p
<1>5. CASE s \in PortSteps
  <2>1. PICK c \in PortCommands : s = Do(c)
    BY <1>5 DEF PortSteps
  <2>2. SpiStep(r, Step(r, s, m), Port(p, c))
    BY <1>1, <2>1, PortStep, Zenon DEF p
  <2> QED
    BY <1>1, <2>2, PortShows, Zenon DEF SpiStep, Showing
<1>6. CASE s \in LookSteps
  <2>1. PICK w \in Looks, v \in Views : s = See(w, v)
    BY <1>6 DEF LookSteps
  <2>2. SpiStep(r, Step(r, s, m), p) \/ SpiStep(r, Step(r, s, m), TakenPort(p))
    BY <1>1, <2>1, SeeStep, Zenon DEF p
  <2> QED
    BY <1>2, <1>3, <2>2, Zenon
<1>7. CASE s = Keep
  BY <1>1, <1>3, <1>7, KeepStep, Zenon DEF p
<1>8. CASE s = Do("Load") \/ s = Do("Soft reset")
  BY <1>1, <1>4, <1>8, LoadStep, Zenon
<1>9. CASE s \in SetSteps
  <2>1. PICK reg \in CfgRegs, v \in CfgValues : s = SetReg(reg, v)
    BY <1>9 DEF SetSteps
  <2> QED
    BY <1>1, <1>4, <2>1, SetStep, Zenon
<1>10. CASE s = Do("Save")
  BY <1>1, <1>4, <1>10, SaveStep, Zenon
<1>11. CASE s = Do("Originals")
  <2>1. Step(r, s, m) \in RunStates /\ Step(r, s, m).board = r.board
    BY <1>1, <1>11, OriginalsStep, Zenon
  <2> QED
    BY <1>1, <2>1, Zenon DEF Showing, p
<1> QED
  BY <1>5, <1>6, <1>7, <1>8, <1>9, <1>10, <1>11, Zenon DEF AllSteps, TestSteps, PlainSteps

\* A sequence of steps, and what shows before shows after it.
LEMMA ShownGoes ==
  ASSUME NEW M \in SUBSET BOOLEAN, NEW P, NEW Q, NEW s, Goes(P, s, Q, M)
  PROVE  Goes(P \cap Showing, s, Q \cap Showing, M)
<1>1. s \in Seq(AllSteps) /\ Leads(P, s, Q, M)
  BY Zenon DEF Goes
<1>2. \A x \in AllSteps : Makes(Showing, x, Showing, M)
  BY ShownStays, Zenon
<1>3. Leads(Showing, s, Showing, M)
  BY <1>1, <1>2, HoldingSets, LeadsKeep
<1>4. Leads(P \cap Showing, s, Q \cap Showing, M)
  BY <1>1, <1>3, Zenon DEF Leads
<1> QED
  BY <1>1, <1>4, Zenon DEF Goes

\* So does a run.
LEMMA RunShows ==
  ASSUME NEW b \in IdleBoards, FaultShows(b.spi), NEW file \in Files, NEW glitch
  PROVE  Ran(b, Steps(file), glitch) \in Showing
<1>1. Start(b) \in Showing
  <2>1. Start(b) \in RunStates /\ Start(b).board = b
    BY StartTyped, Zenon
  <2> QED
    BY <2>1, Zenon DEF Showing
<1>2. Steps(file) \in Seq(AllSteps)
  BY StepsTyped
<1>3. \A x \in AllSteps : Makes(Showing, x, Showing, BOOLEAN)
  BY ShownStays, Zenon
<1>4. Leads(Showing, Steps(file), Showing, BOOLEAN)
  BY <1>2, <1>3, HoldingSets, LeadsKeep
<1>5. \A i \in 1 .. Len(Steps(file)) : (i = glitch) \in BOOLEAN
  OBVIOUS
<1> QED
  BY <1>1, <1>2, <1>4, <1>5, RanLeads, Zenon

\* What SPIcheck leaves.
StandBoards ==
  {b \in IdleBoards : /\ Untested(b.cfg) /\ Untested(b.prom)
                      /\ PortOK(b.spi) /\ FaultShows(b.spi)}

\* The faults do not change, nor does what shows of them.
LEMMA SameFaults ==
  ASSUME faults' = faults
  PROVE  StandBoards' = StandBoards
<1>1. \A x, y : Faulty(x, y)' <=> Faulty(x, y)
  BY DEF Faulty
<1>2. /\ (HiWorks' <=> HiWorks) /\ (EraseWorks' <=> EraseWorks) /\ (D3BWorks' <=> D3BWorks)
      /\ (PageWorks' <=> PageWorks) /\ (StartWorks' <=> StartWorks) /\ (StopWorks' <=> StopWorks)
      /\ (RegisterWorks' <=> RegisterWorks) /\ (Sets0B' <=> Sets0B) /\ (SetsFB' <=> SetsFB)
      /\ (Selects1' <=> Selects1) /\ (LockWorks' <=> LockWorks) /\ (LockVWorks' <=> LockVWorks)
  BY <1>1, Zenon DEF HiWorks, EraseWorks, D3BWorks, PageWorks, StartWorks, StopWorks,
     RegisterWorks, Sets0B, SetsFB, Selects1, LockWorks, LockVWorks
<1>3. \A b : FaultShows(b.spi)' <=> FaultShows(b.spi)
  BY <1>2 DEF FaultShows
<1> QED
  BY <1>3, Zenon DEF StandBoards

\* SPIcheck leaves a board that is ready, wherever it has ended.
LEMMA CheckedBoard ==
  ASSUME NEW b \in StandBoards, NEW file \in Files, NEW glitch
  PROVE  Restored(Ran(b, Steps(file), glitch)) \in StandBoards
<1> DEFINE r == Ran(b, Steps(file), glitch)
<1>1. b \in IdleBoards /\ Untested(b.cfg) /\ Untested(b.prom) /\ PortOK(b.spi) /\ FaultShows(b.spi)
  BY DEF StandBoards
<1>2. r \in Restorable /\ r \in GoodRuns /\ r \in Showing
  BY <1>1, RunValues, RunPort, RunShows, Zenon
<1> HIDE DEF r
<1>3. /\ Restored(r) \in IdleBoards /\ Restored(r).spi = r.board.spi
      /\ Untested(Restored(r).cfg) /\ Untested(Restored(r).prom)
  BY <1>2, RestoredValues, Zenon
<1>4. PortOK(Restored(r).spi) /\ FaultShows(Restored(r).spi)
  BY <1>2, <1>3, Zenon DEF GoodRuns, Showing
<1> QED
  BY <1>3, <1>4, Zenon DEF StandBoards, r

\* A change of one part of the board.
LEMMA BoardChanged ==
  ASSUME NEW b \in StandBoards
  PROVE  /\ \A v \in BOOLEAN : [b EXCEPT !.power = v] \in StandBoards
         /\ \A v \in Counts : [b EXCEPT !.l1a = v] \in StandBoards
         /\ \A v \in Chain : Idles(v) => [b EXCEPT !.jtag = v] \in StandBoards
         /\ \A v \in Configurations : Untested(v) => [b EXCEPT !.cfg = v] \in StandBoards
         /\ \A v \in Configurations : Untested(v) => [b EXCEPT !.prom = v] \in StandBoards
         /\ \A v \in Firmware : [b EXCEPT !.fw = v] \in StandBoards
         /\ \A v \in Firmware : [b EXCEPT !.eprom = v] \in StandBoards
<1>1. b \in Boards(Spi) /\ Idles(b.jtag) /\ b.spi \in Ports /\ Untested(b.cfg) /\ Untested(b.prom) /\ PortOK(b.spi)
      /\ FaultShows(b.spi)
  BY DEF StandBoards, IdleBoards
<1>2. ASSUME NEW x \in Boards(Spi), Idles(x.jtag), x.spi = b.spi, Untested(x.cfg), Untested(x.prom)
      PROVE  x \in StandBoards
  BY <1>1, <1>2, Zenon DEF StandBoards, IdleBoards
<1>3. ASSUME NEW v \in BOOLEAN PROVE [b EXCEPT !.power = v] \in StandBoards
  <2> DEFINE x == [b EXCEPT !.power = v]
  <2>1. x \in Boards(Spi) /\ x.jtag = b.jtag /\ x.spi = b.spi /\ x.cfg = b.cfg /\ x.prom = b.prom
    BY <1>1 DEF Boards
  <2> HIDE DEF x
  <2> QED
    BY <1>1, <1>2, <2>1 DEF x
<1>4. ASSUME NEW v \in Counts PROVE [b EXCEPT !.l1a = v] \in StandBoards
  <2> DEFINE x == [b EXCEPT !.l1a = v]
  <2>1. x \in Boards(Spi) /\ x.jtag = b.jtag /\ x.spi = b.spi /\ x.cfg = b.cfg /\ x.prom = b.prom
    BY <1>1 DEF Boards, Counts
  <2> HIDE DEF x
  <2> QED
    BY <1>1, <1>2, <2>1 DEF x
<1>5. ASSUME NEW v \in Chain, Idles(v) PROVE [b EXCEPT !.jtag = v] \in StandBoards
  <2> DEFINE x == [b EXCEPT !.jtag = v]
  <2>1. x \in Boards(Spi) /\ x.jtag = v /\ x.spi = b.spi /\ x.cfg = b.cfg /\ x.prom = b.prom
    BY <1>1 DEF Boards
  <2> HIDE DEF x
  <2> QED
    BY <1>1, <1>2, <1>5, <2>1 DEF x
<1>6. ASSUME NEW v \in Configurations, Untested(v) PROVE [b EXCEPT !.cfg = v] \in StandBoards
  <2> DEFINE x == [b EXCEPT !.cfg = v]
  <2>1. x \in Boards(Spi) /\ x.jtag = b.jtag /\ x.spi = b.spi /\ x.cfg = v /\ x.prom = b.prom
    BY <1>1 DEF Boards
  <2> HIDE DEF x
  <2> QED
    BY <1>1, <1>2, <1>6, <2>1 DEF x
<1>7. ASSUME NEW v \in Configurations, Untested(v) PROVE [b EXCEPT !.prom = v] \in StandBoards
  <2> DEFINE x == [b EXCEPT !.prom = v]
  <2>1. x \in Boards(Spi) /\ x.jtag = b.jtag /\ x.spi = b.spi /\ x.cfg = b.cfg /\ x.prom = v
    BY <1>1 DEF Boards
  <2> HIDE DEF x
  <2> QED
    BY <1>1, <1>2, <1>7, <2>1 DEF x
<1>8. ASSUME NEW v \in Firmware PROVE [b EXCEPT !.fw = v] \in StandBoards
  <2> DEFINE x == [b EXCEPT !.fw = v]
  <2>1. x \in Boards(Spi) /\ x.jtag = b.jtag /\ x.spi = b.spi /\ x.cfg = b.cfg /\ x.prom = b.prom
    BY <1>1 DEF Boards
  <2> HIDE DEF x
  <2> QED
    BY <1>1, <1>2, <2>1 DEF x
<1>9. ASSUME NEW v \in Firmware PROVE [b EXCEPT !.eprom = v] \in StandBoards
  <2> DEFINE x == [b EXCEPT !.eprom = v]
  <2>1. x \in Boards(Spi) /\ x.jtag = b.jtag /\ x.spi = b.spi /\ x.cfg = b.cfg /\ x.prom = b.prom
    BY <1>1 DEF Boards
  <2> HIDE DEF x
  <2> QED
    BY <1>1, <1>2, <2>1 DEF x
<1> QED
  BY <1>3, <1>4, <1>5, <1>6, <1>7, <1>8, <1>9, Zenon

(***************************************************************************)
(* The invariant of the stand.                                             *)
(***************************************************************************)
LastOK(l) == l.says \in Verdicts /\ l.trials \in Nat /\ l.glitch \in BOOLEAN

StandOK ==
  /\ odmb \in Odmbs /\ kind \in Kinds /\ is_xdcfeb \in BOOLEAN
  /\ board \in StandBoards
  /\ firstTime \in BOOLEAN /\ groups_ \in {<<>>, Groups}
  /\ pressed \in Buttons \cup {<<>>}
  /\ todo \in Seq(Calls)
  /\ LastOK(last)

\* A test that reports ends the call and leaves the rest of the request.
LEMMA DoneTyped ==
  ASSUME StandOK, todo # <<>>, NEW says \in Verdicts, NEW trials \in Nat, NEW glitch \in BOOLEAN,
         Done(says, trials, glitch)
  PROVE  /\ todo' \in Seq(Calls) /\ todo' = Tail(todo) /\ LastOK(last')
         /\ faults' = faults /\ odmb' = odmb /\ kind' = kind
<1>1. todo' = Tail(todo) /\ faults' = faults /\ odmb' = odmb /\ kind' = kind
  BY Zenon DEF Done
<1>2. Tail(todo) \in Seq(Calls)
  <2>1. todo \in Seq(Calls)
    BY Zenon DEF StandOK
  <2> HIDE DEF Calls
  <2> QED
    BY <2>1, HeadTailProperties
<1>3. LastOK(last')
  <2>1. last' = Report(Head(todo).test, N, says, trials, glitch)
    BY Zenon DEF Done
  <2>2. last'.says = says /\ last'.trials = trials /\ last'.glitch = glitch
    BY <2>1 DEF Report
  <2> QED
    BY <2>2, Zenon DEF LastOK
<1> QED
  BY <1>1, <1>2, <1>3, Zenon

\* The number of the next test is within its bound.
LEMMA NumberTyped ==
  ASSUME StandOK, todo # <<>>
  PROVE  Head(todo) \in Calls /\ N \in 0 .. MaxRepeats /\ N \in Nat
<1>1. todo \in Seq(Calls)
  BY Zenon DEF StandOK
<1>2. Head(todo) \in Calls
  <2> HIDE DEF Calls
  <2> QED
    BY <1>1, HeadTailProperties
<1> DEFINE h == Head(todo)
<1>3. h \in Calls
  BY <1>2
<1> HIDE DEF h
<1>4. h.n \in 0 .. MaxRepeats
  BY <1>3 DEF Calls
<1>5. h.n \in Nat
  BY <1>4, BenchAssumption
<1> QED
  BY <1>2, <1>4, <1>5, Zenon DEF N, h

\* A test that leaves a ready board and reports keeps the invariant.
LEMMA TestKeeps ==
  ASSUME StandOK, todo # <<>>, NEW says \in Verdicts, NEW trials \in Nat, NEW glitch \in BOOLEAN,
         Done(says, trials, glitch), board' \in StandBoards, is_xdcfeb' \in BOOLEAN,
         UNCHANGED managerVars
  PROVE  StandOK'
<1>1. /\ todo' \in Seq(Calls) /\ LastOK(last')
      /\ faults' = faults /\ odmb' = odmb /\ kind' = kind
  BY DoneTyped
<1>2. firstTime' = firstTime /\ groups_' = groups_ /\ pressed' = pressed
  BY DEF managerVars
<1>3. board' \in StandBoards'
  BY <1>1, SameFaults
<1> QED
  BY <1>1, <1>2, <1>3, Zenon DEF StandOK

\* The verdicts by name.
LEMMA SilentTyped == "silent" \in Verdicts /\ "NOT PASSED" \in Verdicts /\ "PASSED" \in Verdicts
  BY DEF Verdicts

\* The parts of a board that is ready.
LEMMA BoardParts ==
  ASSUME NEW b \in StandBoards
  PROVE  /\ b \in IdleBoards /\ b.power \in BOOLEAN /\ b.l1a \in Counts /\ Idles(b.jtag) /\ b.jtag \in Chain
         /\ b.cfg \in Configurations /\ Untested(b.cfg) /\ b.prom \in Configurations /\ Untested(b.prom)
         /\ b.fw \in Firmware /\ b.eprom \in Firmware
<1>1. b \in Boards(Spi) /\ b \in IdleBoards /\ Idles(b.jtag) /\ Untested(b.cfg) /\ Untested(b.prom)
  BY DEF StandBoards, IdleBoards
<1>2. /\ b.power \in BOOLEAN /\ b.l1a \in [Dcfebs -> 0 .. WordRange - 1] /\ b.jtag \in Chain
      /\ b.cfg \in Configurations /\ b.prom \in Configurations
      /\ b.fw \in Firmware /\ b.eprom \in Firmware
  BY <1>1 DEF Boards
<1> QED
  BY <1>1, <1>2, Zenon DEF Counts

\* Counters that start again.
LEMMA CountersReset ==
  ASSUME NEW b \in StandBoards
  PROVE  [b EXCEPT !.l1a = [d \in Dcfebs |-> 0]] \in StandBoards
<1> DEFINE z == [d \in Dcfebs |-> 0]
<1>1. z \in Counts
  <2>1. 0 \in 0 .. WordRange - 1
    BY BenchAssumption
  <2> QED
    BY <2>1 DEF Counts
<1> HIDE DEF z
<1>2. [b EXCEPT !.l1a = z] \in StandBoards
  BY <1>1, BoardChanged, Zenon
<1> QED
  BY <1>2, Zenon DEF z

\* A board that has been switched off, or off and on, is ready.
LEMMA SwitchedStands ==
  ASSUME NEW b \in StandBoards, NEW chain, Idles(chain)
  PROVE  /\ [b EXCEPT !.power = TRUE, !.l1a = [d \in Dcfebs |-> 0]] \in StandBoards
         /\ LET off == [b EXCEPT !.power = FALSE, !.l1a = [d \in Dcfebs |-> 0], !.jtag = chain]
            IN off \in StandBoards /\ [off EXCEPT !.power = TRUE] \in StandBoards
<1> DEFINE p == [b EXCEPT !.power = TRUE]
           o == [b EXCEPT !.power = FALSE]
           p1 == [p EXCEPT !.l1a = [d \in Dcfebs |-> 0]]
           o1 == [o EXCEPT !.l1a = [d \in Dcfebs |-> 0]]
           o2 == [o1 EXCEPT !.jtag = chain]
           o3 == [o2 EXCEPT !.power = TRUE]
<1>1. TRUE \in BOOLEAN /\ FALSE \in BOOLEAN /\ chain \in Chain
  BY IdleTyped
<1>2. p \in StandBoards /\ o \in StandBoards
  BY <1>1, BoardChanged, Zenon
<1> HIDE DEF p, o
<1>3. p1 \in StandBoards /\ o1 \in StandBoards
  BY <1>2, CountersReset, Zenon
<1> HIDE DEF o1
<1>4. o2 \in StandBoards
  BY <1>1, <1>3, BoardChanged, Zenon
<1> HIDE DEF o2
<1>5. o3 \in StandBoards
  BY <1>1, <1>4, BoardChanged, Zenon
<1>6. p1 = [b EXCEPT !.power = TRUE, !.l1a = [d \in Dcfebs |-> 0]]
  BY DEF p
<1>7. o2 = [b EXCEPT !.power = FALSE, !.l1a = [d \in Dcfebs |-> 0], !.jtag = chain]
  BY DEF o2, o1, o
<1> HIDE DEF p1
<1> QED
  BY <1>3, <1>4, <1>5, <1>6, <1>7, Zenon DEF o3

\* A product of numbers is a number.
LEMMA ProductTyped == \A a, b \in Nat : a * b \in Nat
  OBVIOUS

\* Readings are counted by a number.
LEMMA ReadTyped ==
  ASSUME NEW adcs, Len(adcs) \in Nat, NEW n \in Nat
  PROVE  Read(adcs, n) \in Nat
<1>1. 2 * n * Len(adcs) \in Nat
  <2>1. 2 * n \in Nat
    OBVIOUS
  <2> QED
    BY <2>1, ProductTyped, Zenon
<1>2. 0 \in Nat
  OBVIOUS
<1> QED
  BY <1>1, <1>2, Zenon DEF Read

\* One lemma for each test: the invariant is kept.
LEMMA LvmbKeeps ==
  ASSUME StandOK, todo # <<>>, NEW lvmb, lvmb = LVMB \/ lvmb = LVMB5, LvmbRespond(lvmb),
         UNCHANGED managerVars
  PROVE  StandOK'
<1>1. board \in StandBoards /\ N \in Nat /\ is_xdcfeb' \in BOOLEAN
  <2>1. is_xdcfeb' = is_xdcfeb
    BY Zenon DEF LvmbRespond
  <2> QED
    BY <2>1, NumberTyped, Zenon DEF StandOK
<1>2. board' \in StandBoards
  BY <1>1, SwitchedStands, BoardParts, Zenon DEF LvmbRespond, SwitchedOffAndOn
<1>3. Len(lvmb.pon) \in Nat /\ Len(lvmb.adcs) \in Nat
  BY DEF LVMB, LVMB5
<1> DEFINE read == Read(lvmb.adcs, N)
           trials == 2 * Len(lvmb.pon) + read
<1>4. trials \in Nat /\ 1 \in Nat
  <2>1. read \in Nat
    BY <1>1, <1>3, ReadTyped, Zenon
  <2> HIDE DEF read
  <2> QED
    BY <1>3, <2>1
<1> HIDE DEF trials
<1>5. \/ Done("NOT PASSED", 1, FALSE)
      \/ \E noise : \E ok : Done(Verdict(ok), trials, noise > 0)
  BY Zenon DEF LvmbRespond, trials
<1>6. CASE Done("NOT PASSED", 1, FALSE)
  BY <1>1, <1>2, <1>4, <1>6, SilentTyped, TestKeeps, Zenon
<1>7. CASE \E noise : \E ok : Done(Verdict(ok), trials, noise > 0)
  <2>1. PICK noise : \E ok : Done(Verdict(ok), trials, noise > 0)
    BY <1>7
  <2>2. PICK ok : Done(Verdict(ok), trials, noise > 0)
    BY <2>1
  <2> DEFINE g == noise > 0
             v == Verdict(ok)
  <2>3. g \in BOOLEAN
    OBVIOUS
  <2>4. v \in Verdicts
    BY Zenon DEF Verdict, Verdicts
  <2>5. Done(v, trials, g)
    BY <2>2
  <2> HIDE DEF g, v
  <2> QED
    BY <1>1, <1>2, <1>4, <2>3, <2>4, <2>5, TestKeeps, Zenon
<1> QED
  BY <1>5, <1>6, <1>7, Zenon

\* A test that judges keeps the invariant.
LEMMA JudgedKeeps ==
  ASSUME StandOK, todo # <<>>, NEW ok, NEW trials \in Nat, NEW glitch \in BOOLEAN,
         Done(Verdict(ok), trials, glitch), board' \in StandBoards, is_xdcfeb' \in BOOLEAN,
         UNCHANGED managerVars
  PROVE  StandOK'
<1> DEFINE v == Verdict(ok)
<1>1. v \in Verdicts
  BY Zenon DEF Verdict, Verdicts
<1>2. Done(v, trials, glitch)
  OBVIOUS
<1> HIDE DEF v
<1> QED
  BY <1>1, <1>2, TestKeeps, Zenon

\* So does one that leaves the board alone.
LEMMA SameStand ==
  ASSUME StandOK, UNCHANGED <<board, is_xdcfeb>>
  PROVE  board' \in StandBoards /\ is_xdcfeb' \in BOOLEAN
  BY DEF StandOK

\* The scans that tests make leave the chain idle.
LEMMA ScannedIdles ==
  ASSUME StandOK
  PROVE  /\ Idles(Scan(kind, board.jtag, ReadUserCode(is_xdcfeb)))
         /\ Idles(Scan(kind, board.jtag, JTAGRead("L1A", 12, is_xdcfeb)))
         /\ Idles(Scan(kind, board.jtag, JTAGRead("L1A", 16, is_xdcfeb) \o JTAGRead("L1A", 16, is_xdcfeb)))
         /\ Idles(Scan(kind, Reset, ReadUserCode(is_xdcfeb)))
         /\ \A chain : Idles(chain) => Idles(MaskScan(chain))
<1>1. kind \in Kinds /\ is_xdcfeb \in BOOLEAN /\ Idles(board.jtag)
  BY BoardParts, Zenon DEF StandOK
<1>2. "L1A" \in JtagWords /\ "ADC mask" \in JtagWords
  BY Zenon DEF JtagWords
<1>3. 12 \in Nat /\ 12 > 4 /\ 16 \in Nat /\ 16 > 4
  OBVIOUS
<1>4. ASSUME NEW chain, Idles(chain) PROVE Idles(MaskScan(chain))
  <2>1. Idles(Scan(kind, chain, JTAGRead("ADC mask", 12, is_xdcfeb)))
    BY <1>1, <1>2, <1>3, <1>4, ScanIdles, Zenon
  <2> QED
    BY <2>1, Zenon DEF MaskScan, JTAGRead
<1> QED
  BY <1>1, <1>2, <1>3, <1>4, ResetIdles, ScanIdles, Zenon

\* The invariant after LVMB904.
LEMMA LVMB904Keeps ==
  ASSUME StandOK, LVMB904_respond, UNCHANGED managerVars
  PROVE  StandOK'
<1> DEFINE chain == Scan(kind, board.jtag, ReadUserCode(is_xdcfeb))
           adcs == <<0, 1, 2, 3, 4, 5, 6>>
           off == [board EXCEPT !.power = FALSE, !.l1a = [d \in Dcfebs |-> 0], !.jtag = chain]
           on == [off EXCEPT !.power = TRUE]
           read == Read(adcs, N) \div 2
           trials == Cardinality(Dcfebs) + read
           passed == read = 0 \/ WrongEntries(adcs, N) = 0
<1>1. todo # <<>> /\ is_xdcfeb' = is_xdcfeb
  BY Zenon DEF LVMB904_respond, Perform
<1>2. board \in StandBoards /\ N \in Nat /\ is_xdcfeb' \in BOOLEAN
  BY <1>1, NumberTyped, Zenon DEF StandOK
<1>3. Idles(chain)
  BY ScannedIdles, Zenon
<1>4. \/ board' = off /\ Done("NOT PASSED", 1, FALSE)
      \/ board' = on /\ Done(Verdict(passed), trials, FALSE)
  BY Zenon DEF LVMB904_respond
<1>5. trials \in Nat /\ 1 \in Nat
  <2>1. Len(adcs) \in Nat
    OBVIOUS
  <2> HIDE DEF adcs
  <2>2. Read(adcs, N) \in Nat
    BY <1>2, <2>1, ReadTyped, Zenon
  <2> DEFINE x == Read(adcs, N)
  <2> HIDE DEF x
  <2>3. x \div 2 \in Nat
    BY <2>2 DEF x
  <2>4. Cardinality(Dcfebs) \in Nat
    BY BenchAssumption, FS_CardinalityType
  <2> QED
    BY <2>3, <2>4 DEF x
<1> HIDE DEF chain
<1>6. off \in StandBoards /\ on \in StandBoards
  BY <1>2, <1>3, SwitchedStands, Zenon
<1> HIDE DEF off, on, trials, passed
<1>7. CASE board' = off /\ Done("NOT PASSED", 1, FALSE)
  BY <1>1, <1>2, <1>5, <1>6, <1>7, SilentTyped, TestKeeps, Zenon
<1>8. CASE board' = on /\ Done(Verdict(passed), trials, FALSE)
  BY <1>1, <1>2, <1>5, <1>6, <1>8, JudgedKeeps, Zenon
<1> QED
  BY <1>4, <1>7, <1>8, Zenon

\* Tests and pages that leave the board alone.
LEMMA ReadingKeeps ==
  ASSUME StandOK, VoltageCurrentTest_respond \/ Show \/ LVMBtest_dos_respond, UNCHANGED managerVars
  PROVE  StandOK'
<1>1. todo # <<>> /\ UNCHANGED <<board, is_xdcfeb>>
  BY Zenon DEF VoltageCurrentTest_respond, Show, LVMBtest_dos_respond, Perform
<1>2. 5 * 8 \in Nat /\ 0 \in Nat
  OBVIOUS
<1>3. board' \in StandBoards /\ is_xdcfeb' \in BOOLEAN
  BY <1>1, SameStand
<1>4. CASE VoltageCurrentTest_respond
  <2>1. Done(Verdict(\A adc \in 1..5 : ~Faulty("voltage", adc)), 5 * 8, FALSE)
    BY <1>4, Zenon DEF VoltageCurrentTest_respond
  <2> DEFINE ok == \A adc \in 1..5 : ~Faulty("voltage", adc)
             t == 5 * 8
  <2>2. Done(Verdict(ok), t, FALSE)
    BY <2>1
  <2>3. t \in Nat
    OBVIOUS
  <2> HIDE DEF ok, t
  <2> QED
    BY <1>1, <1>3, <2>2, <2>3, JudgedKeeps, Zenon
<1>5. CASE Show \/ LVMBtest_dos_respond
  <2>1. Done("silent", 0, FALSE)
    BY <1>5, Zenon DEF Show, LVMBtest_dos_respond
  <2> QED
    BY <1>1, <1>2, <1>3, <2>1, SilentTyped, TestKeeps, Zenon
<1> QED
  BY <1>4, <1>5, Zenon

\* The invariant after DCFEBJTAGcontrol.
LEMMA DCFEBJTAGcontrolKeeps ==
  ASSUME StandOK, DCFEBJTAGcontrol_respond, UNCHANGED managerVars
  PROVE  StandOK'
<1> DEFINE read == {d \in Dcfebs : UserCodeRead(d)}
           scanned == Scan(kind, Reset, ReadUserCode(is_xdcfeb))
           chain == IF N > 0 /\ LastDcfeb \in read THEN MaskScan(scanned) ELSE scanned
           trials == Cardinality(read) * N * (MaskValues - 1)
<1>1. todo # <<>> /\ is_xdcfeb' = is_xdcfeb /\ board' = [board EXCEPT !.jtag = chain]
  BY Zenon DEF DCFEBJTAGcontrol_respond, Perform
<1>2. board \in StandBoards /\ N \in Nat /\ is_xdcfeb' \in BOOLEAN
  BY <1>1, NumberTyped, Zenon DEF StandOK
<1>3. Idles(chain)
  BY ScannedIdles, Zenon
<1>4. \E ok : Done(Verdict(ok), trials, FALSE)
  BY Zenon DEF DCFEBJTAGcontrol_respond
<1>5. trials \in Nat
  <2>1. Cardinality(read) \in Nat
    BY BenchAssumption, FS_Subset, FS_CardinalityType
  <2>2. MaskValues - 1 \in Nat
    BY DcfebAssumption
  <2> HIDE DEF read
  <2> QED
    BY <1>2, <2>1, <2>2, ProductTyped, Zenon
<1> HIDE DEF chain, trials
<1>6. board' \in StandBoards
  <2>1. chain \in Chain
    BY <1>3, IdleTyped, Zenon
  <2> QED
    BY <1>1, <1>2, <1>3, <2>1, BoardChanged, Zenon
<1>7. PICK ok : Done(Verdict(ok), trials, FALSE)
  BY <1>4, Zenon
<1> QED
  BY <1>1, <1>2, <1>5, <1>6, <1>7, JudgedKeeps, Zenon

\* A board is ready with any set of inputs killed.
LEMMA ConfiguredStands ==
  ASSUME NEW b \in StandBoards, NEW v \in {"none", "all but the last", "all", "default"}
  PROVE  [b EXCEPT !.cfg["KILL"] = v] \in StandBoards
<1> DEFINE c == [b.cfg EXCEPT !["KILL"] = v]
<1>1. b.cfg \in Configurations /\ Untested(b.cfg)
  BY BoardParts, Zenon
<1>2. v \in CfgValues /\ v \notin TestValues
  BY Zenon DEF CfgValues, TestValues
<1>3. c \in Configurations
  BY <1>1, <1>2, Zenon DEF Configurations
<1>4. Untested(c)
  BY <1>1, <1>2, Zenon DEF Untested, Configurations
<1>5. [b EXCEPT !.cfg["KILL"] = v] = [b EXCEPT !.cfg = c]
  BY Zenon
<1> HIDE DEF c
<1> QED
  BY <1>3, <1>4, <1>5, BoardChanged, Zenon

\* There are finitely many inputs.
LEMMA InputsCounted ==
  /\ Cardinality(DoneBits) \in Nat /\ IsFiniteSet(DoneBits) /\ DoneBits \in SUBSET Dcfebs
  /\ \A n \in Nat : n * Cardinality(DoneBits) \in Nat
<1>1. DoneBits \in SUBSET Dcfebs
  BY DEF DoneBits
<1>2. IsFiniteSet(DoneBits) /\ Cardinality(DoneBits) \in Nat
  BY <1>1, BenchAssumption, FS_Subset, FS_CardinalityType
<1> QED
  BY <1>1, <1>2, ProductTyped, Zenon

\* The counters after the loop over the inputs.
LEMMA ResyncsTyped ==
  ASSUME NEW l1a \in Counts, NEW n \in Nat
  PROVE  Resyncs(l1a, n) \in Turns /\ Resyncs(l1a, n).l1a \in Counts
<1>1. PICK g \in [0 .. LastDcfeb -> Turns] :
            /\ g[0] = [l1a |-> l1a, counts |-> l1a, after |-> 0]
            /\ \A d \in 1 .. LastDcfeb : g[d] = TurnOf(g[d - 1], d, n)
            /\ Resyncs(l1a, n) = g[LastDcfeb]
  BY TurnsTaken, Zenon
<1>2. LastDcfeb \in 0 .. LastDcfeb
  BY LastInput
<1>3. Resyncs(l1a, n) \in Turns
  BY <1>1, <1>2, Zenon
<1> QED
  BY <1>3 DEF Turns

\* The invariant after DCFEBFiber.
LEMMA DCFEBFiberKeeps ==
  ASSUME StandOK, DCFEBFiber_respond, UNCHANGED managerVars
  PROVE  StandOK'
<1> DEFINE chain == Scan(kind, board.jtag, JTAGRead("L1A", 16, is_xdcfeb)
                                           \o JTAGRead("L1A", 16, is_xdcfeb))
           l1a == Resyncs(board.l1a, N).l1a
           b1 == SoftReset
           b2 == [b1 EXCEPT !.cfg["KILL"] = "all but the last"]
           b3 == [b2 EXCEPT !.l1a = l1a]
           b4 == [b3 EXCEPT !.jtag = chain]
           trials == N * Cardinality(DoneBits)
<1>1. todo # <<>> /\ is_xdcfeb' = is_xdcfeb
  BY Zenon DEF DCFEBFiber_respond, Perform
<1>2. board \in StandBoards /\ N \in Nat /\ is_xdcfeb' \in BOOLEAN
  BY <1>1, NumberTyped, Zenon DEF StandOK
<1>3. \/ board' = b1 /\ Done("NOT PASSED", 0, FALSE)
      \/ /\ board' = [SoftReset EXCEPT !.cfg["KILL"] = "all but the last",
                                       !.l1a = l1a, !.jtag = chain]
         /\ \E ok : Done(Verdict(ok), trials, FALSE)
  BY Zenon DEF DCFEBFiber_respond
<1>4. [SoftReset EXCEPT !.cfg["KILL"] = "all but the last", !.l1a = l1a, !.jtag = chain] = b4
  BY Zenon
<1>5. Idles(chain) /\ chain \in Chain
  BY ScannedIdles, IdleTyped, Zenon
<1>6. l1a \in Counts
  BY <1>2, BoardParts, ResyncsTyped, Zenon
<1>7. trials \in Nat /\ 0 \in Nat
  BY <1>2, InputsCounted, Zenon
<1> HIDE DEF chain, l1a, trials
<1>8. b1 \in StandBoards
  BY <1>2, BoardParts, BoardChanged, Zenon DEF SoftReset
<1> HIDE DEF b1
<1>9. b2 \in StandBoards
  BY <1>8, ConfiguredStands, Zenon
<1> HIDE DEF b2
<1>10. b3 \in StandBoards
  BY <1>6, <1>9, BoardChanged, Zenon
<1> HIDE DEF b3
<1>11. b4 \in StandBoards
  BY <1>5, <1>10, BoardChanged, Zenon
<1> HIDE DEF b4
<1>12. CASE board' = b1 /\ Done("NOT PASSED", 0, FALSE)
  BY <1>1, <1>2, <1>7, <1>8, <1>12, SilentTyped, TestKeeps, Zenon
<1>13. CASE board' = b4 /\ \E ok : Done(Verdict(ok), trials, FALSE)
  BY <1>1, <1>2, <1>7, <1>11, <1>13, JudgedKeeps, Zenon
<1> QED
  BY <1>3, <1>4, <1>12, <1>13, Zenon

\* The invariant after DCFEBPulses.
LEMMA DCFEBPulsesKeeps ==
  ASSUME StandOK, DCFEBPulses_respond, UNCHANGED managerVars
  PROVE  StandOK'
<1> DEFINE chain == Scan(kind, board.jtag, JTAGRead("L1A", 12, is_xdcfeb))
           r == Resynced(board.l1a)
           b1 == [board EXCEPT !.cfg["KILL"] = "none"]
           b2 == [b1 EXCEPT !.l1a = r]
           b3 == [b1 EXCEPT !.l1a = Pulsed]
           b4 == [b3 EXCEPT !.jtag = chain]
           trials == N * Cardinality(DoneBits)
<1>1. todo # <<>> /\ is_xdcfeb' = is_xdcfeb
  BY Zenon DEF DCFEBPulses_respond, Perform
<1>2. board \in StandBoards /\ N \in Nat /\ is_xdcfeb' \in BOOLEAN
  BY <1>1, NumberTyped, Zenon DEF StandOK
<1>3. \/ board' = b2 /\ Done("NOT PASSED", 0, FALSE)
      \/ /\ board' = [b1 EXCEPT !.l1a = Pulsed, !.jtag = chain]
         /\ \E ok : Done(Verdict(ok), trials, FALSE)
  BY Zenon DEF DCFEBPulses_respond
<1>4. [b1 EXCEPT !.l1a = Pulsed, !.jtag = chain] = b4
  BY Zenon
<1>5. Idles(chain) /\ chain \in Chain
  BY ScannedIdles, IdleTyped, Zenon
<1>6. r \in Counts /\ Pulsed \in Counts
  BY <1>2, BoardParts, CountsTyped, Zenon DEF Pulsed
<1>7. trials \in Nat /\ 0 \in Nat
  BY <1>2, InputsCounted, Zenon
<1> HIDE DEF chain, r, trials
<1>8. b1 \in StandBoards
  BY <1>2, ConfiguredStands, Zenon
<1> HIDE DEF b1
<1>9. b2 \in StandBoards /\ b3 \in StandBoards
  BY <1>6, <1>8, BoardChanged, Zenon
<1> HIDE DEF b2, b3
<1>10. b4 \in StandBoards
  BY <1>5, <1>9, BoardChanged, Zenon
<1> HIDE DEF b4
<1>11. CASE board' = b2 /\ Done("NOT PASSED", 0, FALSE)
  BY <1>1, <1>2, <1>7, <1>9, <1>11, SilentTyped, TestKeeps, Zenon
<1>12. CASE board' = b4 /\ \E ok : Done(Verdict(ok), trials, FALSE)
  BY <1>1, <1>2, <1>7, <1>10, <1>12, JudgedKeeps, Zenon
<1> QED
  BY <1>3, <1>4, <1>11, <1>12, Zenon

\* The invariant after the buttons that test nothing.
LEMMA ButtonKeeps ==
  ASSUME StandOK, ReprogramDCFEB_respond \/ SetDCFEBMode_respond \/ ResetRegisters_respond,
         UNCHANGED managerVars
  PROVE  StandOK'
<1>1. todo # <<>> /\ Done("silent", 0, FALSE) /\ 0 \in Nat
  BY Zenon DEF ReprogramDCFEB_respond, SetDCFEBMode_respond, ResetRegisters_respond, Perform
<1>2. board \in StandBoards /\ is_xdcfeb \in BOOLEAN
  BY Zenon DEF StandOK
<1>3. board' \in StandBoards
  BY <1>2, CountersReset, Zenon DEF ReprogramDCFEB_respond, SetDCFEBMode_respond, ResetRegisters_respond
<1>4. is_xdcfeb' \in BOOLEAN
  <2>1. is_xdcfeb' = is_xdcfeb \/ is_xdcfeb' = (N = 0)
    BY Zenon DEF ReprogramDCFEB_respond, SetDCFEBMode_respond, ResetRegisters_respond
  <2> QED
    BY <1>2, <2>1
<1> QED
  BY <1>1, <1>3, <1>4, SilentTyped, TestKeeps, Zenon

\* The PRBS tests, the clock chip, CCBReg and DiscreteLogicTest leave the
\* board and the kind alone: only their report has to be of its type.
LEMMA LinkKeeps ==
  ASSUME StandOK, todo # <<>>, UNCHANGED <<board, is_xdcfeb>>, UNCHANGED managerVars,
         NEW trials \in Nat, NEW glitch, glitch \in BOOLEAN,
         \/ Done("NOT PASSED", 0, FALSE) \/ Done("silent", 0, FALSE)
         \/ \E ok : Done(Verdict(ok), trials, glitch)
  PROVE  StandOK'
<1>1. board' \in StandBoards /\ is_xdcfeb' \in BOOLEAN
  BY SameStand
<1>2. 0 \in Nat /\ FALSE \in BOOLEAN
  OBVIOUS
<1>3. CASE Done("NOT PASSED", 0, FALSE)
  BY <1>1, <1>2, <1>3, SilentTyped, TestKeeps, Zenon
<1>4. CASE Done("silent", 0, FALSE)
  BY <1>1, <1>2, <1>4, SilentTyped, TestKeeps, Zenon
<1>5. CASE \E ok : Done(Verdict(ok), trials, glitch)
  <2>1. PICK ok : Done(Verdict(ok), trials, glitch)
    BY <1>5
  <2> QED
    BY <1>1, <2>1, JudgedKeeps, Zenon
<1> QED
  BY <1>3, <1>4, <1>5, Zenon

\* The remainder that a 16-bit word keeps of a number.
LEMMA SentTyped == \A n \in Nat : Sent(n) \in Nat
  BY BenchAssumption DEF Sent

\* The invariant after the tests of the links.
LEMMA PRBSKeeps ==
  ASSUME StandOK, PCPRBSTest_respond \/ DDUPRBSTest_respond \/ OTMBPRBSTest_respond,
         UNCHANGED managerVars
  PROVE  StandOK'
<1>1. todo # <<>> /\ UNCHANGED <<board, is_xdcfeb>>
  BY Zenon DEF PCPRBSTest_respond, DDUPRBSTest_respond, OTMBPRBSTest_respond, PRBSTest, Perform
<1>2. Sent(N) \in Nat /\ FALSE \in BOOLEAN
  BY <1>1, NumberTyped, SentTyped
<1>3. \E ok : Done(Verdict(ok), Sent(N), FALSE)
  BY Zenon DEF PCPRBSTest_respond, DDUPRBSTest_respond, OTMBPRBSTest_respond, PRBSTest
<1> QED
  BY <1>1, <1>2, <1>3, LinkKeeps, Zenon

\* The invariant after ClockChipTest.
LEMMA ClockChipKeeps ==
  ASSUME StandOK, ClockChipTest_respond, UNCHANGED managerVars
  PROVE  StandOK'
<1>1. todo # <<>> /\ UNCHANGED <<board, is_xdcfeb>>
  BY Zenon DEF ClockChipTest_respond, Perform
<1>2. N \in Nat /\ FALSE \in BOOLEAN
  BY <1>1, NumberTyped
<1>3. \E ok : Done(Verdict(ok), N, FALSE)
  BY Zenon DEF ClockChipTest_respond
<1> QED
  BY <1>1, <1>2, <1>3, LinkKeeps, Zenon

\* The invariant after CCBReg.
LEMMA CCBRegKeeps ==
  ASSUME StandOK, CCBReg_respond, UNCHANGED managerVars
  PROVE  StandOK'
<1>1. todo # <<>> /\ UNCHANGED <<board, is_xdcfeb>>
  BY Zenon DEF CCBReg_respond, Perform
<1>2. N \in Nat
  BY <1>1, NumberTyped
<1>3. PICK glitch : \E ok : Done(Verdict(ok), N, glitch # -1)
  BY Zenon DEF CCBReg_respond
<1> DEFINE g == glitch # -1
<1>4. g \in BOOLEAN
  OBVIOUS
<1>5. \E ok : Done(Verdict(ok), N, g)
  BY <1>3
<1> HIDE DEF g
<1> QED
  BY <1>1, <1>2, <1>4, <1>5, LinkKeeps, Zenon

\* The invariant after DiscreteLogicTest.
LEMMA DiscreteLogicKeeps ==
  ASSUME StandOK, DiscreteLogicTest_respond, UNCHANGED managerVars
  PROVE  StandOK'
<1>1. todo # <<>> /\ UNCHANGED <<board, is_xdcfeb>>
  BY Zenon DEF DiscreteLogicTest_respond, Perform
<1>2. N \in Nat /\ FALSE \in BOOLEAN
  BY <1>1, NumberTyped
<1>3. Done("NOT PASSED", 0, FALSE) \/ \E ok : Done(Verdict(ok), N, FALSE)
  BY Zenon DEF DiscreteLogicTest_respond
<1> QED
  BY <1>1, <1>2, <1>3, LinkKeeps, Zenon

\* The invariant after SPIcheck, wherever an error has ended it.
LEMMA SPIcheckKeeps ==
  ASSUME StandOK, NEW files \in SUBSET Files, SPIcheck_respond(files), UNCHANGED managerVars
  PROVE  StandOK'
<1>1. todo # <<>> /\ is_xdcfeb' = is_xdcfeb
  BY Zenon DEF SPIcheck_respond, Perform
<1>2. board \in StandBoards /\ is_xdcfeb' \in BOOLEAN
  BY <1>1, Zenon DEF StandOK
<1>3. 0 \in Nat /\ 1 \in Nat
  OBVIOUS
<1>4. CASE board' = board /\ Done("NOT PASSED", 0, FALSE)
  BY <1>1, <1>2, <1>3, <1>4, SilentTyped, TestKeeps, Zenon
<1>5. CASE \E steps \in {Steps(file) : file \in files} : \E glitch :
              /\ board' = Restored(Ran(board, steps, glitch))
              /\ Done(Verdict(Ran(board, steps, glitch).ok), 1, glitch # 0)
  <2>1. PICK steps \in {Steps(file) : file \in files} : \E glitch :
              /\ board' = Restored(Ran(board, steps, glitch))
              /\ Done(Verdict(Ran(board, steps, glitch).ok), 1, glitch # 0)
    BY <1>5, Zenon
  <2>2. PICK file \in files : steps = Steps(file)
    BY <2>1
  <2>3. PICK glitch :
              /\ board' = Restored(Ran(board, steps, glitch))
              /\ Done(Verdict(Ran(board, steps, glitch).ok), 1, glitch # 0)
    BY <2>1, Zenon
  <2>6. file \in Files
    BY <2>2
  <2>4. board' \in StandBoards
    BY <1>2, <2>2, <2>3, <2>6, CheckedBoard, Zenon
  <2> DEFINE ok == Ran(board, steps, glitch).ok
             g == glitch # 0
  <2>5. g \in BOOLEAN /\ Done(Verdict(ok), 1, g)
    BY <2>3
  <2> HIDE DEF ok, g
  <2> QED
    BY <1>1, <1>2, <1>3, <2>4, <2>5, JudgedKeeps, Zenon
<1> DEFINE Glitches(steps) == {0} \cup Accidents(IF Clean(board.spi) THEN Reads(steps) ELSE {})
           Ends(steps, glitch) == /\ board' = Restored(Ran(board, steps, glitch))
                                  /\ Done(Verdict(Ran(board, steps, glitch).ok), 1, glitch # 0)
<1>6. \/ board' = board /\ Done("NOT PASSED", 0, FALSE)
      \/ \E steps \in {Steps(file) : file \in files} : \E glitch \in Glitches(steps) : Ends(steps, glitch)
  BY DEF SPIcheck_respond
<1>7. ASSUME \E steps \in {Steps(file) : file \in files} : \E glitch \in Glitches(steps) : Ends(steps, glitch)
      PROVE  \E steps \in {Steps(file) : file \in files} : \E glitch : Ends(steps, glitch)
  <2> HIDE DEF Glitches, Ends
  <2> QED
    BY <1>7, Zenon
<1> QED
  BY <1>4, <1>5, <1>6, <1>7, Zenon

\* A hard reset loads the registers from the PROM, which holds no test values.
LEMMA HardResetStands ==
  ASSUME NEW b \in StandBoards
  PROVE  HardReset(b) \in StandBoards
<1> DEFINE b1 == [b EXCEPT !.fw = b.eprom]
           b2 == [b1 EXCEPT !.cfg = b.prom]
           b3 == [b2 EXCEPT !.l1a = [d \in Dcfebs |-> 0]]
<1>1. b.eprom \in Firmware /\ b.prom \in Configurations /\ Untested(b.prom)
  BY BoardParts, Zenon
<1>2. HardReset(b) = b3
  BY Zenon DEF HardReset
<1>3. b1 \in StandBoards
  BY <1>1, BoardChanged, Zenon
<1> HIDE DEF b1
<1>4. b2 \in StandBoards
  BY <1>1, <1>3, BoardChanged, Zenon
<1> HIDE DEF b2
<1> QED
  BY <1>2, <1>4, CountersReset, Zenon

\* A load of MCSBackAndForthBPI, whatever becomes of it, leaves a board that
\* the next test can start from.
LEMMA RoundStands ==
  ASSUME NEW r \in Rounds, r.board \in StandBoards, NEW i \in Nat, NEW fails, NEW remains \in BOOLEAN
  PROVE  Round(r, i, fails, remains) \in Rounds /\ Round(r, i, fails, remains).board \in StandBoards
<1> DEFINE file == IF i % 2 = 1 THEN "1" ELSE "2"
           bailed == fails > 2
           e == IF ~bailed THEN file ELSE IF remains THEN r.board.eprom ELSE "none"
           written == [r.board EXCEPT !.eprom = e]
           loaded == HardReset(written)
<1>1. e \in Firmware
  <2>1. r.board.eprom \in Firmware
    BY BoardParts, Zenon
  <2> QED
    BY <2>1 DEF Firmware
<1>2. written \in StandBoards
  <2> HIDE DEF e
  <2> QED
    BY <1>1, BoardChanged, Zenon
<1>3. loaded \in StandBoards
  <2> HIDE DEF written
  <2> QED
    BY <1>2, HardResetStands, Zenon
<1>4. Round(r, i, fails, remains).board = r.board \/ Round(r, i, fails, remains).board = loaded
  <2>1. HardReset([r.board EXCEPT !.eprom = IF ~bailed THEN file
                                            ELSE IF remains THEN @ ELSE "none"]) = loaded
    BY Zenon
  <2> HIDE DEF loaded
  <2>2. \/ Round(r, i, fails, remains) = r
        \/ Round(r, i, fails, remains) = [r EXCEPT !.errorType = 1, !.stop = TRUE]
        \/ \E t, s : Round(r, i, fails, remains) = [board |-> loaded, errorType |-> t, stop |-> s]
    BY <2>1, Zenon DEF Round
  <2>3. [r EXCEPT !.errorType = 1, !.stop = TRUE].board = r.board
    BY DEF Rounds
  <2>4. \A t, s : [board |-> loaded, errorType |-> t, stop |-> s].board = loaded
    OBVIOUS
  <2> QED
    BY <2>2, <2>3, <2>4, Zenon
<1> HIDE DEF loaded
<1> QED
  BY <1>3, <1>4, RoundTyped, Zenon

\* The rounds of MCSBackAndForthBPI leave a board that is ready.
LEMMA RoundsStand ==
  ASSUME NEW b \in StandBoards, NEW fails, NEW remains \in BOOLEAN, NEW m \in Nat
  PROVE  RoundsOf(b, fails, remains, m).board \in StandBoards
<1> DEFINE S == {r \in Rounds : r.board \in StandBoards}
<1>1. b \in IdleBoards
  BY BoardParts, Zenon
<1>2. PICK g : RoundBy(g, b, fails, remains, m)
  BY <1>1, RoundsTaken, Zenon
<1>3. /\ g \in [0 .. m -> Rounds] /\ g[0] = RoundsFrom(b)
      /\ \A i \in 1 .. m : g[i] = Round(g[i - 1], i, fails[i], remains)
      /\ RoundsOf(b, fails, remains, m) = g[m]
  BY <1>2, Zenon DEF RoundBy
<1>4. 0 \in 0 .. m /\ m \in 0 .. m /\ \A i \in 1 .. m : i \in Nat
  OBVIOUS
<1>5. g[0] \in S
  <2>1. g[0].board = b
    BY <1>3 DEF RoundsFrom
  <2> QED
    BY <1>3, <1>4, <2>1
<1>6. \A i \in 1 .. m : g[i - 1] \in S => g[i] \in S
  BY <1>3, <1>4, RoundStands
<1> HIDE DEF S
<1>7. g[m] \in S
  BY <1>4, <1>5, <1>6, StepsTaken
<1> QED
  BY <1>3, <1>7 DEF S

\* The invariant after MCSBackAndForthBPI.
LEMMA MCSKeeps ==
  ASSUME StandOK, MCSBackAndForthBPI_respond, UNCHANGED managerVars
  PROVE  StandOK'
<1> DEFINE r(fails, remains) == RoundsOf(board, fails, remains, 2 * N)
           g(fails) == (\E i \in 1..2 * N : fails[i] > 0) /\ (\A i \in 1..2 * N : fails[i] <= 2)
           Ends(fails, remains) == /\ board' = r(fails, remains).board
                                   /\ Done(Verdict(r(fails, remains).errorType = 0), 2 * N, g(fails))
<1>1. todo # <<>> /\ is_xdcfeb' = is_xdcfeb
  BY Zenon DEF MCSBackAndForthBPI_respond, Perform
<1>2. board \in StandBoards /\ is_xdcfeb' \in BOOLEAN /\ N \in Nat
  BY <1>1, NumberTyped, Zenon DEF StandOK
<1>3. 0 \in Nat /\ 2 * N \in Nat /\ FALSE \in BOOLEAN
  BY <1>2
<1>4. \/ board' = board /\ Done("silent", 0, FALSE)
      \/ board' = board /\ Done("PASSED", 0, FALSE)
      \/ \E fails \in Loads(N), remains \in BOOLEAN : Ends(fails, remains)
  BY Zenon DEF MCSBackAndForthBPI_respond, RoundsOf, RoundsFrom
<1>5. CASE board' = board /\ Done("silent", 0, FALSE)
  BY <1>1, <1>2, <1>3, <1>5, SilentTyped, TestKeeps, Zenon
<1>6. CASE board' = board /\ Done("PASSED", 0, FALSE)
  BY <1>1, <1>2, <1>3, <1>6, SilentTyped, TestKeeps, Zenon
<1>7. ASSUME NEW fails \in Loads(N), NEW remains \in BOOLEAN, Ends(fails, remains) PROVE StandOK'
  <2>1. board' \in StandBoards
    BY <1>2, <1>3, <1>7, RoundsStand, Zenon
  <2> DEFINE ok == r(fails, remains).errorType = 0
             gl == g(fails)
             trials == 2 * N
  <2>2. gl \in BOOLEAN
    OBVIOUS
  <2>3. Done(Verdict(ok), trials, gl) /\ trials \in Nat
    BY <1>3, <1>7, Zenon
  <2> HIDE DEF ok, gl, trials
  <2> QED
    BY <1>1, <1>2, <2>1, <2>2, <2>3, JudgedKeeps, Zenon
<1> HIDE DEF Ends
<1> QED
  BY <1>4, <1>5, <1>6, <1>7, Zenon

\* Hard reset, the load of a file, and the default configuration.
LEMMA PromButtonKeeps ==
  ASSUME StandOK, HardReset_respond \/ LoadMCSviaBPI_respond \/ Defaults_respond,
         UNCHANGED managerVars
  PROVE  StandOK'
<1> DEFINE d == [KILL |-> "all", DELAYS |-> "default"]
           b1 == [board EXCEPT !.cfg = d]
           b2 == [b1 EXCEPT !.prom = d]
<1>1. todo # <<>> /\ is_xdcfeb' = is_xdcfeb /\ Done("silent", 0, FALSE) /\ 0 \in Nat /\ FALSE \in BOOLEAN
  BY Zenon DEF HardReset_respond, LoadMCSviaBPI_respond, Defaults_respond, Perform
<1>2. board \in StandBoards /\ is_xdcfeb' \in BOOLEAN
  BY <1>1, Zenon DEF StandOK
<1>3. "1" \in Firmware
  BY Zenon DEF Firmware
<1>4. d \in Configurations /\ Untested(d)
  <2>1. d = [x \in CfgRegs |-> IF x = "KILL" THEN "all" ELSE "default"]
    BY DEF CfgRegs
  <2>2. \A v \in {"all", "default"} : v \in CfgValues /\ v \notin TestValues
    BY Zenon DEF CfgValues, TestValues
  <2>3. \A x \in CfgRegs : d[x] \in {"all", "default"}
    BY <2>1, Zenon
  <2>4. d \in [CfgRegs -> CfgValues]
    <3> DEFINE e == [x \in CfgRegs |-> IF x = "KILL" THEN "all" ELSE "default"]
    <3>1. \A x \in CfgRegs : e[x] \in CfgValues
      BY <2>2, Zenon
    <3>2. e \in [CfgRegs -> CfgValues]
      BY <3>1, Zenon
    <3> QED
      BY <2>1, <3>2, Zenon
  <2> HIDE DEF d
  <2> QED
    BY <2>2, <2>3, <2>4, Zenon DEF Configurations, Untested
<1>5. b2 \in StandBoards
  <2> HIDE DEF d
  <2>1. b1 \in StandBoards
    BY <1>2, <1>4, BoardChanged, Zenon
  <2> HIDE DEF b1
  <2> QED
    BY <1>4, <2>1, BoardChanged, Zenon
<1>6. [board EXCEPT !.cfg = d, !.prom = d] = b2
  BY Zenon
<1>7. [board EXCEPT !.eprom = "1"] \in StandBoards
  BY <1>2, <1>3, BoardChanged, Zenon
<1>8. \/ board' = HardReset(board) \/ board' = board \/ board' = [board EXCEPT !.eprom = "1"]
      \/ board' = [board EXCEPT !.cfg = d, !.prom = d]
  BY Zenon DEF HardReset_respond, LoadMCSviaBPI_respond, Defaults_respond
<1> HIDE DEF b2
<1>9. board' \in StandBoards
  BY <1>2, <1>5, <1>6, <1>7, <1>8, HardResetStands, Zenon
<1> QED
  BY <1>1, <1>2, <1>9, SilentTyped, TestKeeps, Zenon

(***************************************************************************)
(* The server keeps the invariant as well.                                 *)
(***************************************************************************)
LEMMA NothingTyped == LastOK(NoReport) /\ <<>> \in Seq(Calls) /\ NoReport.says = "silent"
<1>1. NoReport.says = "silent" /\ NoReport.trials = 0 /\ NoReport.glitch = FALSE
  BY DEF NoReport, Report
<1>2. 0 \in Nat /\ FALSE \in BOOLEAN
  OBVIOUS
<1>3. <<>> \in Seq(Calls)
  <2> HIDE DEF Calls
  <2> QED
    BY EmptySeq
<1> QED
  BY <1>1, <1>2, <1>3, SilentTyped, Zenon DEF LastOK

\* The invariant after the server has been started again.
LEMMA RestartedKeeps ==
  ASSUME StandOK, Restarted
  PROVE  StandOK'
<1>1. TRUE \in BOOLEAN
  OBVIOUS
<1>2. StandBoards' = StandBoards
  BY SameFaults, Zenon DEF Restarted
<1> QED
  BY <1>1, <1>2, NothingTyped, Zenon DEF StandOK, Restarted

\* A request asks for one test, or for those of MasterTest.
LEMMA PressedTyped ==
  ASSUME NEW b \in Buttons, NEW n \in 0 .. MaxRepeats
  PROVE  <<Call(Named(b), n)>> \in Seq(Calls)
<1>1. Named(b) \in Tests
  BY Zenon DEF Tests
<1>2. Call(Named(b), n) \in Calls
  <2> DEFINE t == Named(b)
  <2>1. t \in Tests
    BY <1>1
  <2> HIDE DEF t
  <2>2. Call(t, n) \in Calls
    <3> HIDE DEF Tests
    <3> QED
      BY <2>1 DEF Call, Calls
  <2> QED
    BY <2>2 DEF t
<1> DEFINE c == Call(Named(b), n)
<1>3. c \in Calls
  BY <1>2
<1> HIDE DEF c, Calls
<1>4. <<c>> \in Seq(Calls)
  BY <1>3
<1> QED
  BY <1>4 DEF c

\* With the groups built, the button found is the one that the page showed.
LEMMA CallbackFinds ==
  ASSUME NEW b \in Buttons, NEW n, NEW mode, groups_ \in {<<>>, Groups},
         groupActionsCallback(b, n, mode)
  PROVE  \/ Restarted
         \/ /\ groups_ = Groups /\ pressed' = b
            /\ todo' = IF Named(b) = "MasterTest" THEN MasterTest(mode) ELSE <<Call(Named(b), n)>>
            /\ UNCHANGED <<faults, odmb, kind, board, is_xdcfeb, last, firstTime, groups_>>
<1>1. CASE groups_ = <<>> /\ Restarted
  BY <1>1
<1> DEFINE found == Decoded(action_to_call(b, Len(Groups)), Len(groups_))
<1>2. CASE /\ groups_ # <<>>
           /\ todo' = IF Named(found) = "MasterTest" THEN MasterTest(mode)
                      ELSE <<Call(Named(found), n)>>
           /\ pressed' = b
           /\ UNCHANGED <<faults, odmb, kind, board, is_xdcfeb, last, firstTime, groups_>>
  <2>1. groups_ = Groups
    BY <1>2, Zenon
  <2>2. found = b
    BY <2>1, NumbersAreDecoded, Zenon
  <2> HIDE DEF found
  <2> QED
    BY <1>2, <2>1, <2>2, Zenon
<1> QED
  BY <1>1, <1>2, Zenon DEF groupActionsCallback

\* The invariant after a button: the call it makes is of a known test.
LEMMA PressKeeps ==
  ASSUME StandOK, Press
  PROVE  StandOK'
<1>1. PICK b \in Buttons, n \in 0 .. MaxRepeats, mode \in Modes : groupActionsCallback(b, n, mode)
  BY Zenon DEF Press
<1>2. groups_ \in {<<>>, Groups}
  BY Zenon DEF StandOK
<1>3. CASE Restarted
  BY <1>3, RestartedKeeps
<1>4. CASE /\ groups_ = Groups /\ pressed' = b
           /\ todo' = IF Named(b) = "MasterTest" THEN MasterTest(mode) ELSE <<Call(Named(b), n)>>
           /\ UNCHANGED <<faults, odmb, kind, board, is_xdcfeb, last, firstTime, groups_>>
  <2>1. MasterTest(mode) \in Seq(Calls)
    BY <1>4, MasterTestTyped, Zenon
  <2>2. todo' \in Seq(Calls)
    BY <1>4, <2>1, PressedTyped, Zenon
  <2>3. /\ odmb' = odmb /\ kind' = kind /\ board' = board /\ is_xdcfeb' = is_xdcfeb
        /\ last' = last /\ firstTime' = firstTime /\ groups_' = groups_ /\ pressed' = b
    BY <1>4, Zenon
  <2>4. StandBoards' = StandBoards
    BY <1>4, SameFaults, Zenon
  <2> QED
    BY <2>2, <2>3, <2>4, Zenon DEF StandOK
<1>5. \/ Restarted
      \/ /\ groups_ = Groups /\ pressed' = b
         /\ todo' = IF Named(b) = "MasterTest" THEN MasterTest(mode) ELSE <<Call(Named(b), n)>>
         /\ UNCHANGED <<faults, odmb, kind, board, is_xdcfeb, last, firstTime, groups_>>
  BY <1>1, <1>2, CallbackFinds
<1> QED
  BY <1>3, <1>4, <1>5, Zenon

\* The invariant after the other pages.
LEMMA PagesKeep ==
  ASSUME StandOK, defaultWebPage \/ ProductionTests \/ backToMainPage
  PROVE  StandOK'
<1>1. FALSE \in BOOLEAN
  OBVIOUS
<1>2. CASE defaultWebPage
  <2>1. /\ odmb' = odmb /\ kind' = kind /\ board' = board /\ is_xdcfeb' = is_xdcfeb
        /\ last' = last /\ todo' = todo /\ pressed' = pressed
    BY <1>2, Zenon DEF defaultWebPage, benchVars
  <2>2. firstTime' = FALSE /\ (groups_' = Groups \/ groups_' = groups_)
    BY <1>2, Zenon DEF defaultWebPage
  <2>3. StandBoards' = StandBoards
    BY <1>2, SameFaults, Zenon DEF defaultWebPage, benchVars
  <2> QED
    BY <1>1, <2>1, <2>2, <2>3, Zenon DEF StandOK
<1>3. CASE ProductionTests
  BY <1>3, RestartedKeeps, Zenon DEF ProductionTests
<1>4. CASE backToMainPage
  <2>1. StandBoards' = StandBoards
    BY <1>4, SameFaults, Zenon DEF backToMainPage
  <2> QED
    BY <1>4, <2>1, NothingTyped, Zenon DEF StandOK, backToMainPage
<1> QED
  BY <1>2, <1>3, <1>4, Zenon

\* A new board, whose PROM has never seen a test value.
LEMMA NewBoardStands == NewBoard(NewSpi) \in StandBoards
<1>1. /\ NewBoard(NewSpi).spi = NewSpi /\ NewBoard(NewSpi).jtag = Reset
      /\ NewBoard(NewSpi).cfg = Own /\ NewBoard(NewSpi).prom = Own
  BY DEF NewBoard
<1>2. Untested(Own)
  <2>1. \A x \in CfgRegs : Own[x] = "own"
    BY DEF Own
  <2>2. "own" \notin TestValues
    BY Zenon DEF TestValues
  <2> QED
    BY <2>1, <2>2, Zenon DEF Untested
<1>3. Own \in Configurations
  <2>1. "own" \in CfgValues
    BY Zenon DEF CfgValues
  <2> QED
    BY <2>1, Zenon DEF Own, Configurations
<1>4. NewSpi \in Ports /\ PortOK(NewSpi)
  <2>1. NewSpi.queue = <<>> /\ NewSpi.fifo = <<>>
    BY DEF NewSpi
  <2>2. NewSpi \in Ports
    <3>1. "erased" \in Contents
      BY Zenon DEF Contents
    <3>2. <<>> \in Seq(Commands \cup Files) /\ <<>> \in Seq(SpiWords) /\ <<>> \in Seq(Queued)
      BY EmptySeq
    <3>3. [p \in 0..1 |-> "erased"] \in [0..1 -> Contents]
      BY <3>1, Zenon
    <3>4. NewSpi \in Spi
      BY <3>2, <3>3 DEF NewSpi, Spi
    <3> QED
      BY <2>1, <3>2, <3>4, Zenon DEF Ports
  <2>3. <<>> \in Seq(Waits) /\ Len(<<>>) <= 4
    <3> HIDE DEF Waits
    <3> QED
      BY EmptySeq
  <2> QED
    BY <2>1, <2>2, <2>3, Zenon DEF PortOK
<1>5. NewBoard(NewSpi) \in Boards(Spi)
  <2>1. "own" \in Firmware
    BY Zenon DEF Firmware
  <2>2. NewSpi \in Spi
    BY <1>4 DEF Ports
  <2>3. [d \in Dcfebs |-> 0] \in [Dcfebs -> 0 .. WordRange - 1]
    BY BenchAssumption
  <2>4. Reset \in Chain
    BY ResetIdles, IdleTyped, Zenon
  <2> QED
    BY <1>3, <2>1, <2>2, <2>3, <2>4 DEF NewBoard, Boards
<1>6. FaultShows(NewSpi)
  <2>1. /\ NewSpi.half = FALSE /\ NewSpi.addr = "none" /\ NewSpi.timer = "zero" /\ NewSpi.runs = FALSE
        /\ NewSpi.shown = "none" /\ NewSpi.vcfg = "FB" /\ NewSpi.locked = FALSE
        /\ NewSpi.vlocked = FALSE /\ NewSpi.sel = 0 /\ \A x \in 0..1 : NewSpi.rom[x] = "erased"
    BY DEF NewSpi
  <2> QED
    BY <2>1 DEF FaultShows
<1> QED
  BY <1>1, <1>2, <1>4, <1>5, <1>6, ResetIdles, Zenon DEF StandBoards, IdleBoards

(***************************************************************************)
(* The invariant holds at the start and is kept by every step.             *)
(***************************************************************************)
LEMMA StandStarts ==
  ASSUME Init
  PROVE  StandOK
<1>1. PICK s \in Sessions : odmb \in s.odmbs /\ kind \in s.kinds
  BY Zenon DEF Init
<1>2. odmb \in Odmbs /\ kind \in Kinds
  BY <1>1, SessionAssumption
<1>3. TRUE \in BOOLEAN
  OBVIOUS
<1>4. /\ board = NewBoard(NewSpi) /\ is_xdcfeb = TRUE /\ todo = <<>> /\ last = NoReport
      /\ firstTime = TRUE /\ groups_ = <<>> /\ pressed = <<>>
  BY Zenon DEF Init
<1>5. <<>> \in {<<>>, Groups} /\ <<>> \in Buttons \cup {<<>>}
  OBVIOUS
<1> QED
  BY <1>2, <1>3, <1>4, <1>5, NewBoardStands, NothingTyped, Zenon DEF StandOK

\* The files of a session are files.
FilesOK == session.files \in SUBSET Files

\* The session stays what it was at the start.
LEMMA FilesAre == (Init => FilesOK) /\ (FilesOK /\ [Next]_vars => FilesOK')
<1>1. Init => FilesOK
  BY SessionAssumption DEF Init, FilesOK
<1>2. [Next]_vars => session' = session
  <2>1. UNCHANGED vars => session' = session
    BY DEF vars
  <2>2. Next => session' = session
    BY Zenon DEF Next
  <2> QED
    BY <2>1, <2>2, Zenon
<1> QED
  BY <1>1, <1>2, Zenon DEF FilesOK

\* Every test, on whatever board it meets, leaves one that the next can meet.
LEMMA TestsKeep ==
  ASSUME StandOK, FilesOK, LvmbTest \/ DcfebTest \/ LinkTest \/ PromTest, UNCHANGED managerVars
  PROVE  StandOK'
<1>1. CASE LvmbTest
  <2>1. CASE LVMBtest_respond \/ LVMB5test_respond
    <3>1. todo # <<>> /\ (LvmbRespond(LVMB) \/ LvmbRespond(LVMB5))
      BY <2>1, Zenon DEF LVMBtest_respond, LVMB5test_respond, Perform
    <3> QED
      BY <3>1, LvmbKeeps, Zenon
  <2> QED
    BY <1>1, <2>1, LVMB904Keeps, ReadingKeeps, Zenon DEF LvmbTest
<1>2. CASE DcfebTest
  BY <1>2, DCFEBJTAGcontrolKeeps, DCFEBFiberKeeps, DCFEBPulsesKeeps, ButtonKeeps, Zenon DEF DcfebTest
<1>3. CASE LinkTest
  BY <1>3, PRBSKeeps, ClockChipKeeps, CCBRegKeeps, DiscreteLogicKeeps, ButtonKeeps, Zenon DEF LinkTest
<1>4. CASE PromTest
  BY <1>4, SPIcheckKeeps, MCSKeeps, PromButtonKeeps, Zenon DEF PromTest, FilesOK
<1> QED
  BY <1>1, <1>2, <1>3, <1>4, Zenon

\* Every step keeps the invariant.
LEMMA StandSteps ==
  ASSUME StandOK, FilesOK, [Next]_vars
  PROVE  StandOK'
<1>1. CASE Next
  <2>1. CASE (LvmbTest \/ DcfebTest \/ LinkTest \/ PromTest) /\ UNCHANGED <<managerVars, session>>
    BY <2>1, TestsKeep, Zenon
  <2>2. CASE Dies /\ Restarted /\ UNCHANGED session
    BY <2>2, RestartedKeeps
  <2>3. CASE (defaultWebPage \/ ProductionTests \/ Press \/ backToMainPage) /\ UNCHANGED session
    BY <2>3, PagesKeep, PressKeeps, Zenon
  <2> QED
    BY <1>1, <2>1, <2>2, <2>3, Zenon DEF Next
<1>2. CASE UNCHANGED vars
  <2>1. /\ odmb' = odmb /\ kind' = kind /\ board' = board /\ is_xdcfeb' = is_xdcfeb
        /\ todo' = todo /\ last' = last
        /\ firstTime' = firstTime /\ groups_' = groups_ /\ pressed' = pressed
    BY <1>2 DEF vars, benchVars, managerVars
  <2>2. StandBoards' = StandBoards
    BY <1>2, SameFaults DEF vars, benchVars
  <2> QED
    BY <2>1, <2>2, Zenon DEF StandOK
<1> QED
  BY <1>1, <1>2

\* The stand is always ready for the next test: whatever has been asked for,
\* whatever has gone wrong, the JTAG chain is idle, no test value is in a
\* register or in the PROM, and few commands wait in the SPI port.
THEOREM StandIsReady == Spec => []StandOK
<1>1. Init => StandOK /\ FilesOK
  BY StandStarts, FilesAre, Zenon
<1>2. StandOK /\ FilesOK /\ [Next]_vars => (StandOK /\ FilesOK)'
  BY StandSteps, FilesAre, Zenon
<1> QED
  BY <1>1, <1>2, PTL DEF Spec

\* The invariant implies the types.
LEMMA ReadyIsTyped ==
  ASSUME StandOK
  PROVE  BenchTypeOK
<1>1. board \in StandBoards /\ todo \in Seq(Calls) /\ LastOK(last)
  BY Zenon DEF StandOK
<1>2. board \in Boards(Spi) /\ PortOK(board.spi) /\ board.spi \in Ports
  BY <1>1 DEF StandBoards, IdleBoards
<1>3. Len(board.spi.queue) <= 4 /\ Len(board.spi.fifo) <= 4
  BY <1>2, Zenon DEF PortOK
<1>4. \A i \in DOMAIN todo : todo[i].n \in 0 .. MaxRepeats
  <2> TAKE i \in DOMAIN todo
  <2>1. todo[i] \in Calls
    <3> HIDE DEF Calls
    <3> QED
      BY <1>1
  <2> QED
    BY <2>1 DEF Calls
<1>5. last.says \in Verdicts /\ last.trials \in Nat /\ last.glitch \in BOOLEAN
  BY <1>1, Zenon DEF LastOK
<1>6. is_xdcfeb \in BOOLEAN /\ firstTime \in BOOLEAN /\ groups_ \in {<<>>, Groups}
      /\ pressed \in Buttons \cup {<<>>}
  BY Zenon DEF StandOK
<1> QED
  BY <1>2, <1>3, <1>4, <1>5, <1>6, Zenon DEF BenchTypeOK

\* The board and the server have their types, and neither the commands that
\* wait in the SPI port nor the words left in its FIFO pile up: SPIcheck can
\* end at any look, and the next one starts on what it has left.
THEOREM StandIsTyped == Spec => []BenchTypeOK
<1>1. StandOK => BenchTypeOK
  BY ReadyIsTyped
<1> QED
  BY <1>1, StandIsReady, PTL

\* No test leaves a JTAG scan open, whichever kind of DCFEB it has assumed
\* and whichever is connected: the header of the next one is understood.
THEOREM ScansClosed == Spec => []ScansAreClosed
<1>1. StandOK => ScansAreClosed
  <2> SUFFICES ASSUME StandOK PROVE ScansAreClosed
    OBVIOUS
  <2>1. Idles(board.jtag)
    BY BoardParts, Zenon DEF StandOK
  <2> QED
    BY <2>1, IdleTyped, Zenon DEF ScansAreClosed
<1> QED
  BY <1>1, StandIsReady, PTL

\* Wherever SPIcheck ends, by an error or at its last step, and however often
\* it is made, no test value stays in the PROM for a soft reset to load.
THEOREM ValuesRemoved == Spec => []TestValuesAreRemoved
<1>1. StandOK => TestValuesAreRemoved
  <2> SUFFICES ASSUME StandOK PROVE TestValuesAreRemoved
    OBVIOUS
  <2>1. Untested(board.prom)
    BY BoardParts, Zenon DEF StandOK
  <2> QED
    BY <2>1, Zenon DEF Untested, TestValues, TestValuesAreRemoved
<1> QED
  BY <1>1, StandIsReady, PTL

\* A request reaches the test of the button that its page has shown.
LEMMA PressPerforms ==
  ASSUME StandOK, [Next]_vars, pressed = <<>>, pressed' # <<>>, Named(pressed') # "MasterTest"
  PROVE  Len(todo') = 1 /\ Head(todo').test = Named(pressed')
<1>1. Press
  <2>1. ASSUME UNCHANGED managerVars \/ Restarted \/ UNCHANGED pressed PROVE FALSE
    BY <2>1 DEF managerVars, Restarted
  <2>2. ASSUME defaultWebPage \/ ProductionTests \/ backToMainPage PROVE UNCHANGED pressed \/ Restarted
    BY <2>2, Zenon DEF defaultWebPage, ProductionTests, backToMainPage
  <2>3. ~UNCHANGED vars
    BY <2>1 DEF vars, managerVars
  <2> QED
    BY <2>1, <2>2, <2>3, Zenon DEF Next
<1>2. PICK b \in Buttons, n \in 0 .. MaxRepeats, mode \in Modes : groupActionsCallback(b, n, mode)
  BY <1>1, Zenon DEF Press
<1>3. groups_ \in {<<>>, Groups}
  BY Zenon DEF StandOK
<1>4. pressed' = b /\ todo' = IF Named(b) = "MasterTest" THEN MasterTest(mode) ELSE <<Call(Named(b), n)>>
  <2>1. ~Restarted
    BY DEF Restarted
  <2> QED
    BY <1>2, <1>3, <2>1, CallbackFinds
<1>5. todo' = <<Call(Named(b), n)>>
  BY <1>4, Zenon
<1> DEFINE t == Named(b)
<1>6. Named(pressed') = t /\ todo' = <<Call(t, n)>>
  BY <1>4, <1>5, Zenon
<1> HIDE DEF t
<1> QED
  BY <1>6 DEF Call

\* The number that a page sends stands for the button the page has shown, for
\* every button of every group and for pages older than the server: what is
\* made is that button's test, or the server ends.
THEOREM PressedPerformed == Spec => PressedIsPerformed
<1>1. StandOK /\ [Next]_vars =>
        [pressed = <<>> /\ pressed' # <<>> =>
           \/ Named(pressed') = "MasterTest"
           \/ Len(todo') = 1 /\ Head(todo').test = Named(pressed')]_vars
  BY PressPerforms, Zenon
<1> QED
  BY <1>1, StandIsReady, PTL DEF Spec, PressedIsPerformed
=============================================================================
