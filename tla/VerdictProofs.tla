---------------------------- MODULE VerdictProofs ----------------------------
(***************************************************************************)
(* Proofs about what the verdicts of the tests are worth: that PASSED      *)
(* means what it says of a board with a fault.                             *)
(***************************************************************************)
EXTENDS BenchProofs

(***************************************************************************)
(* What a verdict is worth. The board has one fault at most; a test ends   *)
(* with a report that says what it has tried.                              *)
(***************************************************************************)
OneFault == \A f, g \in faults : f = g

\* The faults that escape a test, by what they depend on.
Escapes(test, wrong, xdcfeb, n) ==
  CASE test = "LVMBtest" -> {<<"dead", LVMB.adcs[1]>>}
    [] test = "LVMB5test" -> {<<"dead", LVMB5.adcs[1]>>}
    [] test = "LVMB904" -> {<<"dead", 0>>}
                           \cup (IF xdcfeb \/ wrong THEN {"stuck on"} \X Dcfebs ELSE {})
                           \cup (IF n = 0 THEN {"dead", "supply"} \X (0..6) ELSE {})
    [] test = "DCFEBJTAGcontrol" -> {"mask"} \X Dcfebs
    [] test = "DCFEBFiber" ->
         ({"no resync"} \X (IF wrong /\ n = WordRange - 1 THEN Dcfebs ELSE Dcfebs \ {LastDcfeb}))
         \cup (IF n >= PacketRange THEN {"packets", "crc"} \X Dcfebs ELSE {})
    [] test = "DCFEBPulses" -> {"no pulse"} \X Dcfebs
    [] test = "SPIcheck" -> {"spi"} \X {"NoOp", "Select 0", "Timer reset"}
    [] OTHER -> {}

\* The property after a step, by what the report says.
LEMMA PassedPrimed ==
  ASSUME last'.says = "PASSED" /\ last'.trials > 0 /\ ~last'.glitch =>
           faults' \cap Concerns(last'.test) \subseteq Escapes(last'.test, WrongKind', is_xdcfeb', last'.n)
  PROVE  PassedMeansGood'
<1>1. Misses(last.test)' = Escapes(last'.test, WrongKind', is_xdcfeb', last'.n)
  BY Zenon DEF Misses, Escapes
<1> QED
  BY <1>1, Zenon DEF PassedMeansGood

\* What a report says, and what the end of a test leaves alone.
LEMMA Reported ==
  ASSUME NEW says, NEW trials, NEW glitch, Done(says, trials, glitch)
  PROVE  /\ last'.test = Head(todo).test /\ last'.n = N
         /\ last'.says = says /\ last'.trials = trials /\ last'.glitch = glitch
         /\ faults' = faults /\ kind' = kind /\ odmb' = odmb /\ todo' = Tail(todo)
<1> DEFINE t == Head(todo).test
           m == N
<1>1. last' = Report(t, m, says, trials, glitch)
  BY Zenon DEF Done
<1>2. faults' = faults /\ kind' = kind /\ odmb' = odmb /\ todo' = Tail(todo)
  BY Zenon DEF Done
<1> HIDE DEF t, m
<1>3. /\ last'.test = t /\ last'.n = m
      /\ last'.says = says /\ last'.trials = trials /\ last'.glitch = glitch
  BY <1>1 DEF Report
<1> QED
  BY <1>2, <1>3, Zenon DEF t, m

\* A report is right if a PASSED leaves no fault of its concern.
LEMMA JudgedRight ==
  ASSUME NEW test, Perform(test), NEW says, NEW trials, NEW glitch, Done(says, trials, glitch),
         is_xdcfeb' = is_xdcfeb,
         says = "PASSED" /\ trials > 0 /\ ~glitch =>
           \A f \in faults : f \in Concerns(test) => f \in Escapes(test, WrongKind, is_xdcfeb, N)
  PROVE  PassedMeansGood'
<1>1. /\ last'.test = test /\ last'.n = N
      /\ last'.says = says /\ last'.trials = trials /\ last'.glitch = glitch
      /\ faults' = faults /\ kind' = kind
  BY Reported, Zenon DEF Perform
<1>2. WrongKind' = WrongKind
  BY <1>1, Zenon DEF WrongKind
<1> QED
  BY <1>1, <1>2, PassedPrimed

\* PASSED is said only of what has passed.
LEMMA VerdictIs == ASSUME NEW p, Verdict(p) = "PASSED" PROVE p
  BY Zenon DEF Verdict

\* The faults that each test is there to find.
LEMMA ConcernsAre ==
  /\ Concerns("LVMBtest") = ({"dead", "supply"} \X Range(LVMB.adcs))
                            \cup ({"stays on", "stays off"} \X Range(LVMB.pon))
  /\ Concerns("LVMB5test") = ({"dead", "supply"} \X Range(LVMB5.adcs))
                             \cup ({"stays on", "stays off"} \X Range(LVMB5.pon))
  /\ Concerns("LVMB904") = ({"dead", "supply"} \X (0..6)) \cup ({"stuck on"} \X Dcfebs)
  /\ Concerns("VoltageCurrentTest") = {"voltage"} \X (1..5)
  /\ Concerns("DCFEBJTAGcontrol") = {"mask"} \X Dcfebs
  /\ Concerns("DCFEBFiber") = {"no pulse", "no resync", "packets", "crc"} \X Dcfebs
  /\ Concerns("DCFEBPulses") = {"no pulse"} \X Dcfebs
  /\ Concerns("PCPRBSTest") = {<<"link", 1>>}
  /\ Concerns("DDUPRBSTest") = {<<"link", 2>>}
  /\ Concerns("OTMBPRBSTest") = {<<"link", 3>>}
  /\ Concerns("ClockChipTest") = {<<"clock chip", 0>>}
  /\ Concerns("CCBReg") = ({"ccb line"} \X ((0..10) \ {3})) \cup ({"ccb data", "ccb command"} \X {0})
  /\ Concerns("DiscreteLogicTest") = {<<"user code", 0>>}
  /\ Concerns("SPIcheck") = ({"spi"} \X (Commands \cup {"Enable", "Disable", "Reset FSM"}))
                            \cup ({"cfg"} \X CfgRegs)
                            \cup ({"cfg load", "cfg save", "soft reset"} \X {0})
  /\ Concerns("MCSBackAndForthBPI") = {<<"bpi", 0>>}
  BY Zenon DEF Concerns

\* The faults that escape each test.
LEMMA EscapesAre ==
  /\ \A w, x, n : Escapes("LVMBtest", w, x, n) = {<<"dead", LVMB.adcs[1]>>}
  /\ \A w, x, n : Escapes("LVMB5test", w, x, n) = {<<"dead", LVMB5.adcs[1]>>}
  /\ \A w, x, n : Escapes("LVMB904", w, x, n) =
                 {<<"dead", 0>>} \cup (IF x \/ w THEN {"stuck on"} \X Dcfebs ELSE {})
                 \cup (IF n = 0 THEN {"dead", "supply"} \X (0..6) ELSE {})
  /\ \A w, x, n : Escapes("DCFEBJTAGcontrol", w, x, n) = {"mask"} \X Dcfebs
  /\ \A w, x, n : Escapes("DCFEBFiber", w, x, n) =
                 ({"no resync"} \X (IF w /\ n = WordRange - 1 THEN Dcfebs ELSE Dcfebs \ {LastDcfeb}))
                 \cup (IF n >= PacketRange THEN {"packets", "crc"} \X Dcfebs ELSE {})
  /\ \A w, x, n : Escapes("DCFEBPulses", w, x, n) = {"no pulse"} \X Dcfebs
  /\ \A w, x, n : Escapes("SPIcheck", w, x, n) = {"spi"} \X {"NoOp", "Select 0", "Timer reset"}
  BY Zenon DEF Escapes

\* A faulty link makes errors in whatever is sent.
LEMMA PRBSFinds ==
  ASSUME NEW test, NEW link, PRBSTest(test, link), Concerns(test) = {<<"link", link>>}
  PROVE  PassedMeansGood'
<1>1. Perform(test) /\ is_xdcfeb' = is_xdcfeb
  BY Zenon DEF PRBSTest
<1>2. PICK num_errors \in BitErrors(link, Sent(N)) : Done(Verdict(num_errors = 0), Sent(N), FALSE)
  BY Zenon DEF PRBSTest
<1>3. ASSUME Sent(N) > 0, Faulty("link", link) PROVE Verdict(num_errors = 0) # "PASSED"
  <2>1. BitErrors(link, Sent(N)) = 1..2
    BY <1>3, Zenon DEF BitErrors
  <2>2. num_errors # 0
    BY <1>2, <2>1
  <2> QED
    BY <2>2, VerdictIs, Zenon
<1>4. ASSUME Verdict(num_errors = 0) = "PASSED", Sent(N) > 0
      PROVE  \A f \in faults : f \notin Concerns(test)
  BY <1>3, <1>4, Zenon DEF Faulty
<1> QED
  BY <1>1, <1>2, <1>4, JudgedRight

\* A faulty link to the OTMB loses matches or makes errors.
LEMMA OTMBPRBSFinds ==
  ASSUME OTMBPRBSTest_respond
  PROVE  PassedMeansGood'
<1>1. Perform("OTMBPRBSTest") /\ is_xdcfeb' = is_xdcfeb
  BY Zenon DEF OTMBPRBSTest_respond
<1>2. PICK num_matches \in Matches(Sent(N)), extra \in BitErrors(3, Sent(N)) :
         LET num_errors == IF Sent(N) = 0 THEN 0 ELSE OTMBErrors + extra
         IN Done(Verdict(num_errors = OTMBErrors /\ N > 0 /\ num_matches = N - 1), Sent(N), FALSE)
  BY Zenon DEF OTMBPRBSTest_respond
<1> DEFINE num_errors == IF Sent(N) = 0 THEN 0 ELSE OTMBErrors + extra
           ok == num_errors = OTMBErrors /\ N > 0 /\ num_matches = N - 1
<1>3. Done(Verdict(ok), Sent(N), FALSE)
  BY <1>2
<1>4. ASSUME Sent(N) > 0, Faulty("link", 3), ok PROVE FALSE
  <2>1. BitErrors(3, Sent(N)) = 1..2
    BY <1>4, Zenon DEF BitErrors
  <2>2. num_errors = OTMBErrors + extra
    BY <1>4
  <2> QED
    BY <1>2, <1>4, <2>1, <2>2 DEF OTMBErrors
<1> HIDE DEF ok
<1>5. ASSUME Verdict(ok) = "PASSED", Sent(N) > 0
      PROVE  \A f \in faults : f \notin Concerns("OTMBPRBSTest")
  <2>1. ok
    BY <1>5, VerdictIs
  <2> QED
    BY <1>4, <1>5, <2>1, ConcernsAre, Zenon DEF Faulty
<1> QED
  BY <1>1, <1>3, <1>5, JudgedRight

\* A positive number is not zero.
LEMMA PositiveNumber == \A n \in Nat : n > 0 => n # 0
  OBVIOUS

\* A faulty clock chip fails in every loop.
LEMMA ClockChipFinds ==
  ASSUME StandOK, ClockChipTest_respond
  PROVE  PassedMeansGood'
<1>1. Perform("ClockChipTest") /\ is_xdcfeb' = is_xdcfeb /\ todo # <<>>
  BY Zenon DEF ClockChipTest_respond, Perform
<1>2. PICK bad : /\ bad \in IF N = 0 THEN {{}} ELSE BadLoops(N)
                 /\ Done(Verdict(fail_number(bad, N) = 0), N, FALSE)
  BY Zenon DEF ClockChipTest_respond
<1>3. N \in Nat
  BY <1>1, NumberTyped
<1>4. ASSUME N > 0, Faulty("clock chip", 0) PROVE fail_number(bad, N) # 0
  <2> DEFINE n == N
  <2>1. bad \in (SUBSET (1..n)) \ {{}} /\ n \in Nat
    <3>0. N # 0
      BY <1>3, <1>4, PositiveNumber, Zenon
    <3>1. bad \in BadLoops(n)
      BY <1>2, <3>0, Zenon
    <3>2. BadLoops(n) = (SUBSET (1..n)) \ {{}}
      BY <1>4, Zenon DEF BadLoops
    <3> HIDE DEF n
    <3> QED
      BY <1>3, <3>1, <3>2 DEF n
  <2> HIDE DEF n
  <2> DEFINE S == {i \in 1..n : \E j \in bad : j <= i}
  <2>2. PICK j \in bad : j \in 1..n
    BY <2>1
  <2>3. j \in S
    BY <2>2
  <2>4. IsFiniteSet(S)
    <3>1. IsFiniteSet(1..n)
      BY <2>1, FS_Interval
    <3>2. S \in SUBSET (1..n)
      OBVIOUS
    <3> HIDE DEF S
    <3> QED
      BY <3>1, <3>2, FS_Subset
  <2>5. Cardinality(S) # 0
    BY <2>3, <2>4, FS_EmptySet
  <2> QED
    BY <2>5 DEF fail_number, n
<1>5. ASSUME Verdict(fail_number(bad, N) = 0) = "PASSED", N > 0
      PROVE  \A f \in faults : f \notin Concerns("ClockChipTest")
  <2>1. fail_number(bad, N) = 0
    BY <1>5, VerdictIs, Zenon
  <2> QED
    BY <1>4, <1>5, <2>1, ConcernsAre, Zenon DEF Faulty
<1> QED
  BY <1>1, <1>2, <1>5, JudgedRight

\* A wrong user code is wrong in every repetition.
LEMMA DiscreteLogicFinds ==
  ASSUME StandOK, DiscreteLogicTest_respond
  PROVE  PassedMeansGood'
<1>1. Perform("DiscreteLogicTest") /\ is_xdcfeb' = is_xdcfeb /\ todo # <<>>
  BY Zenon DEF DiscreteLogicTest_respond, Perform
<1>2. N \in Nat
  BY <1>1, NumberTyped
<1>3. CASE Done("NOT PASSED", 0, FALSE)
  <2> DEFINE s == "NOT PASSED"
  <2>1. s # "PASSED"
    OBVIOUS
  <2>2. Done(s, 0, FALSE)
    BY <1>3
  <2> HIDE DEF s
  <2> QED
    BY <1>1, <2>1, <2>2, JudgedRight
<1>4. ASSUME NEW nFails,
             nFails \in IF N > 0 /\ (Faulty("user code", 0) \/ ~Selects(odmb = "ODMB7"))
                       THEN 1..N ELSE {0},
             Done(Verdict(nFails = 0), N, FALSE)
      PROVE  PassedMeansGood'
  <2>1. ASSUME N > 0, Faulty("user code", 0) PROVE nFails # 0
    <3>1. nFails \in 1..N
      BY <1>4, <2>1, Zenon
    <3> DEFINE n == N
    <3>2. nFails \in 1..n /\ n \in Nat
      BY <1>2, <3>1
    <3> HIDE DEF n
    <3> QED
      BY <3>2
  <2>2. ASSUME Verdict(nFails = 0) = "PASSED", N > 0
        PROVE  \A f \in faults : f \notin Concerns("DiscreteLogicTest")
    <3>1. nFails = 0
      BY <2>2, VerdictIs, Zenon
    <3> QED
      BY <2>1, <2>2, <3>1, ConcernsAre, Zenon DEF Faulty
  <2> QED
    BY <1>1, <1>4, <2>2, JudgedRight
<1> QED
  BY <1>3, <1>4, Zenon DEF DiscreteLogicTest_respond

\* A wrong voltage is read.
LEMMA VoltageCurrentFinds ==
  ASSUME VoltageCurrentTest_respond
  PROVE  PassedMeansGood'
<1> DEFINE ok == \A adc \in 1..5 : ~Faulty("voltage", adc)
           trials == 5 * 8
<1>1. Perform("VoltageCurrentTest") /\ is_xdcfeb' = is_xdcfeb /\ Done(Verdict(ok), trials, FALSE)
  BY Zenon DEF VoltageCurrentTest_respond
<1>2. ASSUME ok PROVE \A f \in faults : f \notin Concerns("VoltageCurrentTest")
  <2>1. Concerns("VoltageCurrentTest") = {"voltage"} \X (1..5)
    BY ConcernsAre, Zenon
  <2>2. \A adc \in 1..5 : <<"voltage", adc>> \notin faults
    BY <1>2, Zenon DEF Faulty
  <2> QED
    BY <2>1, <2>2
<1> HIDE DEF ok
<1>3. ASSUME Verdict(ok) = "PASSED" PROVE \A f \in faults : f \notin Concerns("VoltageCurrentTest")
  BY <1>2, <1>3, VerdictIs
<1> QED
  BY <1>1, <1>3, JudgedRight

\* Missing pulses escape DCFEBPulses, and it looks for nothing else.
LEMMA DCFEBPulsesFinds ==
  ASSUME DCFEBPulses_respond
  PROVE  PassedMeansGood'
<1>1. Perform("DCFEBPulses") /\ is_xdcfeb' = is_xdcfeb
  BY Zenon DEF DCFEBPulses_respond
<1>2. \E says, trials : Done(says, trials, FALSE)
  BY Zenon DEF DCFEBPulses_respond
<1>3. \A f : f \in Concerns("DCFEBPulses") => f \in Escapes("DCFEBPulses", WrongKind, is_xdcfeb, N)
  <2>1. Concerns("DCFEBPulses") = {"no pulse"} \X Dcfebs
    BY ConcernsAre, Zenon
  <2>2. Escapes("DCFEBPulses", WrongKind, is_xdcfeb, N) = {"no pulse"} \X Dcfebs
    BY Zenon DEF Escapes
  <2> QED
    BY <2>1, <2>2, Zenon
<1> QED
  BY <1>1, <1>2, <1>3, JudgedRight

\* A report that does not say PASSED is right.
LEMMA UnpassedRight ==
  ASSUME NEW test, Perform(test), is_xdcfeb' = is_xdcfeb, NEW says, says # "PASSED",
         NEW trials, NEW glitch, Done(says, trials, glitch)
  PROVE  PassedMeansGood'
  BY JudgedRight

\* NOT PASSED is never wrong of a fault.
LEMMA NotPassedRight ==
  ASSUME NEW test, Perform(test), is_xdcfeb' = is_xdcfeb,
         NEW trials, NEW glitch, Done("NOT PASSED", trials, glitch)
  PROVE  PassedMeansGood'
<1> DEFINE s == "NOT PASSED"
<1>1. s # "PASSED"
  OBVIOUS
<1>2. Done(s, trials, glitch)
  OBVIOUS
<1> HIDE DEF s
<1> QED
  BY <1>1, <1>2, UnpassedRight

\* Among the readings of a test, those of an ADC that is dead or has a wrong
\* supply are counted once at least for each of the repetitions.
LEMMA WrongCounted ==
  ASSUME NEW S, NEW adcs \in Seq(S), NEW n \in Nat, NEW a, a \in Range(adcs),
         Faulty("supply", a) \/ Faulty("dead", a)
  PROVE  \E c \in Nat : c >= 1 /\ WrongEntries(adcs, n) = 2 * n * c
<1> DEFINE D == DOMAIN adcs
           wrong == {i \in D : Faulty("supply", adcs[i]) \/ Faulty("dead", adcs[i])}
           W == {p \in wrong \X D : p[2] \in Positions(adcs, adcs[p[1]])}
<1>1. D = 1..Len(adcs) /\ Len(adcs) \in Nat
  OBVIOUS
<1>2. IsFiniteSet(D)
  BY <1>1, FS_Interval
<1>3. wrong \in SUBSET D
  OBVIOUS
<1>4. IsFiniteSet(wrong)
  BY <1>2, <1>3, FS_Subset
<1>5. PICK i \in D : adcs[i] = a
  BY DEF Range
<1>6. i \in wrong
  BY <1>5, Zenon
<1> HIDE DEF wrong
<1>7. IsFiniteSet(wrong \X D)
  BY <1>2, <1>4, FS_Product
<1>8. W \in SUBSET (wrong \X D)
  OBVIOUS
<1>9. <<i, i>> \in W
  BY <1>5, <1>6 DEF Positions
<1>10. WrongEntries(adcs, n) = 2 * n * Cardinality(W)
  BY Zenon DEF WrongEntries, wrong
<1> HIDE DEF W
<1>11. IsFiniteSet(W)
  BY <1>7, <1>8, FS_Subset
<1>12. Cardinality(W) \in Nat /\ Cardinality(W) # 0
  BY <1>9, <1>11, FS_CardinalityType, FS_EmptySet
<1> QED
  BY <1>10, <1>12

\* One wrong ADC is more than is tolerated.
LEMMA TooManyWrong ==
  ASSUME NEW n \in Nat, n > 0, NEW c \in Nat, c >= 1, NEW pins \in 0..7, NEW k \in Nat
  PROVE  ~Tolerated(2 * n * c + 0 * k, n, pins) /\ 2 * n * c > 0
<1> DEFINE m == c - 1
           x == n * m
           y == n * pins
<1>1. m \in Nat /\ x \in Nat /\ n * c = n + x
  OBVIOUS
<1>2. y \in Nat /\ y <= 7 * n
  OBVIOUS
<1>3. 2 * n * c = 2 * n + 2 * x /\ 2 * n * pins = 2 * y
  BY <1>1
<1> HIDE DEF m, x, y
<1>4. 0 * k = 0
  OBVIOUS
<1> QED
  BY <1>1, <1>2, <1>3, <1>4 DEF Tolerated

\* Products of positive numbers are positive.
LEMMA SmallNumbers ==
  /\ \A x \in 1..7 : x \in Nat /\ x >= 1
  /\ \A n, c \in Nat : n > 0 /\ c >= 1 => 2 * n * c > 0
<1>1. \A n, c \in Nat : n > 0 /\ c >= 1 => 2 * n * c > 0
  <2> TAKE n, c \in Nat
  <2> HAVE n > 0 /\ c >= 1
  <2> QED
    BY TooManyWrong, 0 \in 0..7, 0 \in Nat
<1> QED
  BY <1>1

\* Faults of different kinds differ.
LEMMA PairsDiffer == \A x, y, a : x # y => <<x, a>> # <<y, a>>
  OBVIOUS

\* An element of a product is a pair.
LEMMA PairOf == ASSUME NEW A, NEW B, NEW f \in A \X B PROVE \E a \in A, b \in B : f = <<a, b>>
  OBVIOUS

\* The two LVMBs have finitely many ADCs.
LEMMA LvmbShape ==
  ASSUME NEW lvmb, lvmb = LVMB \/ lvmb = LVMB5
  PROVE  /\ lvmb.adcs \in Seq(Nat) /\ lvmb.pon \in Seq(Nat) /\ Len(lvmb.adcs) \in 1..7
         /\ Len(lvmb.pon) \in Nat
<1>1. /\ <<0, 4, 1, 5, 3, 6, 2>> \in Seq(Nat) /\ <<3, 6, 4, 5, 4, 5, 3, 6>> \in Seq(Nat)
      /\ <<0, 0, 1, 1>> \in Seq(Nat) /\ <<2, 2, 3, 3, 4, 4>> \in Seq(Nat)
  OBVIOUS
<1>2. /\ Len(<<0, 4, 1, 5, 3, 6, 2>>) = 7 /\ Len(<<3, 6, 4, 5, 4, 5, 3, 6>>) = 8
      /\ Len(<<0, 0, 1, 1>>) = 4 /\ Len(<<2, 2, 3, 3, 4, 4>>) = 6
  OBVIOUS
<1>3. LVMB.adcs = <<0, 4, 1, 5, 3, 6, 2>> /\ LVMB.pon = <<3, 6, 4, 5, 4, 5, 3, 6>>
  BY DEF LVMB
<1>4. LVMB5.adcs = <<0, 0, 1, 1>> /\ LVMB5.pon = <<2, 2, 3, 3, 4, 4>>
  BY DEF LVMB5
<1>5. 7 \in 1..7 /\ 4 \in 1..7 /\ 8 \in Nat /\ 6 \in Nat
  OBVIOUS
<1> QED
  BY <1>1, <1>2, <1>3, <1>4, <1>5, Zenon

\* A switch that cannot be turned off, or on, is seen.
LEMMA SwitchSeen ==
  ASSUME OneFault, NEW lvmb, NEW a, a \in Range(lvmb.pon), ~Faulty("dead", a),
         Faulty("stays off", a) \/ Faulty("stays on", a)
  PROVE  FailsOnOff(lvmb)
<1>1. PICK i \in DOMAIN lvmb.pon : lvmb.pon[i] = a
  BY DEF Range
<1>2. CASE Faulty("stays off", a)
  <2>1. PowerReading(a, TRUE) = "off"
    <3>1. <<"stays on", a>> # <<"stays off", a>>
      <4>1. "stays on" # "stays off"
        BY Zenon
      <4> QED
        BY <4>1, PairsDiffer, Zenon
    <3>2. ~Faulty("stays on", a)
      BY <1>2, <3>1, Zenon DEF OneFault, Faulty
    <3> QED
      BY <1>2, <3>2, Zenon DEF PowerReading
  <2>2. "off" # "160 V" /\ "off" # "on" /\ TRUE \in BOOLEAN
    OBVIOUS
  <2> QED
    BY <1>1, <2>1, <2>2, Zenon DEF FailsOnOff
<1>3. CASE ~Faulty("stays off", a) /\ Faulty("stays on", a)
  <2>1. PowerReading(a, FALSE) = "on"
    BY <1>3, Zenon DEF PowerReading
  <2>2. "on" # "160 V" /\ "on" # "off" /\ FALSE \in BOOLEAN
    OBVIOUS
  <2> QED
    BY <1>1, <2>1, <2>2, Zenon DEF FailsOnOff
<1> QED
  BY <1>2, <1>3, Zenon

Judges(test, lvmb) ==
  /\ Concerns(test) = ({"dead", "supply"} \X Range(lvmb.adcs))
                      \cup ({"stays on", "stays off"} \X Range(lvmb.pon))
  /\ \A w, x, n : Escapes(test, w, x, n) = {<<"dead", lvmb.adcs[1]>>}

\* An LVMB test finds every fault of its ADCs, but for a dead first one.
LEMMA LvmbFinds ==
  ASSUME StandOK, OneFault, NEW test, Perform(test),
         NEW lvmb, lvmb = LVMB \/ lvmb = LVMB5, LvmbRespond(lvmb), Judges(test, lvmb)
  PROVE  PassedMeansGood'
<1> DEFINE L == Len(lvmb.adcs)
           read == Read(lvmb.adcs, N)
           k == Cardinality(Positions(lvmb.adcs, lvmb.adcs[1]))
           Fail(noise) == IF read = 0 THEN 0 ELSE WrongEntries(lvmb.adcs, N) + noise * k
<1>1. is_xdcfeb' = is_xdcfeb /\ todo # <<>>
  BY Zenon DEF LvmbRespond, Perform
<1>2. N \in Nat
  BY <1>1, NumberTyped
<1>3. lvmb.adcs \in Seq(Nat) /\ lvmb.pon \in Seq(Nat) /\ L \in 1..7 /\ Len(lvmb.pon) \in Nat
  BY LvmbShape
<1>4. k \in Nat
  <2>1. DOMAIN lvmb.adcs = 1..L
    BY <1>3
  <2>2. Positions(lvmb.adcs, lvmb.adcs[1]) \in SUBSET (1..L)
    BY <2>1 DEF Positions
  <2>3. IsFiniteSet(1..L)
    BY <1>3, FS_Interval
  <2> HIDE DEF L
  <2> QED
    BY <2>2, <2>3, FS_Subset, FS_CardinalityType
<1>5. CASE Done("NOT PASSED", 1, FALSE)
  BY <1>1, <1>5, NotPassedRight, Zenon
<1>6. ASSUME ~FailsOnOff(lvmb), NEW noise, noise \in {0} \cup Accidents(IF read = 0 THEN {} ELSE 1..MaxNoise),
             Done(Verdict(Tolerated(Fail(noise), N, L)), 2 * Len(lvmb.pon) + read, noise > 0)
      PROVE  PassedMeansGood'
  <2>1. ASSUME ~(noise > 0) PROVE noise = 0
    <3>1. noise = 0 \/ noise \in 1..MaxNoise
      BY <1>6, Zenon DEF Accidents
    <3> QED
      BY <2>1, <3>1
  <2>2. ASSUME Tolerated(Fail(noise), N, L), noise = 0, NEW f \in faults, f \in Concerns(test),
               f \notin Escapes(test, WrongKind, is_xdcfeb, N)
        PROVE  FALSE
    <3>1. N > 0
      <4>1. ASSUME N = 0 PROVE FALSE
        <5>1. read = 0
          <6>1. 2 * N * L = 0
            BY <1>3, <4>1
          <6> QED
            BY <6>1, Zenon DEF Read
        <5>2. Tolerated(0, 0, L)
          BY <2>2, <4>1, <5>1, Zenon
        <5> QED
          BY <1>3, <5>2 DEF Tolerated
      <4> QED
        BY <1>2, <4>1
    <3>2. ASSUME NEW a \in Range(lvmb.adcs), Faulty("supply", a) \/ Faulty("dead", a), ~Faulty("dead", lvmb.adcs[1])
          PROVE  FALSE
      <4>1. PICK c \in Nat : c >= 1 /\ WrongEntries(lvmb.adcs, N) = 2 * N * c
        BY <1>2, <1>3, <3>2, WrongCounted
      <4>2. read # 0
        <5>1. read = 2 * N * L
          BY <3>2, Zenon DEF Read
        <5>2. L \in Nat /\ L >= 1
          BY <1>3, SmallNumbers, Zenon
        <5>3. 2 * N * L > 0
          BY <1>2, <3>1, <5>2, SmallNumbers, Zenon
        <5> HIDE DEF read, L
        <5> QED
          BY <5>1, <5>3
      <4>3. Fail(noise) = 2 * N * c + 0 * k
        BY <2>2, <4>1, <4>2, Zenon
      <4>4. ~Tolerated(2 * N * c + 0 * k, N, L)
        <5>1. L \in 0..7
          BY <1>3
        <5> QED
          BY <1>2, <1>4, <3>1, <4>1, <5>1, TooManyWrong
      <4> QED
        BY <2>2, <4>3, <4>4, Zenon
    <3>3. CASE f \in {"dead", "supply"} \X Range(lvmb.adcs)
      <4>1. PICK what \in {"dead", "supply"}, a \in Range(lvmb.adcs) : f = <<what, a>>
        BY <3>3
      <4>2. f # <<"dead", lvmb.adcs[1]>>
        BY <2>2, Zenon DEF Judges
      <4>3. ~Faulty("dead", lvmb.adcs[1])
        BY <2>2, <4>2, Zenon DEF OneFault, Faulty
      <4>4. Faulty("supply", a) \/ Faulty("dead", a)
        BY <2>2, <4>1, Zenon DEF Faulty
      <4> QED
        BY <3>2, <4>3, <4>4
    <3>4. CASE f \in {"stays on", "stays off"} \X Range(lvmb.pon)
      <4>1. PICK what \in {"stays on", "stays off"}, a \in Range(lvmb.pon) : f = <<what, a>>
        <5> DEFINE W == {"stays on", "stays off"}
                   A == Range(lvmb.pon)
        <5>1. f \in W \X A
          BY <3>4
        <5> HIDE DEF W, A
        <5>2. \E what \in W, a \in A : f = <<what, a>>
          BY <5>1, PairOf
        <5> QED
          BY <5>2, Zenon DEF W, A
      <4>2. <<"dead", a>> # f
        BY <4>1
      <4>3. ~Faulty("dead", a)
        BY <2>2, <4>2, Zenon DEF OneFault, Faulty
      <4>4. Faulty("stays off", a) \/ Faulty("stays on", a)
        BY <2>2, <4>1, Zenon DEF Faulty
      <4> QED
        BY <1>6, <4>3, <4>4, SwitchSeen, Zenon
    <3> QED
      BY <2>2, <3>3, <3>4, Zenon DEF Judges
  <2> DEFINE ok == Tolerated(Fail(noise), N, L)
             trials == 2 * Len(lvmb.pon) + read
             g == noise > 0
  <2>3. Done(Verdict(ok), trials, g)
    BY <1>6
  <2>4. ASSUME ok, ~g PROVE \A f \in faults : f \in Concerns(test) => f \in Escapes(test, WrongKind, is_xdcfeb, N)
    BY <2>1, <2>2, <2>4, Zenon
  <2> HIDE DEF ok, trials, g
  <2> QED
    BY <1>1, <2>3, <2>4, VerdictIs, JudgedRight
<1> HIDE DEF Fail
<1>7. \/ Done("NOT PASSED", 1, FALSE)
      \/ /\ ~FailsOnOff(lvmb)
         /\ \E noise \in {0} \cup Accidents(IF read = 0 THEN {} ELSE 1..MaxNoise) :
              Done(Verdict(Tolerated(Fail(noise), N, L)), 2 * Len(lvmb.pon) + read, noise > 0)
  BY Zenon DEF LvmbRespond, Fail
<1> QED
  BY <1>5, <1>6, <1>7, Zenon

(***************************************************************************)
(* The tests of the DCFEBs.                                                *)
(***************************************************************************)
\* A pair has its two parts.
LEMMA PairsAre == \A x, y, a, b : <<x, a>> = <<y, b>> => x = y /\ a = b
  OBVIOUS

\* Any other fault leaves all inputs as they should be.
LEMMA InputsPresent ==
  ASSUME OneFault, NEW what, NEW x, Faulty(what, x), what \notin {"stuck on", "absent"}
  PROVE  /\ \A d : ~Faulty("stuck on", d) /\ ~Faulty("absent", d)
         /\ board.power => DoneBits = Dcfebs
         /\ ~board.power => DoneBits = {}
<1>1. ASSUME NEW d, NEW other \in {"stuck on", "absent"}, Faulty(other, d) PROVE FALSE
  <2>1. <<other, d>> = <<what, x>>
    BY <1>1, Zenon DEF OneFault, Faulty
  <2>2. other = what
    BY <2>1, PairsAre, Zenon
  <2> QED
    BY <1>1, <2>2, Zenon
<1>2. \A d : ~Faulty("stuck on", d) /\ ~Faulty("absent", d)
  BY <1>1, Zenon
<1>3. \A d : Present(d, board.power) <=> board.power
  BY <1>2, Zenon DEF Present, Powered
<1>4. ASSUME board.power PROVE DoneBits = Dcfebs
  BY <1>3, <1>4, Zenon DEF DoneBits
<1>5. ASSUME ~board.power PROVE DoneBits = {}
  BY <1>3, <1>5, Zenon DEF DoneBits
<1> QED
  BY <1>2, <1>4, <1>5, Zenon

\* The UserCode shows whether the kind that is assumed is the right one.
LEMMA UserCodeShows ==
  ASSUME StandOK, NEW chain, Idles(chain)
  PROVE  /\ WrongKind <=> ~RightKind(kind, is_xdcfeb)
         /\ Scan(kind, chain, ReadUserCode(is_xdcfeb)).at = "idle"
         /\ ~WrongKind => Scan(kind, chain, ReadUserCode(is_xdcfeb)).out = "high half"
         /\ WrongKind => Scan(kind, chain, ReadUserCode(is_xdcfeb)).out = "junk"
<1>1. kind \in Kinds /\ is_xdcfeb \in BOOLEAN
  BY Zenon DEF StandOK
<1>2. WrongKind <=> ~RightKind(kind, is_xdcfeb)
  BY Zenon DEF WrongKind, RightKind
<1>3. PICK ir \in Irs, sel \in Sels, out \in Outs : chain = Between(ir, sel, out)
  BY Zenon DEF Idles
<1>4. \A i, s, o : Between(i, s, o).at = "idle" /\ Between(i, s, o).out = o
  BY DEF Between
<1> DEFINE next == Scan(kind, chain, ReadUserCode(is_xdcfeb))
<1>5. CASE ~WrongKind
  <2>1. ScansTo(kind, chain, ReadUserCode(is_xdcfeb), Between("UserCode", sel, "high half"))
    BY <1>1, <1>2, <1>3, <1>5, UserCodeScanned, Zenon
  <2>2. next = Between("UserCode", sel, "high half")
    BY <2>1, Zenon DEF ScansTo
  <2> HIDE DEF next
  <2>3. next.at = "idle" /\ next.out = "high half"
    <3>1. Between("UserCode", sel, "high half").at = "idle" /\ Between("UserCode", sel, "high half").out = "high half"
      BY <1>4, Zenon
    <3> QED
      BY <2>2, <3>1, Zenon
  <2> USE DEF next
  <2> QED
    BY <1>2, <1>5, <2>3, Zenon
<1>6. CASE WrongKind
  <2>1. PICK i \in {"bypass", "other"} :
             ScansTo(kind, chain, ReadUserCode(is_xdcfeb), Between(i, sel, "junk"))
    BY <1>1, <1>2, <1>3, <1>6, UserCodeScanned, Zenon
  <2>2. next = Between(i, sel, "junk")
    BY <2>1, Zenon DEF ScansTo
  <2> HIDE DEF next
  <2>3. next.at = "idle" /\ next.out = "junk"
    <3>1. Between(i, sel, "junk").at = "idle" /\ Between(i, sel, "junk").out = "junk"
      BY DEF Between
    <3> QED
      BY <2>2, <3>1, Zenon
  <2> USE DEF next
  <2> QED
    BY <1>2, <1>6, <2>3, Zenon
<1> QED
  BY <1>5, <1>6, Zenon

\* Seven readings in each repetition are more than none.
LEMMA SevenReadings ==
  ASSUME NEW n \in Nat, n > 0, NEW c \in Nat, c >= 1
  PROVE  (2 * n * 7) \div 2 # 0 /\ 2 * n * c # 0
<1>1. (2 * n * 7) \div 2 = 7 * n
  OBVIOUS
<1>2. 2 * n * c > 0
  BY SmallNumbers, Zenon
<1> QED
  BY <1>1, <1>2

\* LVMB904 finds what it looks for, but for a dead ADC 0, and for boards that
\* stay on if it takes silence for an answer.
LEMMA LVMB904Finds ==
  ASSUME StandOK, OneFault, LVMB904_respond
  PROVE  PassedMeansGood'
<1> DEFINE chain == Scan(kind, board.jtag, ReadUserCode(is_xdcfeb))
           adcs == <<0, 1, 2, 3, 4, 5, 6>>
           read == Read(adcs, N) \div 2
           ok == read = 0 \/ WrongEntries(adcs, N) = 0
           trials == Cardinality(Dcfebs) + read
<1>1. Perform("LVMB904") /\ is_xdcfeb' = is_xdcfeb /\ todo # <<>>
  BY Zenon DEF LVMB904_respond, Perform
<1>2. N \in Nat /\ Idles(board.jtag) /\ is_xdcfeb \in BOOLEAN
  BY <1>1, NumberTyped, BoardParts, Zenon DEF StandOK
<1>3. \/ Done("NOT PASSED", 1, FALSE)
      \/ Connected904(chain) = {} /\ Done(Verdict(ok), trials, FALSE)
  BY Zenon DEF LVMB904_respond
<1>4. CASE Done("NOT PASSED", 1, FALSE)
  BY <1>1, <1>4, NotPassedRight, Zenon
<1>5. ASSUME NEW f \in faults, ok, f \in {"dead", "supply"} \X (0..6), N # 0, f # <<"dead", 0>>
      PROVE  FALSE
  <2>1. adcs \in Seq(Nat) /\ adcs[1] = 0 /\ Len(adcs) = 7
    OBVIOUS
  <2>2. PICK what \in {"dead", "supply"}, a \in 0..6 : f = <<what, a>>
    BY <1>5, PairOf
  <2>3. a \in Range(adcs)
    <3>1. a + 1 \in DOMAIN adcs /\ adcs[a + 1] = a
      OBVIOUS
    <3> HIDE DEF adcs
    <3> QED
      BY <3>1 DEF Range
  <2> HIDE DEF adcs
  <2>4. Faulty("supply", a) \/ Faulty("dead", a)
    BY <1>5, <2>2, Zenon DEF Faulty
  <2>5. PICK c \in Nat : c >= 1 /\ WrongEntries(adcs, N) = 2 * N * c
    BY <1>2, <2>1, <2>3, <2>4, WrongCounted
  <2>6. ~Faulty("dead", adcs[1])
    BY <1>5, <2>1, Zenon DEF OneFault, Faulty
  <2>7. Read(adcs, N) = 2 * N * 7
    BY <2>1, <2>6, Zenon DEF Read
  <2>8. N > 0
    BY <1>2, <1>5
  <2> QED
    BY <1>2, <1>5, <2>5, <2>7, <2>8, SevenReadings, Zenon
<1> HIDE DEF ok, trials
<1>6. ASSUME Connected904(chain) = {}, ~WrongKind, ~is_xdcfeb, NEW d \in Dcfebs, Faulty("stuck on", d) PROVE FALSE
  <2>1. chain.at = "idle" /\ chain.out = "high half"
    BY <1>2, <1>6, UserCodeShows, Zenon
  <2> HIDE DEF chain
  <2>3. Present(d, FALSE)
    <3>1. ~Faulty("absent", d)
      <4>1. "absent" # "stuck on"
        BY Zenon
      <4>2. <<"absent", d>> # <<"stuck on", d>>
        BY <4>1, PairsAre, Zenon
      <4> QED
        BY <1>6, <4>2, Zenon DEF OneFault, Faulty
    <3> QED
      BY <1>6, <3>1, Zenon DEF Present, Powered
  <2>4. d \in Connected904(chain)
    BY <1>6, <2>1, <2>3, Zenon DEF Connected904
  <2> QED
    BY <1>6, <2>4, Zenon
<1>7. ASSUME Connected904(chain) = {}, Done(Verdict(ok), trials, FALSE) PROVE PassedMeansGood'
  <2>1. ASSUME ok, NEW f \in faults, f \in Concerns("LVMB904"), f \notin Escapes("LVMB904", WrongKind, is_xdcfeb, N)
        PROVE  FALSE
    <3> DEFINE T == {"dead", "supply"} \X (0..6)
               S == {"stuck on"}
    <3>1. f \in T \/ f \in S \X Dcfebs
      BY <2>1, ConcernsAre, Zenon
    <3> DEFINE E == Escapes("LVMB904", WrongKind, is_xdcfeb, N)
    <3>5. E = {<<"dead", 0>>} \cup (IF is_xdcfeb \/ WrongKind THEN S \X Dcfebs ELSE {})
              \cup (IF N = 0 THEN T ELSE {})
      BY Zenon DEF Escapes
    <3>6. f \notin E
      BY <2>1, Zenon
    <3> HIDE DEF E, T, S
    <3>2. f # <<"dead", 0>> /\ (N = 0 => f \notin T) /\ (is_xdcfeb \/ WrongKind => f \notin S \X Dcfebs)
      BY <3>5, <3>6, Zenon
    <3> USE DEF T, S
    <3>3. CASE f \in T
      BY <1>5, <2>1, <3>2, <3>3, Zenon
    <3>4. CASE f \in S \X Dcfebs
      <4> HIDE DEF S
      <4>1. PICK s \in S, d \in Dcfebs : f = <<s, d>>
        BY <3>4, PairOf
      <4>2. s = "stuck on"
        BY Zenon DEF S
      <4>3. Faulty("stuck on", d)
        BY <4>1, <4>2, Zenon DEF Faulty
      <4> QED
        BY <1>6, <1>7, <3>2, <3>4, <4>3, Zenon
    <3> QED
      BY <3>1, <3>3, <3>4, Zenon
  <2>2. ASSUME Verdict(ok) = "PASSED"
        PROVE  \A f \in faults : f \in Concerns("LVMB904") => f \in Escapes("LVMB904", WrongKind, is_xdcfeb, N)
    <3>1. ok
      BY <2>2, Zenon DEF Verdict
    <3> QED
      BY <2>1, <3>1, Zenon
  <2>3. Done(Verdict(ok), trials, FALSE)
    BY <1>7
  <2> QED
    BY <1>1, <2>2, <2>3, JudgedRight, Zenon
<1> QED
  BY <1>3, <1>4, <1>7, Zenon

\* DCFEBJTAGcontrol can pass any mask: all that it looks for may escape it.
LEMMA DCFEBJTAGcontrolFinds ==
  ASSUME DCFEBJTAGcontrol_respond
  PROVE  PassedMeansGood'
<1>1. Perform("DCFEBJTAGcontrol") /\ is_xdcfeb' = is_xdcfeb
  BY Zenon DEF DCFEBJTAGcontrol_respond
<1>2. PICK says, trials, glitch : Done(says, trials, glitch)
  BY Zenon DEF DCFEBJTAGcontrol_respond
<1>3. \A f \in faults : f \in Concerns("DCFEBJTAGcontrol") =>
                      f \in Escapes("DCFEBJTAGcontrol", WrongKind, is_xdcfeb, N)
  BY ConcernsAre, Zenon DEF Escapes
<1> QED
  BY <1>1, <1>2, <1>3, JudgedRight, Zenon


(***************************************************************************)
(* DCFEBFiber: the counter of packets shows as many as asked for only if   *)
(* they have all come.                                                     *)
(***************************************************************************)
LEMMA RestsCounted == ASSUME NEW n \in Nat, NEW P PROVE nCntRst(P, n) \in Nat
<1> DEFINE S == {p \in 2..n : Cardinality(P \cap 1..p) % PacketRange = 0}
<1>1. IsFiniteSet(2..n)
  BY FS_Interval
<1>2. S \in SUBSET (2..n)
  OBVIOUS
<1> HIDE DEF S
<1>3. Cardinality(S) \in Nat
  BY <1>1, <1>2, FS_Subset, FS_CardinalityType
<1> QED
  BY <1>3 DEF nCntRst, S

\* Fewer packets than there are repetitions show as another number.
LEMMA FewerShown ==
  ASSUME NEW n \in Nat, n < PacketRange, NEW P, NEW c \in Nat, c < n
  PROVE  Shown(c, P, n) # n
<1> DEFINE k == nCntRst(P, n)
<1>1. k \in Nat /\ PacketRange \in Nat /\ PacketRange > 0
  BY RestsCounted, DcfebAssumption
<1> HIDE DEF k
<1>2. c % PacketRange = c
  BY <1>1
<1>3. ASSUME k # 0 PROVE k * PacketRange >= PacketRange
  <2> DEFINE j == k - 1
             x == j * PacketRange
  <2>1. j \in Nat
    BY <1>1, <1>3
  <2>2. x \in Nat
    BY <1>1, <2>1, ProductTyped, Zenon
  <2>3. k * PacketRange = x + PacketRange
    BY <1>1, <2>1
  <2> HIDE DEF x
  <2> QED
    BY <1>1, <2>2, <2>3
<1>4. Shown(c, P, n) = c + k * PacketRange
  BY <1>2 DEF Shown, k
<1>5. CASE k = 0
  <2>1. k * PacketRange = 0
    BY <1>1, <1>5
  <2> QED
    BY <1>4, <2>1
<1>6. CASE k # 0
  <2> DEFINE x == k * PacketRange
  <2>1. x \in Nat /\ x >= PacketRange
    BY <1>1, <1>3, <1>6, ProductTyped
  <2> HIDE DEF x
  <2>2. c + x # n
    BY <1>1, <2>1
  <2> QED
    BY <1>4, <2>2 DEF x
<1> QED
  BY <1>5, <1>6

\* If no packet comes, the counter shows 0 after each repetition, and each but
\* the first is taken for a turn of the counter.
LEMMA NoneShown ==
  ASSUME NEW n \in Nat, n > 0
  PROVE  Shown(0, {}, n) # n
<1> DEFINE k == n - 1
<1>1. PacketRange \in Nat /\ PacketRange > 2
  BY DcfebAssumption
<1>2. nCntRst({}, n) = k
  <2>1. Cardinality({}) = 0 /\ Cardinality(2..n) = k
    BY FS_EmptySet, FS_Interval
  <2>2. \A p \in 2..n : {} \cap 1..p = {}
    OBVIOUS
  <2>3. 0 % PacketRange = 0
    BY <1>1
  <2>4. \A p \in 2..n : Cardinality({} \cap 1..p) % PacketRange = 0
    BY <2>1, <2>2, <2>3, Zenon
  <2>5. {p \in 2..n : Cardinality({} \cap 1..p) % PacketRange = 0} = 2..n
    BY <2>4, Zenon
  <2> HIDE DEF k
  <2> QED
    BY <2>1, <2>5, Zenon DEF nCntRst
<1>3. 0 % PacketRange = 0
  BY <1>1
<1> DEFINE x == k * PacketRange
<1>4. Shown(0, {}, n) = 0 + x
  BY <1>2, <1>3, Zenon DEF Shown
<1>5. x # n
  <2> DEFINE y == k * (PacketRange - 3)
  <2>1. k \in Nat /\ PacketRange - 3 \in Nat
    BY <1>1
  <2>2. y \in Nat
    <3> DEFINE q == PacketRange - 3
    <3> HIDE DEF k, q
    <3> QED
      BY <2>1, ProductTyped, Zenon DEF q
  <2>3. x = y + 3 * k
    BY <1>1, <2>1
  <2>4. n = 1 => x = 0
    BY <1>1
  <2> HIDE DEF x, y
  <2>5. CASE n = 1
    BY <2>4, <2>5
  <2>6. CASE n # 1
    BY <2>2, <2>3, <2>6 DEF k
  <2> QED
    BY <2>5, <2>6
<1>6. x \in Int
  BY <1>1
<1> HIDE DEF x
<1> QED
  BY <1>4, <1>5, <1>6

\* Different numbers within the counter show as different ones.
LEMMA OthersShown ==
  ASSUME NEW n \in Nat, NEW P, NEW c \in Nat, NEW e \in Nat, c < PacketRange, e < PacketRange,
         Shown(c, P, n) = Shown(e, P, n)
  PROVE  c = e
<1> DEFINE k == nCntRst(P, n)
           x == k * PacketRange
<1>1. k \in Nat /\ PacketRange \in Nat /\ PacketRange > 0
  BY RestsCounted, DcfebAssumption
<1>2. x \in Nat
  BY <1>1, ProductTyped, Zenon
<1>3. c % PacketRange = c /\ e % PacketRange = e
  BY <1>1
<1>4. Shown(c, P, n) = c + x /\ Shown(e, P, n) = e + x
  BY <1>3 DEF Shown
<1> HIDE DEF x
<1>5. c + x = e + x
  BY <1>4, Zenon
<1> QED
  BY <1>2, <1>5

\* An input that cannot be resynced shows its count again.
LEMMA LastResynced ==
  ASSUME NEW l1a \in Counts, NEW n \in Nat, LastDcfeb \in DoneBits,
         \A l : Resynced(l)[LastDcfeb] = l[LastDcfeb]
  PROVE  Resyncs(l1a, n).after = Resyncs(l1a, n).counts[LastDcfeb]
<1> DEFINE m == LastDcfeb
<1>1. PICK g \in [0 .. m -> Turns] :
            /\ g[0] = [l1a |-> l1a, counts |-> l1a, after |-> 0]
            /\ \A d \in 1 .. m : g[d] = TurnOf(g[d - 1], d, n)
            /\ Resyncs(l1a, n) = g[m]
  BY TurnsTaken, Zenon
<1>2. m \in Dcfebs /\ m \in 1 .. m /\ m - 1 \in 0 .. m
  BY LastInput
<1> DEFINE r == g[m - 1]
           counted == Triggered(r.l1a, n)
           resynced == Resynced(counted)
<1>3. r \in Turns
  BY <1>1, <1>2
<1>4. Resyncs(l1a, n) = TurnOf(r, m, n)
  BY <1>1, <1>2, Zenon
<1> HIDE DEF r
<1>5. TurnOf(r, m, n) = [l1a |-> resynced, counts |-> [r.counts EXCEPT ![m] = counted[m]],
                         after |-> resynced[m]]
  BY Zenon DEF TurnOf, Turn
<1>6. resynced[m] = counted[m]
  OBVIOUS
<1> HIDE DEF counted, resynced
<1>7. m \in DOMAIN r.counts
  BY <1>2, <1>3 DEF Turns, Counts
<1> HIDE DEF m
<1> QED
  BY <1>4, <1>5, <1>6, <1>7 DEF m


\* The number of packets that a DCFEB with a fault of these sends.
LEMMA ArrivalsCounted ==
  ASSUME NEW n \in Nat, NEW d, NEW P, P \in Arrivals(d, n)
  PROVE  /\ P \in SUBSET (1..n) /\ Cardinality(P) \in Nat /\ Cardinality(P) <= n
         /\ n > 0 /\ (Faulty("no pulse", d) \/ Faulty("packets", d)) => Cardinality(P) < n
<1>1. IsFiniteSet(1..n) /\ Cardinality(1..n) = n
  BY FS_Interval
<1>2. \/ P = {} /\ Faulty("no pulse", d)
      \/ P \in (SUBSET (1..n)) \ {1..n}
      \/ P = 1..n /\ ~(n > 0 /\ (Faulty("no pulse", d) \/ Faulty("packets", d)))
  BY Zenon DEF Arrivals
<1> DEFINE bad == Faulty("no pulse", d) \/ Faulty("packets", d)
<1> HIDE DEF bad
<1>3. P \in SUBSET (1..n)
  BY <1>2
<1>4. Cardinality(P) \in Nat /\ Cardinality(P) <= n /\ (Cardinality(P) = n => P = 1..n)
  BY <1>1, <1>3, FS_Subset, FS_CardinalityType
<1>5. ASSUME n > 0, bad PROVE Cardinality(P) # n
  <2>1. P = {} \/ P # 1..n
    BY <1>2, <1>5 DEF bad
  <2>2. 1 \in 1..n
    BY <1>5
  <2> QED
    BY <1>4, <2>1, <2>2
<1>6. n > 0 /\ bad => Cardinality(P) < n
  BY <1>4, <1>5
<1> QED
  BY <1>3, <1>4, <1>6, Zenon DEF bad

\* Bad CRCs are not counted as good ones.
LEMMA CRCsCounted ==
  ASSUME NEW P, IsFiniteSet(P), Cardinality(P) # 0, NEW d, NEW c, c \in GoodCRCs(d, P)
  PROVE  Faulty("crc", d) => c \in Nat /\ c < Cardinality(P)
<1>1. ASSUME Faulty("crc", d) PROVE c \in 0..Cardinality(P) - 1
  <2>1. P # {}
    BY FS_EmptySet
  <2> QED
    BY <1>1, <2>1, Zenon DEF GoodCRCs
<1>2. Cardinality(P) \in Nat
  BY FS_CardinalityType
<1>3. c \in 0..Cardinality(P) - 1 => c \in Nat /\ c < Cardinality(P)
  BY <1>2
<1> QED
  BY <1>1, <1>3, Zenon

\* A DCFEB that misses the pulses does not show the packets asked for.
LEMMA NoneArrived ==
  ASSUME NEW n \in Nat, n > 0, NEW d, NEW P, P \in Arrivals(d, n),
         Shown(Cardinality(P), P, n) = n
  PROVE  ~Faulty("no pulse", d)
<1>1. ASSUME Faulty("no pulse", d) PROVE FALSE
  <2>1. P = {}
    <3>1. Arrivals(d, n) = {{}}
      BY <1>1, Zenon DEF Arrivals
    <3> QED
      BY <3>1
  <2>2. Cardinality({}) = 0
    BY FS_EmptySet
  <2> QED
    BY <2>1, <2>2, NoneShown, Zenon
<1> QED
  BY <1>1, Zenon

\* The counter of L1A's can be read if the kind is the right one.
LEMMA L1ARead ==
  ASSUME StandOK, ~WrongKind,
         NEW chain, chain = Scan(kind, board.jtag, JTAGRead("L1A", 16, is_xdcfeb)
                                                   \o JTAGRead("L1A", 16, is_xdcfeb))
  PROVE  chain.at = "idle" /\ chain.out = "L1A"
<1> DEFINE s == JTAGRead("L1A", 16, is_xdcfeb)
           e == Between("Value", "L1A", "L1A")
<1>1. kind \in Kinds /\ is_xdcfeb \in BOOLEAN /\ Idles(board.jtag)
  BY BoardParts, Zenon DEF StandOK
<1>2. RightKind(kind, is_xdcfeb)
  BY <1>1, Zenon DEF WrongKind, RightKind
<1>3. PICK ir \in Irs, sel \in Sels, out \in Outs : board.jtag = Between(ir, sel, out)
  BY <1>1, Zenon DEF Idles
<1>4. "L1A" \in JtagWords /\ "Value" \in Irs /\ "L1A" \in Sels /\ "L1A" \in Outs
  BY Zenon DEF JtagWords, Irs, Sels, Outs
<1>5. 16 \in Nat /\ 16 > 4
  OBVIOUS
<1>6. ScansTo(kind, board.jtag, s, e)
  BY <1>1, <1>2, <1>3, <1>4, <1>5, RegisterRead, Zenon
<1>7. ScansTo(kind, e, s, e)
  BY <1>1, <1>2, <1>4, <1>5, RegisterRead, Zenon
<1> HIDE DEF s, e
<1>8. ScansTo(kind, board.jtag, s \o s, e)
  BY <1>6, <1>7, ScanThen, Zenon
<1>9. chain = e
  BY <1>8, Zenon DEF ScansTo, s
<1>10. e.at = "idle" /\ e.out = "L1A"
  BY DEF e, Between
<1> QED
  BY <1>9, <1>10, Zenon

\* The least and the greatest word stand for no number that is asked for, but
\* the greatest for itself.
LEMMA CountShown ==
  ASSUME NEW chain, NEW d, NEW c \in 0 .. WordRange - 1, NEW a \in 0 .. WordRange - 1,
         NEW before, before \in ReadCounter(chain, d, c, WordRange),
         NEW after, after \in ReadCounter(chain, d, a, WordRange),
         NEW n \in Nat, n > 0, before = n, d \in DoneBits,
         n # WordRange - 1 \/ (chain.at = "idle" /\ chain.out = "L1A")
  PROVE  before = c /\ after = a
<1> DEFINE read == d \in DoneBits /\ chain.at = "idle" /\ chain.out = "L1A"
<1>1. c % WordRange = c /\ a % WordRange = a
  BY BenchAssumption
<1>2. n # WordRange - 1 => n \notin Junk(WordRange)
  BY BenchAssumption DEF Junk
<1>3. read
  BY <1>2, Zenon DEF ReadCounter
<1>4. before = c % WordRange /\ after = a % WordRange
  BY <1>3, Zenon DEF ReadCounter
<1> QED
  BY <1>1, <1>4


\* If all is shown right, every packet has arrived intact.
LEMMA AllArrived ==
  ASSUME NEW n \in Nat, n > 0, n < PacketRange, NEW d,
         NEW P, P \in Arrivals(d, n), NEW c, c \in GoodCRCs(d, P),
         Shown(c, P, n) = Shown(Cardinality(P), P, n), Shown(Cardinality(P), P, n) = n
  PROVE  ~Faulty("no pulse", d) /\ ~Faulty("packets", d) /\ ~Faulty("crc", d)
<1> DEFINE C == Cardinality(P)
<1>1. /\ P \in SUBSET (1..n) /\ C \in Nat /\ C <= n
      /\ n > 0 /\ (Faulty("no pulse", d) \/ Faulty("packets", d)) => C < n
  BY ArrivalsCounted, Zenon
<1>2. IsFiniteSet(P)
  <2>1. P \in SUBSET (1..n)
    BY <1>1, Zenon
  <2>2. IsFiniteSet(1..n)
    BY FS_Interval
  <2> QED
    BY <2>1, <2>2, FS_Subset
<1>3. C \in Nat /\ C <= n
  BY <1>1, Zenon
<1>4. ~(C < n)
  BY <1>3, FewerShown, Zenon
<1>5. C = n /\ C # 0 /\ C < PacketRange
  <2> HIDE DEF C
  <2> QED
    BY <1>3, <1>4
<1>6. Faulty("crc", d) => c \in Nat /\ c < C
  BY <1>2, <1>5, CRCsCounted, Zenon
<1>7. ASSUME c \in Nat, c < C PROVE FALSE
  <2>1. c < PacketRange /\ c # C
    <3> HIDE DEF C
    <3> QED
      BY <1>3, <1>5, <1>7, DcfebAssumption
  <2> QED
    BY <1>3, <1>5, <1>7, <2>1, OthersShown, Zenon
<1> QED
  BY <1>1, <1>4, <1>6, <1>7, Zenon

\* The last input's counter tells that it has been reset.
LEMMA LastShown ==
  ASSUME NEW l1a \in Counts, NEW n \in Nat, n > 0, DoneBits = Dcfebs,
         NEW m, m = LastDcfeb, \A l : Resynced(l)[m] = l[m], NEW chain,
         n # WordRange - 1 \/ (chain.at = "idle" /\ chain.out = "L1A"),
         NEW before, before \in ReadCounter(chain, m, Resyncs(l1a, n).counts[m], WordRange),
         before = n,
         NEW after, after \in ReadCounter(chain, m, Resyncs(l1a, n).after, WordRange)
  PROVE  after = n
<1> DEFINE resyncs == Resyncs(l1a, n)
<1>1. m \in Dcfebs
  BY LastInput
<1>2. resyncs.after = resyncs.counts[m]
  BY <1>1, LastResynced, Zenon
<1>3. resyncs \in Turns
  BY ResyncsTyped, Zenon
<1>6. /\ before \in ReadCounter(chain, m, resyncs.counts[m], WordRange)
      /\ after \in ReadCounter(chain, m, resyncs.after, WordRange)
  OBVIOUS
<1> DEFINE c == resyncs.counts[m]
           a == resyncs.after
<1> HIDE DEF resyncs
<1>4. a \in 0 .. WordRange - 1 /\ c \in 0 .. WordRange - 1
  BY <1>1, <1>3 DEF Turns, Counts
<1>7. before \in ReadCounter(chain, m, c, WordRange) /\ after \in ReadCounter(chain, m, a, WordRange)
  BY <1>6
<1>8. a = c
  BY <1>2
<1>9. m \in DoneBits
  BY <1>1
<1> HIDE DEF a, c
<1>5. before = c /\ after = a
  BY <1>4, <1>7, <1>9, CountShown
<1> QED
  BY <1>5, <1>8

\* DCFEBFiber finds what it looks for, but for resyncs of other inputs, lost
\* packets when the counter turns, and registers that are not there.
LEMMA DCFEBFiberFinds ==
  ASSUME StandOK, OneFault, DCFEBFiber_respond
  PROVE  PassedMeansGood'
<1> DEFINE n == N
           D == DoneBits
           chain == Scan(kind, board.jtag, JTAGRead("L1A", 16, is_xdcfeb)
                                           \o JTAGRead("L1A", 16, is_xdcfeb))
           resyncs == Resyncs(board.l1a, n)
           m == CHOOSE d \in D : \A e \in D : e <= d
           trials == n * Cardinality(D)
           Came == EachOneOf(D, LAMBDA d: Arrivals(d, n))
           Checked(packets) == EachOneOf(D, LAMBDA d: GoodCRCs(d, packets[d]))
           Counted(packets) == EachOneOf(D, LAMBDA d: L1AofPacket(packets[d], resyncs.counts[d]))
           Before == ReadCounter(chain, m, resyncs.counts[m], WordRange)
           After == ReadCounter(chain, m, resyncs.after, WordRange)
           Right(packets, crcs, L1A_cnt, before, after) ==
             /\ \A d \in D :
                  /\ Shown(crcs[d], packets[d], n) = Shown(Cardinality(packets[d]), packets[d], n)
                  /\ Shown(Cardinality(packets[d]), packets[d], n) = n
                  /\ L1A_cnt[d] = n /\ L1A_cnt[d] = before
             /\ after = 0
<1>1. Perform("DCFEBFiber") /\ is_xdcfeb' = is_xdcfeb /\ todo # <<>>
  BY Zenon DEF DCFEBFiber_respond, Perform
<1>2. n \in Nat /\ n <= MaxRepeats /\ MaxRepeats \in Nat
  <2>1. n \in 0..MaxRepeats
    BY <1>1, NumberTyped, Zenon DEF StandOK
  <2> HIDE DEF n
  <2> QED
    BY <2>1, BenchAssumption
<1>3. board.l1a \in Counts
  BY BoardParts, Zenon DEF StandOK
<1>4. \/ Done("NOT PASSED", 0, FALSE)
      \/ /\ D # {}
         /\ \E packets \in Came :
            \E crcs \in Checked(packets), L1A_cnt \in Counted(packets), before \in Before, after \in After :
              Done(Verdict(Right(packets, crcs, L1A_cnt, before, after)), trials, FALSE)
  BY Zenon DEF DCFEBFiber_respond
<1>5. ASSUME D # {}, NEW packets \in Came, NEW crcs \in Checked(packets), NEW L1A_cnt,
             NEW before \in Before, NEW after \in After,
             Done(Verdict(Right(packets, crcs, L1A_cnt, before, after)), trials, FALSE)
      PROVE  PassedMeansGood'
  <2> DEFINE ok == Right(packets, crcs, L1A_cnt, before, after)
  <2>1. \A d \in D : packets[d] \in Arrivals(d, n) /\ crcs[d] \in GoodCRCs(d, packets[d])
    BY <1>5, Zenon DEF EachOneOf
  <2>2. resyncs \in Turns
    BY <1>2, <1>3, ResyncsTyped
  <2>3. ASSUME NEW what, NEW d \in Dcfebs, Faulty(what, d),
               what \in {"no pulse", "no resync", "packets", "crc"},
               what = "no resync" => d = LastDcfeb /\ (n # WordRange - 1 \/ ~WrongKind),
               what \in {"packets", "crc"} => n < PacketRange, ok, n > 0
        PROVE  FALSE
    <3> DEFINE P == packets[d]
               C == Cardinality(P)
    <3>1. D = Dcfebs
      <4>1. what \notin {"stuck on", "absent"}
        BY <2>3, Zenon
      <4> QED
        BY <1>5, <2>3, <4>1, InputsPresent, Zenon
    <3>2. P \in Arrivals(d, n) /\ crcs[d] \in GoodCRCs(d, P)
      BY <2>1, <3>1, Zenon
    <3>3. Shown(crcs[d], P, n) = Shown(C, P, n) /\ Shown(C, P, n) = n
      BY <2>3, <3>1, Zenon
    <3>4. before = n /\ after = 0
      <4>1. L1A_cnt[d] = n /\ L1A_cnt[d] = before /\ after = 0
        BY <2>3, <3>1, Zenon
      <4> HIDE DEF n
      <4> QED
        BY <4>1, Zenon
    <3>5. ~Faulty("no pulse", d)
      BY <1>2, <2>3, <3>2, <3>3, NoneArrived, Zenon
    <3>6. n < PacketRange => ~Faulty("packets", d) /\ ~Faulty("crc", d)
      BY <1>2, <2>3, <3>2, <3>3, AllArrived, Zenon
    <3>7. what = "no resync" /\ d = LastDcfeb /\ Faulty("no resync", d)
      BY <2>3, <3>5, <3>6, Zenon
    <3>13. ~WrongKind => chain.at = "idle" /\ chain.out = "L1A"
      <4> HIDE DEF ok, resyncs, m, D, Came, Checked, Counted, Before, After, Right
      <4>1. chain = Scan(kind, board.jtag, JTAGRead("L1A", 16, is_xdcfeb)
                                           \o JTAGRead("L1A", 16, is_xdcfeb))
        OBVIOUS
      <4> HIDE DEF chain
      <4> QED
        BY <4>1, L1ARead
    <3>12. n # WordRange - 1 \/ (chain.at = "idle" /\ chain.out = "L1A")
      <4> DEFINE reads == chain.at = "idle" /\ chain.out = "L1A"
                 top == n = WordRange - 1
      <4>1. ~top \/ ~WrongKind
        BY <2>3, <3>7, Zenon
      <4>2. ~WrongKind => reads
        BY <3>13
      <4> HIDE DEF reads, top
      <4>3. ~top \/ reads
        BY <4>1, <4>2, Zenon
      <4> HIDE DEF chain, n
      <4> QED
        BY <4>3, Zenon DEF reads, top
    <3>10. \A l : Resynced(l)[d] = l[d]
      BY <3>7, Zenon DEF Resynced
    <3>8. m = LastDcfeb
      BY <3>1, Zenon DEF LastDcfeb
    <3>11. \A l : Resynced(l)[m] = l[m]
      BY <3>7, <3>8, <3>10, Zenon
    <3>9. after = n
      <4>1. /\ before \in ReadCounter(chain, m, Resyncs(board.l1a, n).counts[m], WordRange)
            /\ after \in ReadCounter(chain, m, Resyncs(board.l1a, n).after, WordRange)
        BY <1>5
      <4> HIDE DEF n, chain, resyncs, m, ok, D
      <4> QED
        BY <1>2, <1>3, <2>3, <3>1, <3>4, <3>8, <3>11, <3>12, <4>1, LastShown, Zenon DEF D
    <3> QED
      BY <2>3, <3>4, <3>9, PositiveNumber, <1>2, Zenon
  <2> HIDE DEF ok
  <2>4. ASSUME Verdict(ok) = "PASSED", trials > 0
        PROVE  \A f \in faults : f \in Concerns("DCFEBFiber") => f \in Escapes("DCFEBFiber", WrongKind, is_xdcfeb, N)
    <3>1. n > 0
      <4>1. Cardinality(D) \in Nat
        BY InputsCounted, Zenon
      <4> DEFINE c == Cardinality(D)
      <4> HIDE DEF n, c
      <4>2. n # 0
        BY <2>4, <4>1 DEF c
      <4> QED
        BY <1>2, <4>2
    <3>2. ok
      BY <2>4, Zenon DEF Verdict
    <3> DEFINE W == {"no pulse", "no resync", "packets", "crc"}
               R == {"no resync"}
               C == {"packets", "crc"}
               junk == WrongKind /\ n = WordRange - 1
               E == (R \X (IF junk THEN Dcfebs ELSE Dcfebs \ {LastDcfeb}))
                    \cup (IF n >= PacketRange THEN C \X Dcfebs ELSE {})
    <3>3. ASSUME NEW f \in faults, f \in W \X Dcfebs, f \notin E PROVE FALSE
      <4>6. n >= PacketRange \/ n < PacketRange
        BY <1>2, DcfebAssumption
      <4> HIDE DEF W, R, C, junk, n
      <4>1. PICK what \in W, d \in Dcfebs : f = <<what, d>>
        BY <3>3, PairOf
      <4>2. Faulty(what, d)
        BY <4>1, Zenon DEF Faulty
      <4>3. what \in R => d = LastDcfeb /\ ~junk
        BY <3>3, <4>1
      <4>4. what \in C => n < PacketRange
        BY <3>3, <4>1, <4>6
      <4>5. /\ what = "no resync" => d = LastDcfeb /\ (n # WordRange - 1 \/ ~WrongKind)
            /\ what \in {"packets", "crc"} => n < PacketRange
        BY <4>3, <4>4, Zenon DEF R, C, junk
      <4>7. what \in {"no pulse", "no resync", "packets", "crc"}
        BY <4>1, Zenon DEF W
      <4> QED
        BY <2>3, <3>1, <3>2, <4>2, <4>5, <4>7, Zenon
    <3>4. /\ Concerns("DCFEBFiber") = W \X Dcfebs
          /\ Escapes("DCFEBFiber", WrongKind, is_xdcfeb, N) = E
      BY ConcernsAre, Zenon DEF Escapes
    <3> HIDE DEF W, E
    <3> QED
      BY <3>3, <3>4, Zenon
  <2>5. Done(Verdict(ok), trials, FALSE)
    BY <1>5, Zenon DEF ok
  <2> HIDE DEF trials
  <2> QED
    BY <1>1, <2>4, <2>5, JudgedRight, Zenon
<1>6. ASSUME Done("NOT PASSED", 0, FALSE) PROVE PassedMeansGood'
  BY <1>1, <1>6, NotPassedRight, Zenon
<1> HIDE DEF D, Came, Checked, Counted, Before, After, Right, trials
<1> QED
  BY <1>4, <1>5, <1>6, Zenon


(***************************************************************************)
(* CCBReg: each line is toggled by one of the first eight pulses, and a    *)
(* line that is stuck is never among those that differ.                    *)
(***************************************************************************)
LEMMA LinesToggled == \A b \in (0..10) \ {3} : \E k \in 1..8 : b \in Toggled(k)
<1>1. /\ 0 \in Toggled(5) /\ 1 \in Toggled(4) /\ 2 \in Toggled(4) /\ 4 \in Toggled(1)
      /\ 5 \in Toggled(2) /\ 6 \in Toggled(4) /\ 7 \in Toggled(3) /\ 8 \in Toggled(8)
      /\ 9 \in Toggled(7) /\ 10 \in Toggled(6)
  BY DEF Toggled, other_bits
<1> HIDE DEF Toggled
<1>2. ASSUME NEW b \in (0..10) \ {3} PROVE \E k \in 1..8 : b \in Toggled(k)
  <2>1. b \in {0, 1, 2, 4, 5, 6, 7, 8, 9, 10}
    OBVIOUS
  <2> QED
    BY <1>1, <2>1
<1> QED
  BY <1>2

\* Each repetition gives eight pulses.
LEMMA EightPulses ==
  ASSUME NEW n \in Nat, n > 0, NEW k \in 1..8
  PROVE  k \in 1..n * Len(other_bits) /\ k # -1 /\ k - 1 # -1
<1>1. Len(other_bits) = 8
  BY DEF other_bits
<1> QED
  BY <1>1

\* A stuck line is seen in one of the eight pulses.
LEMMA StuckUnseen ==
  ASSUME NEW b, b \in (0..10) \ {3}, \A k : b \notin Other(k), NEW n \in Nat, n > 0,
         \A k \in 1..n * Len(other_bits) : GoodPulse(k, -1)
  PROVE  FALSE
<1>1. PICK k \in 1..8 : b \in Toggled(k)
  BY LinesToggled
<1>2. k \in 1..n * Len(other_bits) /\ k # -1 /\ k - 1 # -1
  BY EightPulses
<1>3. Differences(ReadOther(k, -1), ReadOther(k - 1, -1)) = Toggled(k)
  BY <1>2, Zenon DEF GoodPulse
<1>4. ReadOther(k, -1) = Other(k) /\ ReadOther(k - 1, -1) = Other(k - 1)
  BY <1>2, Zenon DEF ReadOther
<1>5. b \notin Differences(Other(k), Other(k - 1))
  BY Zenon DEF Differences
<1> QED
  BY <1>1, <1>3, <1>4, <1>5, Zenon

\* CCBReg finds lines and registers that are stuck.
LEMMA CCBRegFinds ==
  ASSUME StandOK, CCBReg_respond
  PROVE  PassedMeansGood'
<1> DEFINE n == N
           pulses == n * Len(other_bits)
           ok(glitch) == /\ \A k \in 1..pulses : GoodPulse(k, glitch)
                         /\ n > 0 => ~\E reg \in {"ccb data", "ccb command"} : Faulty(reg, 0)
<1>1. Perform("CCBReg") /\ is_xdcfeb' = is_xdcfeb /\ todo # <<>>
  BY Zenon DEF CCBReg_respond, Perform
<1>2. n \in Nat
  BY <1>1, NumberTyped, Zenon
<1>3. PICK glitch : Done(Verdict(ok(glitch)), n, glitch # -1)
  BY Zenon DEF CCBReg_respond
<1> DEFINE good == ok(glitch)
           g == glitch # -1
<1>4. ASSUME good, n > 0, ~g, NEW f \in faults, f \in Concerns("CCBReg") PROVE FALSE
  <2> DEFINE L == {"ccb line"}
             B == (0..10) \ {3}
             R == {"ccb data", "ccb command"}
  <2>1. f \in L \X B \/ f \in R \X {0}
    BY <1>4, ConcernsAre, Zenon
  <2>2. CASE f \in L \X B
    <3> HIDE DEF L, B
    <3>1. PICK x \in L, b \in B : f = <<x, b>>
      BY <2>2, PairOf
    <3>2. Faulty("ccb line", b)
      BY <3>1, Zenon DEF L, Faulty
    <3>3. \A k : b \notin Other(k)
      BY <3>2, Zenon DEF Other
    <3>4. glitch = -1
      BY <1>4, Zenon
    <3>5. \A k \in 1..pulses : GoodPulse(k, -1)
      BY <1>4, <3>4, Zenon
    <3> HIDE DEF n
    <3> QED
      BY <1>2, <1>4, <3>1, <3>3, <3>5, StuckUnseen, Zenon DEF B
  <2>3. CASE f \in R \X {0}
    <3> HIDE DEF R
    <3>1. PICK reg \in R, z \in {0} : f = <<reg, z>>
      BY <2>3, PairOf
    <3>2. reg \in {"ccb data", "ccb command"} /\ z = 0
      BY <3>1, Zenon DEF R
    <3>3. Faulty(reg, 0)
      BY <1>4, <3>1, <3>2, Zenon DEF Faulty
    <3> QED
      BY <1>4, <3>2, <3>3, Zenon
  <2> QED
    BY <2>1, <2>2, <2>3, Zenon
<1> HIDE DEF good, g
<1>5. ASSUME Verdict(good) = "PASSED", n > 0, ~g
      PROVE  \A f \in faults : f \in Concerns("CCBReg") => f \in Escapes("CCBReg", WrongKind, is_xdcfeb, N)
  <2>1. good
    BY <1>5, Zenon DEF Verdict
  <2> QED
    BY <1>4, <1>5, <2>1, Zenon
<1>6. Done(Verdict(good), n, g)
  BY <1>3, Zenon DEF good, g
<1> QED
  BY <1>1, <1>5, <1>6, JudgedRight, Zenon


(***************************************************************************)
(* MCSBackAndForthBPI remembers a load that has failed three times.        *)
(***************************************************************************)
LEMMA RoundRemembers ==
  ASSUME NEW r \in Rounds, r.stop => r.errorType # 0, NEW i \in Nat, NEW fails, NEW remains
  PROVE  /\ Round(r, i, fails, remains).stop => Round(r, i, fails, remains).errorType # 0
         /\ r.errorType # 0 \/ fails > 2 => Round(r, i, fails, remains).errorType # 0
<1> DEFINE q == Round(r, i, fails, remains)
           file == IF i % 2 = 1 THEN "1" ELSE "2"
           bailed == fails > 2
           loaded == HardReset([r.board EXCEPT !.eprom = IF ~bailed THEN file
                                                         ELSE IF remains THEN @ ELSE "none"])
           other == loaded.fw # file
           t == IF other THEN IF file = "1" THEN 3 ELSE 5
                ELSE IF bailed THEN IF file = "1" THEN 2 ELSE 4
                ELSE r.errorType
<1>1. CASE r.stop
  <2>1. q = r
    BY <1>1, Zenon DEF Round
  <2> HIDE DEF q
  <2>2. (q.stop => q.errorType # 0) /\ (r.errorType # 0 \/ fails > 2 => q.errorType # 0)
    BY <1>1, <2>1
  <2> QED
    BY <2>2 DEF q
<1>2. CASE ~r.stop /\ i % 2 = 1 /\ r.board.fw = "none"
  <2>1. q = [r EXCEPT !.errorType = 1, !.stop = TRUE]
    BY <1>2, Zenon DEF Round
  <2> HIDE DEF q
  <2>2. q.errorType = 1
    BY <2>1 DEF Rounds
  <2>3. (q.stop => q.errorType # 0) /\ (r.errorType # 0 \/ fails > 2 => q.errorType # 0)
    BY <2>2
  <2> QED
    BY <2>3 DEF q
<1>3. CASE ~r.stop /\ ~(i % 2 = 1 /\ r.board.fw = "none")
  <2>1. q = [board |-> loaded, errorType |-> t, stop |-> other]
    BY <1>3, Zenon DEF Round
  <2>2. other \/ bailed \/ r.errorType # 0 => t # 0
    <3> HIDE DEF other, bailed, file
    <3> QED
      OBVIOUS
  <2> HIDE DEF q, t, other, loaded
  <2>3. q.errorType = t /\ q.stop = other
    BY <2>1
  <2>4. (q.stop => q.errorType # 0) /\ (r.errorType # 0 \/ fails > 2 => q.errorType # 0)
    BY <2>2, <2>3 DEF bailed
  <2> QED
    BY <2>4 DEF q
<1> QED
  BY <1>1, <1>2, <1>3, Zenon

\* An error in a round is remembered to the end.
LEMMA RoundsRemember ==
  ASSUME NEW b \in IdleBoards, NEW fails, NEW remains \in BOOLEAN, NEW m \in Nat,
         NEW j \in 1..m, fails[j] > 2
  PROVE  RoundsOf(b, fails, remains, m).errorType # 0
<1> DEFINE S == {r \in Rounds : r.stop => r.errorType # 0}
<1>1. PICK g : RoundBy(g, b, fails, remains, m)
  BY RoundsTaken, Zenon
<1>2. /\ g \in [0 .. m -> Rounds] /\ g[0] = RoundsFrom(b)
      /\ \A i \in 1 .. m : g[i] = Round(g[i - 1], i, fails[i], remains)
      /\ RoundsOf(b, fails, remains, m) = g[m]
  BY <1>1, Zenon DEF RoundBy
<1>3. \A i \in 1 .. m : i \in Nat /\ i - 1 \in 0 .. m /\ i \in 0 .. m
  OBVIOUS
<1>4. g[0] \in S
  <2>1. g[0] \in Rounds
    BY <1>2
  <2>2. ~g[0].stop
    BY <1>2 DEF RoundsFrom
  <2> QED
    BY <2>1, <2>2
<1>5. \A i \in 1 .. m : g[i - 1] \in S => g[i] \in S
  BY <1>2, <1>3, RoundRemembers
<1>6. \A i \in 0 .. m : g[i] \in S
  <2> HIDE DEF S
  <2> QED
    BY <1>4, <1>5, StepsTaken
<1>7. \A i \in 1 .. m : g[i - 1].errorType # 0 \/ fails[i] > 2 => g[i].errorType # 0
  BY <1>2, <1>3, <1>6, RoundRemembers
<1> DEFINE T == {i \in 0 .. m : i >= j => g[i].errorType # 0}
<1>8. 0 \in T
  OBVIOUS
<1>9. ASSUME NEW i \in 1 .. m, i - 1 \in T PROVE i \in T
  <2>1. CASE i < j
    BY <2>1, <1>3
  <2>2. CASE i = j
    BY <1>7, <2>2, <1>3
  <2>3. CASE i > j
    <3>1. i - 1 >= j
      BY <2>3
    <3> QED
      BY <1>3, <1>7, <1>9, <3>1
  <2> QED
    BY <2>1, <2>2, <2>3
<1>10. m \in T
  <2> HIDE DEF T
  <2>1. \A i \in 1 .. m : i - 1 \in T => i \in T
    BY <1>9
  <2>2. \A i \in 0 .. m : i \in T
    BY <1>8, <2>1, UpTo
  <2> QED
    BY <2>2
<1> QED
  BY <1>2, <1>10

\* A PROM that fails fails for good, or the readings were wrong.
LEMMA LoadsFail ==
  ASSUME NEW n \in Nat, n > 0, NEW fails, fails \in Loads(n), Faulty("bpi", 0),
         ~((\E i \in 1..2 * n : fails[i] > 0) /\ (\A i \in 1..2 * n : fails[i] <= 2))
  PROVE  \E i \in 1..2 * n : fails[i] > 2
<1> DEFINE each == 1..2 * n
           from(i, f) == [j \in each |-> IF j >= i THEN f ELSE 0]
<1>1. Loads(n) = {from(i, f) : i \in each, f \in 1..3}
  BY DEF Loads
<1>2. PICK i \in each, f \in 1..3 : fails = from(i, f)
  BY <1>1
<1>3. fails[i] = f /\ \A j \in each : fails[j] = f \/ fails[j] = 0
  BY <1>2
<1> HIDE DEF from
<1>4. CASE f = 3
  BY <1>3, <1>4
<1>5. CASE f # 3
  <2>1. fails[i] > 0
    BY <1>3
  <2>2. \A j \in each : fails[j] <= 2
    BY <1>3, <1>5
  <2> QED
    BY <2>1, <2>2
<1> QED
  BY <1>4, <1>5

\* A PROM that cannot be loaded is found, if there is anything to load.
LEMMA MCSFinds ==
  ASSUME StandOK, MCSBackAndForthBPI_respond
  PROVE  PassedMeansGood'
<1> DEFINE r(fails, remains) == RoundsOf(board, fails, remains, 2 * N)
           g(fails) == (\E i \in 1..2 * N : fails[i] > 0) /\ (\A i \in 1..2 * N : fails[i] <= 2)
           Ends(fails, remains) == Done(Verdict(r(fails, remains).errorType = 0), 2 * N, g(fails))
<1>1. Perform("MCSBackAndForthBPI") /\ is_xdcfeb' = is_xdcfeb /\ todo # <<>>
  BY Zenon DEF MCSBackAndForthBPI_respond, Perform
<1>2. board \in IdleBoards /\ N \in Nat
  BY <1>1, NumberTyped, BoardParts, Zenon DEF StandOK
<1>3. \/ Done("silent", 0, FALSE)
      \/ Done("PASSED", 0, FALSE)
      \/ N > 0 /\ \E fails \in Loads(N), remains \in BOOLEAN : Ends(fails, remains)
  BY Zenon DEF MCSBackAndForthBPI_respond, RoundsOf, RoundsFrom
<1>4. CASE Done("silent", 0, FALSE)
  <2>1. "silent" # "PASSED"
    OBVIOUS
  <2> QED
    BY <1>1, <1>4, <2>1, UnpassedRight, Zenon
<1>5. CASE Done("PASSED", 0, FALSE)
  <2>1. ~(0 > 0)
    OBVIOUS
  <2> QED
    BY <1>1, <1>5, <2>1, JudgedRight, Zenon
<1>6. ASSUME N > 0, NEW fails \in Loads(N), NEW remains \in BOOLEAN, Ends(fails, remains)
      PROVE PassedMeansGood'
  <2> DEFINE ok == r(fails, remains).errorType = 0
             gl == g(fails)
             trials == 2 * N
  <2>1. ASSUME ok, ~gl, Faulty("bpi", 0) PROVE FALSE
    <3> DEFINE n == N
    <3> HIDE DEF n
    <3>1. n \in Nat /\ n > 0 /\ fails \in Loads(n)
      BY <1>2, <1>6, Zenon DEF n
    <3>2. ~((\E i \in 1..2 * n : fails[i] > 0) /\ (\A i \in 1..2 * n : fails[i] <= 2))
      BY <2>1, Zenon DEF n
    <3>3. PICK j \in 1..2 * n : fails[j] > 2
      BY <2>1, <3>1, <3>2, LoadsFail, Zenon
    <3>4. 2 * n \in Nat
      BY <3>1
    <3>5. RoundsOf(board, fails, remains, 2 * n).errorType # 0
      BY <1>2, <3>3, <3>4, RoundsRemember, Zenon
    <3> QED
      BY <2>1, <3>5, Zenon DEF n
  <2> HIDE DEF ok, gl
  <2>2. ASSUME Verdict(ok) = "PASSED", ~gl
        PROVE  \A f \in faults : f \in Concerns("MCSBackAndForthBPI") =>
                              f \in Escapes("MCSBackAndForthBPI", WrongKind, is_xdcfeb, N)
    <3>1. ok
      BY <2>2, Zenon DEF Verdict
    <3> QED
      BY <2>1, <2>2, <3>1, ConcernsAre, Zenon DEF Faulty
  <2>3. Done(Verdict(ok), trials, gl)
    BY <1>6, Zenon DEF ok, gl
  <2> HIDE DEF trials
  <2> QED
    BY <1>1, <2>2, <2>3, JudgedRight, Zenon
<1> HIDE DEF Ends
<1> QED
  BY <1>3, <1>4, <1>5, <1>6, Zenon


(***************************************************************************)
(* All steps. A report that does not say PASSED is always right, and so is *)
(* one that stays while what it speaks of does not change.                 *)
(***************************************************************************)
\* A test that reports nothing says nothing wrong.
LEMMA SilentRight ==
  ASSUME NEW trials, NEW glitch, Done("silent", trials, glitch)
  PROVE  PassedMeansGood'
<1> DEFINE s == "silent"
<1>1. s # "PASSED"
  OBVIOUS
<1>2. Done(s, trials, glitch)
  OBVIOUS
<1> HIDE DEF s
<1>3. last'.says # "PASSED"
  BY <1>1, <1>2, Reported, Zenon
<1> QED
  BY <1>3, PassedPrimed, Zenon

\* Before anything is reported, and after the page is left, nothing is said.
LEMMA NothingRight ==
  ASSUME last' = NoReport
  PROVE  PassedMeansGood'
<1> DEFINE s == "silent"
<1>1. s # "PASSED"
  OBVIOUS
<1>2. last'.says = s
  BY NothingTyped, Zenon
<1> HIDE DEF s
<1>3. last'.says # "PASSED"
  BY <1>1, <1>2, Zenon
<1> QED
  BY <1>3, PassedPrimed, Zenon

\* What was right stays right while it stays.
LEMMA StaysRight ==
  ASSUME PassedMeansGood, UNCHANGED <<faults, kind, is_xdcfeb, last>>
  PROVE  PassedMeansGood'
<1>1. faults' = faults /\ kind' = kind /\ is_xdcfeb' = is_xdcfeb /\ last' = last
  OBVIOUS
<1>2. WrongKind' = WrongKind
  BY <1>1, Zenon DEF WrongKind
<1>3. Misses(last.test) = Escapes(last.test, WrongKind, is_xdcfeb, last.n)
  BY Zenon DEF Misses, Escapes
<1>4. last'.says = "PASSED" /\ last'.trials > 0 /\ ~last'.glitch =>
        faults' \cap Concerns(last'.test) \subseteq Escapes(last'.test, WrongKind', is_xdcfeb', last'.n)
  BY <1>1, <1>2, <1>3, Zenon DEF PassedMeansGood
<1> QED
  BY <1>4, PassedPrimed, Zenon

\* The pages and the restarts report nothing.
LEMMA PagesRight ==
  ASSUME PassedMeansGood, groups_ \in {<<>>, Groups},
         Restarted \/ defaultWebPage \/ ProductionTests \/ Press \/ backToMainPage
  PROVE  PassedMeansGood' /\ faults' = faults
<1>1. CASE Restarted
  BY <1>1, NothingRight, Zenon DEF Restarted
<1>2. CASE defaultWebPage
  <2>1. UNCHANGED <<faults, kind, is_xdcfeb, last>>
    BY <1>2, Zenon DEF defaultWebPage, benchVars
  <2> QED
    BY <2>1, StaysRight, Zenon
<1>3. CASE ProductionTests
  BY <1>3, <1>1, Zenon DEF ProductionTests
<1>4. CASE Press
  <2>1. PICK b \in Buttons, n \in 0 .. MaxRepeats, mode \in Modes : groupActionsCallback(b, n, mode)
    BY <1>4, Zenon DEF Press
  <2>2. \/ Restarted
        \/ /\ groups_ = Groups /\ pressed' = b
           /\ todo' = IF Named(b) = "MasterTest" THEN MasterTest(mode) ELSE <<Call(Named(b), n)>>
           /\ UNCHANGED <<faults, odmb, kind, board, is_xdcfeb, last, firstTime, groups_>>
    BY <2>1, CallbackFinds
  <2>3. Restarted \/ UNCHANGED <<faults, kind, is_xdcfeb, last>>
    BY <2>2, Zenon
  <2> QED
    BY <1>1, <2>3, StaysRight, Zenon
<1>5. CASE backToMainPage
  BY <1>5, NothingRight, Zenon DEF backToMainPage
<1> QED
  BY <1>1, <1>2, <1>3, <1>4, <1>5, Zenon

\* Readings that are shown, resets, and the buttons that load or configure.
LEMMA ButtonsRight ==
  ASSUME \/ Show \/ LVMBtest_dos_respond \/ ReprogramDCFEB_respond \/ SetDCFEBMode_respond
         \/ ResetRegisters_respond \/ HardReset_respond \/ LoadMCSviaBPI_respond
         \/ Defaults_respond
  PROVE  PassedMeansGood'
<1>1. Done("silent", 0, FALSE)
  BY Zenon DEF Show, LVMBtest_dos_respond, ReprogramDCFEB_respond, SetDCFEBMode_respond,
       ResetRegisters_respond, HardReset_respond, LoadMCSviaBPI_respond, Defaults_respond
<1> QED
  BY <1>1, SilentRight

\* The tests of the LVMB are right.
LEMMA LvmbTestsFind ==
  ASSUME StandOK, OneFault, LvmbTest
  PROVE  PassedMeansGood'
<1>1. CASE LVMBtest_respond
  <2>1. Judges("LVMBtest", LVMB)
    BY ConcernsAre, EscapesAre, Zenon DEF Judges
  <2> QED
    BY <1>1, <2>1, LvmbFinds, Zenon DEF LVMBtest_respond
<1>2. CASE LVMB5test_respond
  <2>1. Judges("LVMB5test", LVMB5)
    BY ConcernsAre, EscapesAre, Zenon DEF Judges
  <2> QED
    BY <1>2, <2>1, LvmbFinds, Zenon DEF LVMB5test_respond
<1> QED
  BY <1>1, <1>2, LVMB904Finds, VoltageCurrentFinds, ButtonsRight, Zenon DEF LvmbTest

\* The tests of the links, the clock and the CCB are right.
LEMMA LinkTestsFind ==
  ASSUME StandOK, LinkTest
  PROVE  PassedMeansGood'
<1>1. CASE PCPRBSTest_respond
  BY <1>1, PRBSFinds, ConcernsAre, Zenon DEF PCPRBSTest_respond
<1>2. CASE DDUPRBSTest_respond
  BY <1>2, PRBSFinds, ConcernsAre, Zenon DEF DDUPRBSTest_respond
<1> QED
  BY <1>1, <1>2, OTMBPRBSFinds, ClockChipFinds, CCBRegFinds, DiscreteLogicFinds, ButtonsRight,
     Zenon DEF LinkTest


(***************************************************************************)
(* The port between two commands of SPIcheck: on, and no words in its      *)
(* FIFO, or one; and a FIFO that a look at a word v finds wrong.           *)
(***************************************************************************)
ReadWorks == ~Faulty("spi", "Read")
LockSeen == ~Faulty("spi", "Read lock")
VLockSeen == ~Faulty("spi", "Read volatile lock")

Settled == {p \in Ports : p.on /\ FaultShows(p) /\ p.fifo = <<>>}
Single == {p \in Ports : p.on /\ FaultShows(p) /\ (p.fifo = <<>> \/ \E w : p.fifo = <<w>>)}
Wrong(v) == {p \in Ports : p.fifo # <<>> => Head(p.fifo) # v}

\* q is the port p after a command that reads the word w, if it works.
OneRead(p, q, w, works) ==
  /\ q \in Single /\ q.locked = p.locked /\ q.vlocked = p.vlocked
  /\ q.fifo = <<>> \/ (works /\ q.fifo = <<w>>)

\* With no word left, a run is settled.
LEMMA ReadyIdle == \A r \in Fifo(0) \cap Showing : r \in Holding(Settled)
<1> SUFFICES ASSUME NEW r \in Fifo(0), r \in Showing PROVE r \in Holding(Settled)
  OBVIOUS
<1>1. r \in RunStates /\ r.board.spi \in Ports /\ FaultShows(r.board.spi)
  BY DEF Showing, RunStates, IdleBoards
<1>2. r.ok => r.board.spi.on /\ Len(r.board.spi.fifo) <= 0
  BY Zenon DEF Fifo
<1>3. r.board.spi.fifo \in Seq(SpiWords)
  BY <1>1 DEF Ports, Spi
<1> DEFINE f == r.board.spi.fifo
<1>4. f \in Seq(SpiWords) /\ (r.ok => Len(f) <= 0)
  BY <1>2, <1>3
<1> HIDE DEF f, SpiWords
<1>5. r.ok => f = <<>>
  BY <1>4
<1> QED
  BY <1>1, <1>2, <1>5 DEF Holding, Settled, f

\* Commands that read nothing, looks, and taking a word, leave the port idle.
LEMMA IdleCommands ==
  ASSUME NEW p \in Settled, NEW c \in Quiet
  PROVE  Port(p, c) \in Settled
<1>1. p \in Ports /\ p.on /\ FaultShows(p) /\ p.fifo = <<>> /\ c \in Queued /\ c \in PortCommands
  BY DEF Settled, Quiet, PortCommands
<1>2. /\ Port(p, c) \in Ports /\ Port(p, c).on = p.on
      /\ Len(Port(p, c).fifo) = Len(p.fifo)
  BY <1>1, PortObeys, Zenon
<1>3. FaultShows(Port(p, c))
  BY <1>1, PortShows, Zenon
<1> DEFINE f == Port(p, c).fifo
<1>4. f \in Seq(SpiWords) /\ Len(f) = 0
  BY <1>1, <1>2 DEF Ports, Spi
<1> HIDE DEF f, SpiWords
<1>5. f = <<>>
  BY <1>4
<1> QED
  BY <1>1, <1>2, <1>3, <1>5, Zenon DEF Settled, f

\* A command that reads pushes its word, or none if it is faulty.
LEMMA ReadsOne ==
  ASSUME NEW p \in Settled, NEW c \in Queued \ Files, NEW w \in SpiWords,
         ~Faulty("spi", c) /\ ~p.half => Obey(p, c) = Pushed(p, <<w>>)
  PROVE  OneRead(p, Port(p, c), w, ~Faulty("spi", c))
<1> DEFINE q == Obey(p, c)
           works == ~Faulty("spi", c)
<1>1. p \in Ports /\ p \in Spi /\ p.on /\ FaultShows(p) /\ p.fifo = <<>> /\ c \in PortCommands
  BY DEF Settled, PortCommands, Ports
<1>2. Port(p, c) = q
  BY <1>1, PortOn, Zenon
<1>3. q \in Ports /\ FaultShows(q) /\ q.on = p.on
  BY <1>1, <1>2, PortShows, ObeyedPort, Zenon
<1>4. Command(c) = c
  BY CommandOf, Zenon
<1>5. /\ q.locked = p.locked /\ q.vlocked = p.vlocked
      /\ q.fifo = <<>> \/ (works /\ q.fifo = <<w>>)
  <2>1. CASE ~works
    BY <1>1, <1>4, <2>1, DoesNothing, Zenon
  <2>2. CASE works /\ p.half
    <3> DEFINE a == IF c = "AddrLo" THEN "FF0000" ELSE "other"
    <3>1. Obey(p, c) = [p EXCEPT !.half = FALSE, !.addr = a]
      BY <1>4, <2>2, DoesHalf, Zenon
    <3> HIDE DEF a, works
    <3>2. q.locked = p.locked /\ q.vlocked = p.vlocked /\ q.fifo = p.fifo
      BY <1>1, <3>1 DEF Spi
    <3> QED
      BY <1>1, <3>2
  <2>3. CASE works /\ ~p.half
    <3> DEFINE u == p.fifo \o <<w>>
    <3>1. Obey(p, c) = [p EXCEPT !.fifo = u]
      BY <2>3, Zenon DEF Pushed
    <3>2. u = <<w>>
      BY <1>1
    <3> HIDE DEF u, works
    <3>3. q.locked = p.locked /\ q.vlocked = p.vlocked /\ q.fifo = u
      BY <1>1, <3>1 DEF Spi
    <3> QED
      BY <2>3, <3>2, <3>3
  <2> QED
    BY <2>1, <2>2, <2>3
<1> HIDE DEF q, works
<1>6. q \in Single
  BY <1>1, <1>3, <1>5 DEF Single
<1>7. OneRead(p, q, w, works)
  BY <1>5, <1>6, Zenon DEF OneRead
<1> QED
  BY <1>2, <1>7, Zenon DEF works

\* What the three commands read that read a word.
LEMMA ReadsAre ==
  ASSUME NEW p \in Settled
  PROVE  /\ OneRead(p, Port(p, "Read"), IF p.addr = "FF0000" THEN p.rom[p.sel] ELSE "erased", ReadWorks)
         /\ OneRead(p, Port(p, "Read lock"), IF p.locked THEN "0" ELSE "1", LockSeen)
         /\ OneRead(p, Port(p, "Read volatile lock"), IF p.vlocked THEN "1" ELSE "0", VLockSeen)
<1>1. /\ "Read" \in Queued \ Files /\ "Read lock" \in Queued \ Files
      /\ "Read volatile lock" \in Queued \ Files
  BY PromAssumption, Zenon DEF Queued, Commands
<1>2. p \in Spi
  BY DEF Settled, Ports
<1>3. "erased" \in SpiWords /\ "0" \in SpiWords /\ "1" \in SpiWords
  BY Zenon DEF SpiWords, Contents
<1>4. p.rom[p.sel] \in SpiWords
  <2>1. "erased" \in Contents
    BY Zenon DEF Contents
  <2>2. p.rom[p.sel] \in Contents
    BY <1>2, <2>1, RomTyped, Zenon
  <2> QED
    BY <2>2, FileWords, Zenon
<1>5. OneRead(p, Port(p, "Read"), IF p.addr = "FF0000" THEN p.rom[p.sel] ELSE "erased", ReadWorks)
  <2> DEFINE w == IF p.addr = "FF0000" THEN p.rom[p.sel] ELSE "erased"
  <2>1. w \in SpiWords
    BY <1>3, <1>4, Zenon
  <2>2. ~Faulty("spi", "Read") /\ ~p.half => Obey(p, "Read") = Pushed(p, <<w>>)
    BY DoesRead, Zenon
  <2> HIDE DEF w
  <2>3. OneRead(p, Port(p, "Read"), w, ~Faulty("spi", "Read"))
    BY <1>1, <2>1, <2>2, ReadsOne, Zenon
  <2> QED
    BY <2>3, Zenon DEF w, ReadWorks
<1>6. OneRead(p, Port(p, "Read lock"), IF p.locked THEN "0" ELSE "1", LockSeen)
  <2> DEFINE w == IF p.locked THEN "0" ELSE "1"
  <2>1. w \in SpiWords
    BY <1>3, Zenon
  <2>2. ~Faulty("spi", "Read lock") /\ ~p.half => Obey(p, "Read lock") = Pushed(p, <<w>>)
    BY DoesReadLock, Zenon
  <2> HIDE DEF w
  <2>3. OneRead(p, Port(p, "Read lock"), w, ~Faulty("spi", "Read lock"))
    BY <1>1, <2>1, <2>2, ReadsOne, Zenon
  <2> QED
    BY <2>3, Zenon DEF w, LockSeen
<1>7. OneRead(p, Port(p, "Read volatile lock"), IF p.vlocked THEN "1" ELSE "0", VLockSeen)
  <2> DEFINE w == IF p.vlocked THEN "1" ELSE "0"
  <2>1. w \in SpiWords
    BY <1>3, Zenon
  <2>2. ~Faulty("spi", "Read volatile lock") /\ ~p.half => Obey(p, "Read volatile lock") = Pushed(p, <<w>>)
    BY DoesReadVolatileLock, Zenon
  <2> HIDE DEF w
  <2>3. OneRead(p, Port(p, "Read volatile lock"), w, ~Faulty("spi", "Read volatile lock"))
    BY <1>1, <2>1, <2>2, ReadsOne, Zenon
  <2> QED
    BY <2>3, Zenon DEF w, VLockSeen
<1> QED
  BY <1>5, <1>6, <1>7, Zenon

\* Commands and looks from a settled port.
LEMMA IdleMakes ==
  ASSUME NEW M \in SUBSET BOOLEAN
  PROVE  /\ \A c \in Quiet : Makes(Holding(Settled), Do(c), Holding(Settled), M)
         /\ \A c \in {"Read", "Read lock", "Read volatile lock"} :
               Makes(Holding(Settled), Do(c), Holding(Single), M)
         /\ \A v : Makes(Holding(Single), See("word", v), Holding(Settled), M)
         /\ \A v : Makes(Holding(Wrong(v)), See("word", v), Failed, M)
         /\ \A A, w, v : w # "word" => Makes(Holding(A), See(w, v), Holding(A), M)
<1>1. ASSUME NEW c \in Quiet PROVE Makes(Holding(Settled), Do(c), Holding(Settled), M)
  <2>1. c \in PortCommands
    BY Zenon DEF Quiet, PortCommands
  <2> QED
    BY <2>1, IdleCommands, CommandMakes, Zenon
<1>2. ASSUME NEW c \in {"Read", "Read lock", "Read volatile lock"}
      PROVE  Makes(Holding(Settled), Do(c), Holding(Single), M)
  <2>1. c \in PortCommands
    BY Zenon DEF PortCommands, Queued, Commands
  <2>2. \A p \in Settled : Port(p, c) \in Single
    BY ReadsAre, Zenon DEF OneRead
  <2> QED
    BY <2>1, <2>2, CommandMakes, Zenon
<1>3. ASSUME NEW v PROVE Makes(Holding(Single), See("word", v), Holding(Settled), M)
  <2>1. ASSUME NEW p \in Ports, p \in Single, p.fifo # <<>> PROVE TakenPort(p) \in Settled
    <3> DEFINE q == TakenPort(p)
               t == Tail(p.fifo)
    <3>1. PICK w : p.fifo = <<w>>
      BY <2>1 DEF Single
    <3>2. t = <<>>
      BY <3>1
    <3>3. q = [p EXCEPT !.fifo = t]
      BY <2>1, Zenon DEF TakenPort
    <3> HIDE DEF t
    <3>4. <<>> \in Seq(SpiWords)
      OBVIOUS
    <3>5. q \in Ports /\ q.on = p.on /\ q.fifo = <<>>
      BY <3>2, <3>3, <3>4 DEF Ports, Spi
    <3>6. p.on /\ FaultShows(p)
      BY <2>1 DEF Single
    <3>7. FaultShows(q)
      BY <3>6, PortShows, Zenon
    <3> HIDE DEF q
    <3>8. q \in Settled
      BY <3>5, <3>6, <3>7 DEF Settled
    <3> QED
      BY <3>8 DEF q
  <2> QED
    BY <2>1, WordMakes, Zenon
<1>4. ASSUME NEW v PROVE Makes(Holding(Wrong(v)), See("word", v), Failed, M)
  <2>1. \A p \in Ports : p \in Wrong(v) /\ p.fifo # <<>> /\ Head(p.fifo) = v => TakenPort(p) \in {}
    BY Zenon DEF Wrong
  <2>2. Makes(Holding(Wrong(v)), See("word", v), Holding({}), M)
    BY <2>1, WordMakes, Zenon
  <2> QED
    BY <2>2, HoldingNone, Zenon
<1>5. ASSUME NEW A, NEW w, NEW v, w # "word" PROVE Makes(Holding(A), See(w, v), Holding(A), M)
  BY <1>5, SeeMakes, Zenon
<1> QED
  BY <1>1, <1>2, <1>3, <1>4, <1>5, Zenon

(***************************************************************************)
(* The locks of the PROM.                                                  *)
(***************************************************************************)
Locked == {p \in Settled : p.locked}
VLocked == {p \in Settled : p.vlocked}
Claims(v) == {p \in Single : p.fifo # <<>> /\ Head(p.fifo) = "0" => p.locked = v}
VClaims(v) == {p \in Single : p.fifo # <<>> /\ Head(p.fifo) = "1" => p.vlocked = v}

\* Until it is unlocked, a PROM stays locked.
LEMMA LockedStays ==
  ASSUME NEW c \in Quiet
  PROVE  /\ ~UnlockWorks => \A p \in Locked : Port(p, c) \in Locked
         /\ ~UnlockVWorks => \A p \in VLocked : Port(p, c) \in VLocked
<1>1. ASSUME NEW p \in Settled PROVE Port(p, c) \in Settled /\ Moved(p, Port(p, c))
  <2>1. p \in Ports /\ p \in Spi /\ p.on /\ c \in Queued
    BY DEF Settled, Ports, Quiet
  <2>2. Moved(p, Obey(p, c)) /\ Port(p, c) = Obey(p, c)
    BY <2>1, ObeyMoves, PortOn, Zenon
  <2> QED
    BY <2>2, IdleCommands, Zenon
<1>2. ASSUME NEW p, NEW q, Moved(p, q)
      PROVE  (~UnlockWorks /\ p.locked => q.locked) /\ (~UnlockVWorks /\ p.vlocked => q.vlocked)
  BY <1>2 DEF Moved
<1> QED
  BY <1>1, <1>2, Zenon DEF Locked, VLocked

\* The word that is read tells whether it is locked; it is not if the
\* command that locks it does nothing.
LEMMA LockRead ==
  ASSUME NEW p \in Settled
  PROVE  /\ Port(p, "Read lock") \in Single /\ Port(p, "Read volatile lock") \in Single
         /\ ~LockWorks \/ ~LockSeen => Port(p, "Read lock") \in Wrong("0")
         /\ Port(p, "Read lock") \in Claims(TRUE)
         /\ p.locked => Port(p, "Read lock") \in Wrong("1")
         /\ ~LockVWorks \/ ~VLockSeen => Port(p, "Read volatile lock") \in Wrong("1")
         /\ Port(p, "Read volatile lock") \in VClaims(TRUE)
         /\ p.vlocked => Port(p, "Read volatile lock") \in Wrong("0")
<1> DEFINE q == Port(p, "Read lock")
           u == Port(p, "Read volatile lock")
           w == IF p.locked THEN "0" ELSE "1"
           v == IF p.vlocked THEN "1" ELSE "0"
<1>1. OneRead(p, q, w, LockSeen) /\ OneRead(p, u, v, VLockSeen)
  BY ReadsAre, Zenon
<1>2. (~LockWorks => ~p.locked) /\ (~LockVWorks => ~p.vlocked)
  BY DEF Settled, FaultShows
<1>3. p.locked \in BOOLEAN /\ p.vlocked \in BOOLEAN
  BY DEF Settled, Ports, Spi
<1> HIDE DEF q, u
<1>4. /\ q \in Single /\ q \in Ports /\ q.locked = p.locked
      /\ q.fifo = <<>> \/ (LockSeen /\ q.fifo = <<w>>)
      /\ u \in Single /\ u \in Ports /\ u.vlocked = p.vlocked
      /\ u.fifo = <<>> \/ (VLockSeen /\ u.fifo = <<v>>)
  BY <1>1 DEF OneRead, Single
<1>5. /\ w \in {"0", "1"} /\ (w = "0" <=> p.locked)
      /\ v \in {"0", "1"} /\ (v = "1" <=> p.vlocked)
  BY <1>3
<1> HIDE DEF w, v
<1>6. Head(<<w>>) = w /\ Head(<<v>>) = v
  OBVIOUS
<1>7. (q.fifo # <<>> => LockSeen /\ Head(q.fifo) = w) /\ (u.fifo # <<>> => VLockSeen /\ Head(u.fifo) = v)
  BY <1>4, <1>6
<1>8. /\ ~LockWorks \/ ~LockSeen => q \in Wrong("0")
      /\ p.locked => q \in Wrong("1")
  BY <1>2, <1>3, <1>4, <1>5, <1>7 DEF Wrong
<1>9. q \in Claims(TRUE)
  BY <1>3, <1>4, <1>5, <1>7 DEF Claims
<1>10. /\ ~LockVWorks \/ ~VLockSeen => u \in Wrong("1")
       /\ p.vlocked => u \in Wrong("0")
  BY <1>2, <1>3, <1>4, <1>5, <1>7 DEF Wrong
<1>11. u \in VClaims(TRUE)
  BY <1>3, <1>4, <1>5, <1>7 DEF VClaims
<1> QED
  BY <1>4, <1>8, <1>9, <1>10, <1>11 DEF q, u

\* A look that passes shows that the lock has been set.
LEMMA LockLooks ==
  ASSUME NEW M \in SUBSET BOOLEAN
  PROVE  /\ Makes(Holding(Claims(TRUE)), See("word", "0"), Holding(Locked), M)
         /\ Makes(Holding(VClaims(TRUE)), See("word", "1"), Holding(VLocked), M)
<1>1. ASSUME NEW p \in Ports, p \in Single, p.fifo # <<>>
      PROVE  /\ TakenPort(p) \in Settled /\ TakenPort(p).locked = p.locked
             /\ TakenPort(p).vlocked = p.vlocked
  <2> DEFINE q == TakenPort(p)
             t == Tail(p.fifo)
  <2>1. PICK w : p.fifo = <<w>>
    BY <1>1 DEF Single
  <2>2. t = <<>>
    BY <2>1
  <2>3. q = [p EXCEPT !.fifo = t]
    BY <1>1, Zenon DEF TakenPort
  <2> HIDE DEF t
  <2>4. <<>> \in Seq(SpiWords)
    OBVIOUS
  <2>5. q \in Ports /\ q.on = p.on /\ q.fifo = <<>> /\ q.locked = p.locked /\ q.vlocked = p.vlocked
    BY <2>2, <2>3, <2>4 DEF Ports, Spi
  <2>6. p.on /\ FaultShows(p)
    BY <1>1 DEF Single
  <2>7. FaultShows(q)
    BY <2>6, PortShows, Zenon
  <2> HIDE DEF q
  <2>8. q \in Settled
    BY <2>5, <2>6, <2>7 DEF Settled
  <2> QED
    BY <2>5, <2>8 DEF q
<1>2. \A p \in Ports : p \in Claims(TRUE) /\ p.fifo # <<>> /\ Head(p.fifo) = "0" => TakenPort(p) \in Locked
  BY <1>1 DEF Claims, Locked
<1>3. \A p \in Ports : p \in VClaims(TRUE) /\ p.fifo # <<>> /\ Head(p.fifo) = "1" => TakenPort(p) \in VLocked
  BY <1>1 DEF VClaims, VLocked
<1> QED
  BY <1>2, <1>3, WordMakes, Zenon

(***************************************************************************)
(* Goes, as far as the parts of SPIcheck need it.                          *)
(***************************************************************************)
LEMMA GoesLess ==
  ASSUME NEW P, NEW R, NEW s, NEW Q, NEW M, Goes(P, s, Q, M), \A r \in R : r \in P
  PROVE  Goes(R, s, Q, M)
  BY Zenon DEF Goes, Leads

\* An error that the first part finds is an error of the whole.
LEMMA GoesWrong ==
  ASSUME NEW P, NEW s, NEW M, NEW t \in Seq(AllSteps), Goes(P, s, Failed, M)
  PROVE  Goes(P, s \o t, Failed, M)
  BY FailedGoes, GoesOn, Zenon

\* The commands that push no words.
LEMMA QuietNames ==
  \A c \in {"NoOp", "AddrHi", "AddrLo", "Erase", "Write D3B", "Timer reset", "Timer start",
            "Timer stop", "Read register", "Read volatile", "Write volatile 0B",
            "Write volatile FB", "Select 0", "Select 1", "Lock", "Unlock",
            "Lock volatile", "Unlock volatile"} \cup Files : c \in Quiet /\ c \in Queued /\ c \in PortCommands
<1>1. ASSUME NEW c \in {"NoOp", "AddrHi", "AddrLo", "Erase", "Write D3B", "Timer reset", "Timer start",
               "Timer stop", "Read register", "Read volatile", "Write volatile 0B",
               "Write volatile FB", "Select 0", "Select 1", "Lock", "Unlock",
               "Lock volatile", "Unlock volatile"}
      PROVE  c \in Quiet
  <2>1. c \in Queued
    BY Zenon DEF Queued, Commands
  <2>2. c \notin {"Read", "Read ID", "Read lock", "Read volatile lock"}
    BY Zenon
  <2> QED
    BY <2>1, <2>2, Zenon DEF Quiet
<1>2. ASSUME NEW file \in Files PROVE file \in Quiet
  <2>1. file \notin {"Read", "Read ID", "Read lock", "Read volatile lock"}
    BY PromAssumption, Zenon
  <2> QED
    BY <2>1, Zenon DEF Quiet, Queued
<1>3. \A c \in Quiet : c \in Queued /\ c \in PortCommands
  BY Zenon DEF Quiet, PortCommands
<1> QED
  BY <1>1, <1>2, <1>3, Zenon

\* The address is set without a change to a lock.
LEMMA AddressKeeps ==
  ASSUME NEW A, NEW M \in SUBSET BOOLEAN,
         \A c \in {"AddrHi", "AddrLo"} : Makes(Holding(A), Do(c), Holding(A), M)
  PROVE  Goes(Holding(A), Address, Holding(A), M)
<1>1. Address \in Seq(AllSteps)
  BY PlainCommands, PlainGoes, ShortSequences, Zenon DEF Address
<1>2. Leads(Holding(A), Address, Holding(A), M)
  BY HoldingSets, TwoStepsLead, Zenon DEF Address
<1> QED
  BY <1>1, <1>2, Zenon DEF Goes

\* The locks: each of the six commands that set and read them.
LEMMA LocksFinds ==
  ASSUME NEW M \in SUBSET BOOLEAN,
         \/ ~LockWorks \/ ~LockSeen \/ ~UnlockWorks
         \/ ~LockVWorks \/ ~VLockSeen \/ ~UnlockVWorks
  PROVE  Goes(Holding(Settled), Locks, Failed, M)
<1> HIDE DEF PlainSteps, Do, See, Keep, QuietSteps
<1> DEFINE s1 == <<Do("Lock"), Do("Read lock"), See("word", "0")>>
           s2 == <<Do("Unlock"), Do("Read lock"), See("word", "1"), Do("Lock volatile"),
                   Do("Read volatile lock"), See("word", "1"), Do("Unlock volatile"),
                   Do("Read volatile lock"), See("word", "0")>>
           I == Holding(Settled)  S == Holding(Single)  C == Holding(Claims(TRUE))  K == Holding(Locked)
           V == Holding(VClaims(TRUE))  W == Holding(VLocked)
           N0 == Holding(Wrong("0"))  N1 == Holding(Wrong("1"))
           G(P, s, Q) == Makes(P, s, Q, M)
<1>1. See("word", "0") \in PlainSteps /\ See("word", "1") \in PlainSteps
  BY PlainLooks, Zenon DEF SpiWords
<1>2. s1 \in Seq(AllSteps) /\ s2 \in Seq(AllSteps)
  <2>1. s1 \in Seq(PlainSteps) /\ s2 \in Seq(PlainSteps)
    BY <1>1, PlainCommands, ShortSequences, NineLong, Zenon
  <2> QED
    BY <2>1, PlainGoes, Zenon
<1>3. /\ I \in SUBSET RunStates /\ S \in SUBSET RunStates /\ C \in SUBSET RunStates
      /\ K \in SUBSET RunStates /\ V \in SUBSET RunStates /\ W \in SUBSET RunStates
      /\ N0 \in SUBSET RunStates /\ N1 \in SUBSET RunStates /\ Failed \in SUBSET RunStates
  BY HoldingSets, Zenon
<1>4. /\ G(I, Do("Lock"), I) /\ G(I, Do("Unlock"), I) /\ G(I, Do("Lock volatile"), I)
      /\ G(I, Do("Unlock volatile"), I) /\ G(I, Do("AddrHi"), I) /\ G(I, Do("AddrLo"), I)
      /\ G(I, Do("Read lock"), S) /\ G(I, Do("Read volatile lock"), S)
      /\ G(S, See("word", "0"), I) /\ G(S, See("word", "1"), I)
      /\ G(N0, See("word", "0"), Failed) /\ G(N1, See("word", "1"), Failed)
  BY IdleMakes, QuietNames, Zenon
<1>5. G(C, See("word", "0"), K) /\ G(V, See("word", "1"), W)
  BY LockLooks, Zenon
<1>6. "Read lock" \in PortCommands /\ "Read volatile lock" \in PortCommands
  BY Zenon DEF PortCommands, Queued, Commands
<1>7. G(I, Do("Read lock"), C) /\ G(I, Do("Read volatile lock"), V)
  BY <1>6, LockRead, CommandMakes, Zenon
<1>8. G(K, Do("Read lock"), N1) /\ G(W, Do("Read volatile lock"), N0)
  BY <1>6, LockRead, CommandMakes, Zenon DEF Locked, VLocked
<1>9. /\ ~LockWorks \/ ~LockSeen => G(I, Do("Read lock"), N0)
      /\ ~LockVWorks \/ ~VLockSeen => G(I, Do("Read volatile lock"), N1)
  BY <1>6, LockRead, CommandMakes, Zenon
<1>10. ~UnlockWorks => \A c \in {"AddrHi", "AddrLo", "Unlock"} : G(K, Do(c), K)
  BY LockedStays, QuietNames, CommandMakes, Zenon
<1>11. ~UnlockVWorks => G(W, Do("Unlock volatile"), W)
  BY LockedStays, QuietNames, CommandMakes, Zenon
<1>12. Goes(I, Address, I, M)
  BY <1>4, AddressKeeps, Zenon
<1>13. Locks = Address \o s1 \o Address \o s2
  BY Zenon DEF Locks
<1>14. Address \in Seq(AllSteps)
  BY <1>12, Zenon DEF Goes
<1>15. \A x \in {Do("Lock volatile"), Do("Read volatile lock"), See("word", "1"),
                 Do("Unlock volatile"), See("word", "0")} : G(Failed, x, Failed)
  BY FailedStays, Zenon
<1> HIDE DEF I, S, C, K, V, W, N0, N1, G
<1>16. G(I, Do("Lock"), I) /\ G(I, Do("Read lock"), S) /\ G(S, See("word", "0"), I)
  BY <1>4
<1>17. Leads(I, s1, I, M)
  BY <1>3, <1>16, ThreeStepsLead, Zenon DEF G
<1>18. CASE ~LockWorks \/ ~LockSeen
  <2>1. Leads(I, s1, Failed, M)
    BY <1>3, <1>4, <1>9, <1>18, ThreeStepsLead, Zenon DEF G
  <2> HIDE DEF s1, s2, Address
  <2>2. Goes(I, Address \o s1, Failed, M)
    BY <1>2, <1>12, <2>1, GoesOn, Zenon DEF Goes
  <2>3. Goes(I, Address \o s1 \o Address \o s2, Failed, M)
    BY <1>2, <1>14, <2>2, GoesWrong, Zenon
  <2> QED
    BY <1>13, <2>3, Zenon DEF I
<1>19. CASE ~UnlockWorks
  <2>1. Leads(I, s1, K, M)
    BY <1>3, <1>4, <1>5, <1>7, ThreeStepsLead, Zenon DEF G
  <2>2. Leads(K, s2, Failed, M)
    <3>1. G(K, Do("Unlock"), K)
      BY <1>10, <1>19, Zenon
    <3> QED
      BY <1>3, <1>4, <1>8, <1>15, <3>1, NineStepsLead, Zenon DEF G
  <2>3. Goes(K, Address, K, M)
    BY <1>10, <1>19, AddressKeeps, Zenon DEF G, K
  <2> HIDE DEF s1, s2, Address
  <2>4. Goes(I, Address \o s1, K, M)
    BY <1>2, <1>12, <2>1, GoesOn, Zenon DEF Goes
  <2>5. Goes(I, Address \o s1 \o Address, K, M)
    BY <2>3, <2>4, GoesOn, Zenon
  <2>6. Goes(K, s2, Failed, M)
    BY <1>2, <2>2, Zenon DEF Goes
  <2>7. Goes(I, Address \o s1 \o Address \o s2, Failed, M)
    BY <2>5, <2>6, GoesOn, Zenon
  <2> QED
    BY <1>13, <2>7, Zenon DEF I
<1>20. ASSUME Leads(I, s2, Failed, M)
       PROVE  Goes(I, Locks, Failed, M)
  <2> HIDE DEF s1, s2, Address
  <2>1. Goes(I, s1, I, M) /\ Goes(I, s2, Failed, M)
    BY <1>2, <1>17, <1>20, Zenon DEF Goes
  <2>2. Goes(I, Address \o s1 \o Address, I, M)
    BY <1>12, <2>1, GoesOn, Zenon
  <2>3. Goes(I, Address \o s1 \o Address \o s2, Failed, M)
    BY <2>1, <2>2, GoesOn, Zenon
  <2> QED
    BY <1>13, <2>3, Zenon
<1>21. CASE ~LockVWorks \/ ~VLockSeen
  <2>1. Leads(I, s2, Failed, M)
    BY <1>3, <1>4, <1>9, <1>15, <1>21, NineStepsLead, Zenon DEF G
  <2> QED
    BY <1>20, <2>1, Zenon DEF I
<1>22. CASE ~UnlockVWorks
  <2>1. Leads(I, s2, Failed, M)
    <3>1. /\ G(I, Do("Unlock"), I) /\ G(I, Do("Read lock"), S) /\ G(S, See("word", "1"), I)
          /\ G(I, Do("Lock volatile"), I) /\ G(I, Do("Read volatile lock"), V)
          /\ G(V, See("word", "1"), W) /\ G(W, Do("Unlock volatile"), W)
          /\ G(W, Do("Read volatile lock"), N0) /\ G(N0, See("word", "0"), Failed)
      BY <1>4, <1>5, <1>7, <1>8, <1>11, <1>22, Zenon
    <3> QED
      BY <1>3, <3>1, NineStepsLead, Zenon DEF G
  <2> QED
    BY <1>20, <2>1, Zenon DEF I
<1> QED
  BY <1>18, <1>19, <1>21, <1>22, Zenon

\* The word that is read tells whether something was written; v is a word
\* that nothing but the faulty command can have written.
LEMMA ReadWrong ==
  ASSUME NEW p \in Settled, NEW v, v # "erased",
         ReadWorks /\ p.addr = "FF0000" => p.rom[p.sel] # v
  PROVE  Port(p, "Read") \in Wrong(v)
<1> DEFINE q == Port(p, "Read")
           w == IF p.addr = "FF0000" THEN p.rom[p.sel] ELSE "erased"
<1>1. OneRead(p, q, w, ReadWorks)
  BY ReadsAre, Zenon
<1>2. ReadWorks => w # v
  BY Zenon
<1> HIDE DEF q, w
<1>3. q \in Ports /\ (q.fifo # <<>> => ReadWorks /\ q.fifo = <<w>>)
  BY <1>1 DEF OneRead, Single
<1>4. q.fifo # <<>> => Head(q.fifo) # v
  BY <1>2, <1>3
<1> QED
  BY <1>3, <1>4 DEF Wrong, q

\* The page of a file.
LEMMA PagesFinds ==
  ASSUME NEW M \in SUBSET BOOLEAN, NEW file \in Files, ~PageWorks
  PROVE  Goes(Holding(Settled), Pages(file), Failed, M)
<1> HIDE DEF PlainSteps, Do, See, Keep, QuietSteps
<1> DEFINE s1 == <<Do(file)>>
           s2 == <<Do("Read"), See("word", file)>>
           I == Holding(Settled)
<1>1. s1 \in Seq(AllSteps) /\ s2 \in Seq(AllSteps)
  <2>1. s1 \in Seq(PlainSteps)
    BY PlainCommands, OneWord, Zenon
  <2>2. s2 \in Seq(PlainSteps)
    BY PlainCommands, PlainLooks, ShortSequences, Zenon
  <2> QED
    BY <2>1, <2>2, PlainGoes, Zenon
<1>2. /\ Makes(I, Do("AddrHi"), I, M) /\ Makes(I, Do("AddrLo"), I, M) /\ Makes(I, Do(file), I, M)
      /\ Makes(Holding(Wrong(file)), See("word", file), Failed, M)
  BY IdleMakes, QuietNames, Zenon
<1>3. Makes(I, Do("Read"), Holding(Wrong(file)), M)
  <2>1. "Read" \in PortCommands
    BY Zenon DEF PortCommands, Queued, Commands
  <2>2. file \notin {"erased", "D3B"}
    BY PromAssumption, Zenon
  <2>3. ASSUME NEW p \in Settled PROVE Port(p, "Read") \in Wrong(file)
    <3>1. \A x \in 0..1 : p.rom[x] \in {"erased", "D3B"}
      BY DEF Settled, FaultShows
    <3>2. p.sel \in 0..1
      BY DEF Settled, Ports, Spi
    <3>3. file # "erased" /\ p.rom[p.sel] # file
      BY <2>2, <3>1, <3>2, Zenon
    <3> QED
      BY <3>3, ReadWrong, Zenon
  <2> QED
    BY <2>1, <2>3, CommandMakes, Zenon
<1>4. Goes(I, Address, I, M)
  BY <1>2, AddressKeeps, Zenon
<1>5. Goes(I, s1, I, M)
  BY <1>1, <1>2, HoldingSets, LeadsOne, Zenon DEF Goes
<1>6. Goes(I, s2, Failed, M)
  BY <1>1, <1>2, <1>3, HoldingSets, TwoStepsLead, Zenon DEF Goes
<1>7. Pages(file) = Address \o s1 \o Address \o s2
  BY Zenon DEF Pages
<1> HIDE DEF s1, s2, Address, I
<1>8. Goes(I, Address \o s1 \o Address, I, M)
  BY <1>4, <1>5, GoesOn, Zenon
<1>9. Goes(I, Address \o s1 \o Address \o s2, Failed, M)
  BY <1>6, <1>8, GoesOn, Zenon
<1> QED
  BY <1>7, <1>9, Zenon DEF I

\* A look that a port cannot satisfy.
LEMMA SeeFails ==
  ASSUME NEW A, NEW what, what # "word", NEW v, NEW M \in SUBSET BOOLEAN,
         \A r \in RunStates : r.board.spi \in A => ~Agrees(r, what, v)
  PROVE  Makes(Holding(A), See(what, v), Failed, M)
<1>1. \A r \in RunStates : r.board.spi \in A /\ Agrees(r, what, v) => r.board.spi \in {}
  OBVIOUS
<1>2. Makes(Holding(A), See(what, v), Holding({}), M)
  BY <1>1, SeeMakes, Zenon
<1> QED
  BY <1>2, HoldingNone, Zenon

\* What the looks at the port tell.
LEMMA LooksTell ==
  ASSUME NEW r \in RunStates
  PROVE  LET p == r.board.spi
         IN /\ Agrees(r, "on", "no") => ~p.on
            /\ Agrees(r, "words", "none") => Len(p.fifo) = 0
            /\ Agrees(r, "words", "ID") => Len(p.fifo) = 4
            /\ Agrees(r, "LSB", "some") => p.timer # "zero"
            /\ Agrees(r, "MSB", "some") => p.timer = "long"
            /\ Agrees(r, "stopped", "yes") => ~p.runs
            /\ \A v : Agrees(r, "register", v) => p.shown = v
<1> DEFINE p == r.board.spi
<1>1. Agrees(r, "on", "no") => ~p.on
  BY Zenon DEF Agrees, YesNo
<1>2. Agrees(r, "words", "none") => Len(p.fifo) = 0
  BY Zenon DEF Agrees
<1>3. Agrees(r, "words", "ID") => Len(p.fifo) = 4
  BY Zenon DEF Agrees
<1>4. Agrees(r, "LSB", "some") => p.timer # "zero"
  BY Zenon DEF Agrees
<1>5. Agrees(r, "MSB", "some") => p.timer = "long"
  BY Zenon DEF Agrees
<1>6. Agrees(r, "stopped", "yes") => ~p.runs
  BY Zenon DEF Agrees
<1>7. \A v : Agrees(r, "register", v) => p.shown = v
  BY Zenon DEF Agrees
<1> QED
  BY <1>1, <1>2, <1>3, <1>4, <1>5, <1>6, <1>7, Zenon

\* What is made of more states is made of fewer.
LEMMA MakesLess ==
  ASSUME NEW P, NEW R, NEW s, NEW Q, NEW M, Makes(P, s, Q, M), \A r \in R : r \in P
  PROVE  Makes(R, s, Q, M)
  BY Zenon DEF Makes

Fitting == {p \in Ports : FaultShows(p)}

\* The traces fit the fault.
LEMMA ShownFits == \A r \in Showing : r \in Holding(Fitting)
  BY DEF Showing, Holding, Fitting, RunStates, IdleBoards

\* The timer: an erase must be waited for while it runs, and it must stop.
LEMMA TimerFinds ==
  ASSUME NEW M \in SUBSET BOOLEAN, ~EraseWorks \/ ~StartWorks \/ ~StopWorks
  PROVE  Goes(Showing, Timer, Failed, M)
<1> HIDE DEF PlainSteps, Do, See, Keep, QuietSteps
<1> DEFINE s1 == <<Do("Timer reset"), See("LSB", "zero"), See("MSB", "zero")>>
           s2 == <<Do("Disable"), Do("Timer start"), Do("Erase"), Do("Timer stop"), Do("Enable"),
                   See("LSB", "some"), See("stopped", "yes"), See("MSB", "some")>>
           Turning == {p \in Ports : p.runs}
           G(P, s, Q) == Makes(P, s, Q, M)
<1>1. s1 \in Seq(AllSteps) /\ s2 \in Seq(AllSteps) /\ Address \in Seq(AllSteps)
  <2>1. s1 \in Seq(PlainSteps) /\ s2 \in Seq(PlainSteps)
    BY PlainCommands, PlainLooks, ShortSequences, EightLong, Zenon
  <2>2. Address \in Seq(PlainSteps)
    BY PlainCommands, ShortSequences, Zenon DEF Address
  <2> QED
    BY <2>1, <2>2, PlainGoes, Zenon
<1>2. ASSUME NEW s \in Seq(AllSteps) PROVE Goes(Showing, s, Showing, M)
  <2>1. \A x \in AllSteps : Makes(Showing, x, Showing, M)
    BY ShownStays, Zenon
  <2> QED
    BY <2>1, HoldingSets, LeadsKeep, Zenon DEF Goes
<1>3. /\ \A c \in {"Disable", "Timer start", "Erase", "Timer stop", "Enable"} : Do(c) \in AllSteps
      /\ See("LSB", "some") \in AllSteps /\ See("stopped", "yes") \in AllSteps
  <2>1. \A x \in PlainSteps : x \in AllSteps
    BY Zenon DEF AllSteps, TestSteps
  <2> QED
    BY <2>1, PlainCommands, PlainLooks, Zenon
<1>4. /\ G(Showing, Do("Disable"), Showing) /\ G(Showing, Do("Timer start"), Showing)
      /\ G(Showing, Do("Erase"), Showing) /\ G(Showing, Do("Timer stop"), Showing)
      /\ G(Showing, Do("Enable"), Showing) /\ G(Showing, See("LSB", "some"), Showing)
      /\ G(Showing, See("stopped", "yes"), Showing)
  BY <1>3, ShownStays, Zenon
<1>5. "LSB" # "word" /\ "MSB" # "word" /\ "stopped" # "word"
  OBVIOUS
<1>6. ~EraseWorks \/ ~StartWorks => G(Showing, See("MSB", "some"), Failed)
  <2> SUFFICES ASSUME ~EraseWorks \/ ~StartWorks PROVE G(Showing, See("MSB", "some"), Failed)
    OBVIOUS
  <2>1. \A r \in RunStates : r.board.spi \in Fitting => ~Agrees(r, "MSB", "some")
    BY LooksTell, Zenon DEF Fitting, FaultShows
  <2>2. G(Holding(Fitting), See("MSB", "some"), Failed)
    BY <1>5, <2>1, SeeFails, Zenon
  <2> QED
    BY <2>2, ShownFits, MakesLess, Zenon
<1>7. ~StopWorks => G(Showing, See("LSB", "some"), Holding(Turning))
  <2> SUFFICES ASSUME ~StopWorks PROVE G(Showing, See("LSB", "some"), Holding(Turning))
    OBVIOUS
  <2>1. \A r \in RunStates : r.board.spi \in Fitting /\ Agrees(r, "LSB", "some") => r.board.spi \in Turning
    BY LooksTell, Zenon DEF Fitting, FaultShows
  <2>2. G(Holding(Fitting), See("LSB", "some"), Holding(Turning))
    BY <1>5, <2>1, SeeMakes, Zenon
  <2> QED
    BY <2>2, ShownFits, MakesLess, Zenon
<1>8. G(Holding(Turning), See("stopped", "yes"), Failed)
  <2>1. \A r \in RunStates : r.board.spi \in Turning => ~Agrees(r, "stopped", "yes")
    BY LooksTell, Zenon
  <2> QED
    BY <1>5, <2>1, SeeFails, Zenon
<1>9. G(Failed, See("MSB", "some"), Failed)
  BY FailedStays, Zenon
<1>10. Showing \in SUBSET RunStates /\ Failed \in SUBSET RunStates /\ Holding(Turning) \in SUBSET RunStates
  BY HoldingSets, Zenon
<1>11. Leads(Showing, s2, Failed, M)
  <2>1. CASE ~EraseWorks \/ ~StartWorks
    BY <1>4, <1>6, <1>10, <2>1, EightStepsLead, Zenon
  <2>2. CASE ~StopWorks
    BY <1>4, <1>7, <1>8, <1>9, <1>10, <2>2, EightStepsLead, Zenon
  <2> QED
    BY <2>1, <2>2
<1>12. Timer = s1 \o Address \o s2
  BY Zenon DEF Timer
<1> HIDE DEF s1, s2, Address
<1>13. Goes(Showing, s1, Showing, M) /\ Goes(Showing, Address, Showing, M) /\ Goes(Showing, s2, Failed, M)
  BY <1>1, <1>2, <1>11, Zenon DEF Goes
<1> QED
  BY <1>12, <1>13, GoesOn, Zenon

\* The registers in two parts.
FirstRegisters ==
  <<Do("Read register"), See("register", "default"), Do("Read volatile"), See("register", "FB")>>
LastRegisters ==
  <<Do("Write volatile 0B"), Do("Read volatile"), See("register", "0B"),
    Do("Write volatile FB"), Do("Read volatile"), See("register", "FB")>>

\* The test of the registers, in two parts.
LEMMA RegistersSplit == Registers = FirstRegisters \o LastRegisters
<1> HIDE DEF Do, See
<1> DEFINE a == Do("Read register")  b == See("register", "default")  c == Do("Read volatile")
           d == See("register", "FB")  e == Do("Write volatile 0B")  f == See("register", "0B")
           g == Do("Write volatile FB")
<1>1. /\ Registers = <<a, b, c, d, e, c, f, g, c, d>>
      /\ FirstRegisters = <<a, b, c, d>> /\ LastRegisters = <<e, c, f, g, c, d>>
  BY Zenon DEF Registers, FirstRegisters, LastRegisters
<1> HIDE DEF a, b, c, d, e, f, g
<1>2. <<a, b, c, d, e, c, f, g, c, d>> = <<a, b, c, d>> \o <<e, c, f, g, c, d>>
  OBVIOUS
<1> QED
  BY <1>1, <1>2

\* A command that is faulty leaves the port as it is.
LEMMA PortIgnores ==
  ASSUME NEW p \in Settled, NEW c \in Queued \ Files, Faulty("spi", c)
  PROVE  Port(p, c) = p
<1>1. Command(c) = c /\ p.on
  BY CommandOf, Zenon DEF Settled
<1> QED
  BY <1>1, DoesNothing, PortOn, Zenon

Default == {p \in Settled : p.shown = "default"}
Cleared == {p \in Settled : p.shown = "0B" /\ p.vcfg = "0B"}

\* Reading the volatile register shows nothing new while it holds 0B.
LEMMA VolatileRead ==
  ASSUME NEW p \in Cleared
  PROVE  Port(p, "Read volatile") \in Cleared
<1> DEFINE q == Port(p, "Read volatile")
<1>1. /\ p \in Settled /\ p \in Spi /\ p.on /\ p.shown = "0B" /\ p.vcfg = "0B"
      /\ "Read volatile" \in Quiet /\ "Read volatile" \in Queued
  BY QuietNames, Zenon DEF Cleared, Settled, Ports
<1>2. q \in Settled
  BY <1>1, IdleCommands, Zenon
<1>3. q = Obey(p, "Read volatile")
  BY <1>1, PortOn, Zenon
<1>4. Command("Read volatile") = "Read volatile"
  BY <1>1, CommandOf, PromAssumption, Zenon
<1>5. \/ q = p
      \/ \E a : q = [p EXCEPT !.half = FALSE, !.addr = a]
      \/ q = [p EXCEPT !.shown = p.vcfg]
  BY <1>3, <1>4, DoesNothing, DoesHalf, DoesReadVolatile, Zenon
<1> HIDE DEF q
<1>6. q.shown = "0B" /\ q.vcfg = "0B"
  BY <1>1, <1>5 DEF Spi
<1> QED
  BY <1>2, <1>6 DEF Cleared, q

\* The registers.
LEMMA RegistersFinds ==
  ASSUME NEW M \in SUBSET BOOLEAN,
         ~RegisterWorks \/ ~Sets0B \/ ~SetsFB \/ Faulty("spi", "Read volatile")
  PROVE  Goes(Holding(Settled), Registers, Failed, M)
<1> HIDE DEF PlainSteps, Do, See, Keep, QuietSteps
<1> DEFINE I == Holding(Settled)  D == Holding(Default)  C == Holding(Cleared)
           s1 == <<Do("Read register"), See("register", "default"), Do("Read volatile"),
                   See("register", "FB")>>
           s2 == <<Do("Write volatile 0B"), Do("Read volatile"), See("register", "0B"),
                   Do("Write volatile FB"), Do("Read volatile"), See("register", "FB")>>
           G(P, s, Q) == Makes(P, s, Q, M)
<1>1. Registers = s1 \o s2
  BY RegistersSplit, Zenon DEF FirstRegisters, LastRegisters
<1>2. s1 \in Seq(AllSteps) /\ s2 \in Seq(AllSteps)
  <2>1. s1 \in Seq(PlainSteps) /\ s2 \in Seq(PlainSteps)
    BY PlainCommands, PlainLooks, ShortSequences, SixLong, Zenon
  <2> QED
    BY <2>1, PlainGoes, Zenon
<1>3. "register" # "word"
  OBVIOUS
<1>4. /\ I \in SUBSET RunStates /\ D \in SUBSET RunStates /\ C \in SUBSET RunStates
      /\ Failed \in SUBSET RunStates
  BY HoldingSets, Zenon
<1>5. /\ G(I, Do("Read register"), I) /\ G(I, Do("Read volatile"), I)
      /\ G(I, Do("Write volatile 0B"), I) /\ G(I, Do("Write volatile FB"), I)
      /\ \A v : G(I, See("register", v), I)
  BY <1>3, IdleMakes, QuietNames, Zenon
<1>6. \A x : G(Failed, x, Failed)
  BY FailedStays, Zenon
<1>7. ~RegisterWorks => G(I, See("register", "default"), Failed)
  BY <1>3, LooksTell, SeeFails, Zenon DEF Settled, FaultShows
<1>8. ~Sets0B => G(I, See("register", "0B"), Failed)
  BY <1>3, LooksTell, SeeFails, Zenon DEF Settled, FaultShows
<1>9. G(I, See("register", "default"), D)
  BY <1>3, LooksTell, SeeMakes, Zenon DEF Default
<1>10. Faulty("spi", "Read volatile") => G(D, Do("Read volatile"), D)
  <2>1. "Read volatile" \in Queued \ Files /\ "Read volatile" \in PortCommands
    BY QuietNames, PromAssumption, Zenon
  <2> QED
    BY <2>1, PortIgnores, CommandMakes, Zenon DEF Default
<1>11. G(D, See("register", "FB"), Failed) /\ G(C, See("register", "FB"), Failed)
  <2>1. "default" # "FB" /\ "0B" # "FB"
    OBVIOUS
  <2> QED
    BY <1>3, <2>1, LooksTell, SeeFails, Zenon DEF Default, Cleared
<1>12. ~SetsFB => G(I, See("register", "0B"), C)
  BY <1>3, LooksTell, SeeMakes, Zenon DEF Cleared, Settled, FaultShows
<1>13. ~SetsFB => G(C, Do("Write volatile FB"), C)
  <2>1. "Write volatile FB" \in Queued \ Files /\ "Write volatile FB" \in PortCommands
    BY QuietNames, PromAssumption, Zenon
  <2> QED
    BY <2>1, PortIgnores, CommandMakes, Zenon DEF Cleared, SetsFB
<1>14. G(C, Do("Read volatile"), C)
  BY QuietNames, VolatileRead, CommandMakes, Zenon
<1> HIDE DEF I, D, C, G
<1>15. Leads(I, s1, I, M)
  BY <1>4, <1>5, FourStepsLead, Zenon DEF G
<1>16. ASSUME Leads(I, s1, Failed, M) PROVE Goes(I, Registers, Failed, M)
  BY <1>1, <1>2, <1>16, GoesWrong, Zenon DEF Goes
<1>17. ASSUME Leads(I, s2, Failed, M) PROVE Goes(I, Registers, Failed, M)
  BY <1>1, <1>2, <1>15, <1>17, GoesOn, Zenon DEF Goes
<1>18. CASE ~RegisterWorks
  <2>1. Leads(I, s1, Failed, M)
    BY <1>4, <1>5, <1>6, <1>7, <1>18, FourStepsLead, Zenon DEF G
  <2> QED
    BY <1>16, <2>1, Zenon DEF I
<1>19. CASE Faulty("spi", "Read volatile")
  <2>1. Leads(I, s1, Failed, M)
    BY <1>4, <1>5, <1>9, <1>10, <1>11, <1>19, FourStepsLead, Zenon DEF G
  <2> QED
    BY <1>16, <2>1, Zenon DEF I
<1>20. CASE ~Sets0B
  <2>1. Leads(I, s2, Failed, M)
    BY <1>4, <1>5, <1>6, <1>8, <1>20, SixStepsLead, Zenon DEF G
  <2> QED
    BY <1>17, <2>1, Zenon DEF I
<1>21. CASE ~SetsFB
  <2>1. Leads(I, s2, Failed, M)
    BY <1>4, <1>5, <1>11, <1>12, <1>13, <1>14, <1>21, SixStepsLead, Zenon DEF G
  <2> QED
    BY <1>17, <2>1, Zenon DEF I
<1> QED
  BY <1>18, <1>19, <1>20, <1>21, Zenon

(***************************************************************************)
(* The IDs of the PROMs. The only step that changes what has been read of  *)
(* them is Keep.                                                           *)
(***************************************************************************)
Bare == PlainSteps \ {Keep}

\* Only Keep notes an ID.
LEMMA NotKept ==
  /\ \A c : c # "Keep" => Do(c) # Keep
  /\ \A w, v : See(w, v) # Keep
<1>1. ASSUME NEW c, Do(c) = Do("Keep") PROVE c = "Keep"
  <2>1. Do(c).do = c /\ Do("Keep").do = "Keep"
    BY DEF Do
  <2> QED
    BY <1>1, <2>1, Zenon
<1>2. ASSUME NEW w, NEW v, See(w, v) = Do("Keep") PROVE FALSE
  <2>1. See(w, v).do = "See" /\ Do("Keep").do = "Keep" /\ "See" # "Keep"
    BY DEF Do, See
  <2> QED
    BY <1>2, <2>1, Zenon
<1> QED
  BY <1>1, <1>2, Zenon DEF Keep

\* The steps that note no ID.
LEMMA BareOnes ==
  /\ \A c \in {"Enable", "Disable", "Reset FSM", "NoOp", "AddrHi", "AddrLo", "Erase", "Write D3B", "Read",
               "Timer reset", "Timer start", "Timer stop", "Read register", "Read volatile",
               "Write volatile 0B", "Write volatile FB", "Select 1"} : Do(c) \in Bare
  /\ \A w, v : See(w, v) \in PlainSteps => See(w, v) \in Bare
<1>1. ASSUME NEW c \in {"Enable", "Disable", "Reset FSM", "NoOp", "AddrHi", "AddrLo", "Erase", "Write D3B", "Read",
                        "Timer reset", "Timer start", "Timer stop", "Read register", "Read volatile",
                        "Write volatile 0B", "Write volatile FB", "Select 1"}
      PROVE Do(c) \in Bare
  <2>1. c # "Keep"
    BY Zenon
  <2> HIDE DEF Do, PlainSteps, Keep
  <2>2. Do(c) \in PlainSteps
    BY PlainCommands, Zenon
  <2> QED
    BY <2>1, <2>2, NotKept, Zenon DEF Bare
<1> HIDE DEF Do, See, PlainSteps, Keep
<1>2. \A w, v : See(w, v) \in PlainSteps => See(w, v) \in Bare
  BY NotKept, Zenon DEF Bare
<1> QED
  BY <1>1, <1>2, Zenon

\* The parts of SPIcheck that note none.
LEMMA BareParts ==
  /\ Basics \in Seq(Bare) /\ Timer \in Seq(Bare) /\ Registers \in Seq(Bare)
  /\ <<Do("Select 1")>> \in Seq(Bare) /\ \A s \in Bare : s \in PlainSteps
<1> HIDE DEF PlainSteps, Do, See, Keep, Bare
<1>1. Address \in Seq(Bare)
  BY BareOnes, ShortSequences, Zenon DEF Address
<1>2. Basics \in Seq(Bare)
  <2>1. See("on", "yes") \in Bare /\ See("on", "no") \in Bare /\ See("words", "none") \in Bare
        /\ See("words", "one") \in Bare /\ See("full", "yes") \in Bare
    BY BareOnes, PlainLooks, Zenon
  <2>2. See("word", "D3B") \in Bare
    BY BareOnes, PlainLooks, Zenon DEF SpiWords, Contents
  <2>3. <<Do("Enable"), See("on", "yes"), Do("NoOp"), See("on", "yes"), Do("Disable"), Do("NoOp"),
          See("on", "no"), Do("Enable"), See("on", "yes")>> \in Seq(Bare)
    BY <2>1, BareOnes, NineLong, Zenon
  <2>4. /\ <<Do("Erase"), Do("Write D3B"), See("words", "none")>> \in Seq(Bare)
        /\ <<Do("AddrHi"), Do("Reset FSM")>> \in Seq(Bare)
        /\ <<Do("Read"), See("words", "one"), See("full", "yes"), See("word", "D3B")>> \in Seq(Bare)
    BY <2>1, <2>2, BareOnes, ShortSequences, Zenon
  <2> HIDE DEF Address
  <2> QED
    BY <1>1, <2>3, <2>4, Joined, Zenon DEF Basics
<1>3. Timer \in Seq(Bare)
  <2>1. See("LSB", "zero") \in Bare /\ See("MSB", "zero") \in Bare /\ See("LSB", "some") \in Bare
        /\ See("MSB", "some") \in Bare /\ See("stopped", "yes") \in Bare
    BY BareOnes, PlainLooks, Zenon
  <2>2. <<Do("Timer reset"), See("LSB", "zero"), See("MSB", "zero")>> \in Seq(Bare)
    BY <2>1, BareOnes, ShortSequences, Zenon
  <2>3. <<Do("Disable"), Do("Timer start"), Do("Erase"), Do("Timer stop"), Do("Enable"),
          See("LSB", "some"), See("stopped", "yes"), See("MSB", "some")>> \in Seq(Bare)
    BY <2>1, BareOnes, EightLong, Zenon
  <2> HIDE DEF Address
  <2> QED
    BY <1>1, <2>2, <2>3, Joined, Zenon DEF Timer
<1>4. Registers \in Seq(Bare)
  <2>1. See("register", "default") \in Bare /\ See("register", "FB") \in Bare /\ See("register", "0B") \in Bare
    BY BareOnes, PlainLooks, Zenon
  <2> QED
    BY <2>1, BareOnes, TenLong, Zenon DEF Registers
<1>5. <<Do("Select 1")>> \in Seq(Bare)
  BY BareOnes, OneWord, Zenon
<1>6. \A s \in Bare : s \in PlainSteps
  BY Zenon DEF Bare
<1> QED
  BY <1>2, <1>3, <1>4, <1>5, <1>6, Zenon

\* Runs in which these IDs have been read, and the port is such.
With(u, A) == {r \in Holding(A) : r.ok => r.uids = u}

\* They leave the IDs that have been noted.
LEMMA BareKeeps ==
  ASSUME NEW r \in RunStates, NEW s \in Bare, NEW m \in BOOLEAN
  PROVE  Step(r, s, m).uids = r.uids
<1>1. s \in PortSteps \/ s \in LookSteps \/ s = Do("Load")
  BY Zenon DEF Bare, PlainSteps
<1>2. CASE s \in PortSteps
  BY <1>2, PortStep, Zenon DEF PortSteps
<1>3. CASE s \in LookSteps
  <2>1. PICK w \in Looks, v \in Views : s = See(w, v)
    BY <1>3 DEF LookSteps
  <2> QED
    BY <2>1, SeeStep
<1>4. CASE s = Do("Load")
  BY <1>4, LoadStep, Zenon DEF CfgStep
<1> QED
  BY <1>1, <1>2, <1>3, <1>4

\* A step that notes none does with notes what it does without.
LEMMA WithMakes ==
  ASSUME NEW u, NEW A, NEW B, NEW s \in Bare, NEW M \in SUBSET BOOLEAN,
         Makes(Holding(A), s, Holding(B), M)
  PROVE  Makes(With(u, A), s, With(u, B), M)
<1> SUFFICES ASSUME NEW r \in With(u, A)
             PROVE  /\ r.ok => \A m \in M : Step(r, s, m) \in With(u, B)
                    /\ ~r.ok => r \in With(u, B)
  BY Zenon DEF Makes
<1>1. r \in Holding(A) /\ r \in RunStates /\ (r.ok => r.uids = u)
  BY Zenon DEF With, Holding
<1>2. ASSUME r.ok, NEW m \in M PROVE Step(r, s, m) \in With(u, B)
  <2>1. m \in BOOLEAN
    OBVIOUS
  <2>2. Step(r, s, m).uids = r.uids
    BY <1>1, <2>1, BareKeeps, Zenon
  <2>3. Step(r, s, m) \in Holding(B)
    BY <1>1, <1>2, Zenon DEF Makes
  <2> QED
    BY <1>1, <1>2, <2>2, <2>3, Zenon DEF With
<1>3. ASSUME ~r.ok PROVE r \in With(u, B)
  BY <1>1, <1>3, Zenon DEF With, Holding
<1> QED
  BY <1>2, <1>3

\* The port with such words in its FIFO.
Filled(f) == {p \in Ports : p.on /\ FaultShows(p) /\ p.fifo = f}
IDWords(w) == <<"20BB", "1810", "other", w>>

\* A look at a word takes it from the FIFO.
LEMMA FilledMakes ==
  ASSUME NEW M \in SUBSET BOOLEAN, NEW g, NEW f \in Seq(SpiWords), Tail(g) = f, NEW v
  PROVE  Makes(Holding(Filled(g)), See("word", v), Holding(Filled(f)), M)
<1> HIDE DEF SpiWords
<1>2. ASSUME NEW p \in Ports, p \in Filled(g), p.fifo # <<>> PROVE TakenPort(p) \in Filled(f)
  <2> DEFINE q == TakenPort(p)
  <2>1. q = [p EXCEPT !.fifo = f]
    BY <1>2, Zenon DEF TakenPort, Filled
  <2>2. p.on /\ FaultShows(p)
    BY <1>2 DEF Filled
  <2>3. FaultShows(q)
    BY <2>2, PortShows, Zenon
  <2>4. q \in Ports /\ q.on = p.on /\ q.fifo = f
    BY <1>2, <2>1 DEF Ports, Spi
  <2> HIDE DEF q
  <2>5. q \in Filled(f)
    BY <2>2, <2>3, <2>4 DEF Filled
  <2> QED
    BY <2>5 DEF q
<1> QED
  BY <1>2, WordMakes, Zenon

\* The words of an ID, taken one by one.
LEMMA IDTails ==
  ASSUME NEW a, NEW b, NEW c, NEW d
  PROVE  /\ Tail(<<a, b, c, d>>) = <<b, c, d>> /\ Tail(<<b, c, d>>) = <<c, d>>
         /\ Tail(<<c, d>>) = <<d>> /\ Tail(<<d>>) = <<>> /\ Head(<<d>>) = d /\ <<d>> # <<>>
         /\ Len(<<a, b, c, d>>) = 4 /\ Len(<<>>) # 4
  OBVIOUS

IDRead(w) == Filled(<<>>) \cup Filled(IDWords(w))

\* Read ID gives the four words, or none if it has been swallowed or is faulty.
LEMMA IDIsRead ==
  ASSUME NEW p \in Settled
  PROVE  LET w == IF p.sel = 0 THEN "uid 0" ELSE "uid 1"
             q == Port(p, "Read ID")
         IN /\ q \in IDRead(w)
            /\ Faulty("spi", "Read ID") => q \in Settled
<1> DEFINE w == IF p.sel = 0 THEN "uid 0" ELSE "uid 1"
           q == Port(p, "Read ID")
           four == IDWords(w)
<1>1. /\ "Read ID" \in Queued /\ "Read ID" \in PortCommands /\ "Read ID" \notin Files
      /\ p \in Ports /\ p \in Spi /\ p.on /\ FaultShows(p) /\ p.fifo = <<>>
  BY PromAssumption, Zenon DEF Settled, Queued, Commands, PortCommands, Ports
<1>2. q = Obey(p, "Read ID")
  BY <1>1, PortOn, Zenon
<1>3. q \in Ports /\ FaultShows(q) /\ q.on = p.on
  BY <1>1, <1>2, PortShows, ObeyedPort, Zenon
<1>4. Command("Read ID") = "Read ID"
  BY <1>1, CommandOf, Zenon
<1>5. /\ q = p \/ (\E a : q = [p EXCEPT !.half = FALSE, !.addr = a]) \/ q = Pushed(p, four)
      /\ Faulty("spi", "Read ID") => q = p
  BY <1>2, <1>4, DoesNothing, DoesHalf, DoesReadID, Zenon DEF IDWords
<1> DEFINE faulty == Faulty("spi", "Read ID")
<1>6. faulty => q = p
  BY <1>5
<1> HIDE DEF q, four, faulty
<1>7. four \in Seq({four[1], four[2], four[3], four[4]})
  BY Zenon, ShortSequences DEF four, IDWords
<1>8. <<>> \o four = four
  <2> DEFINE X == {four[1], four[2], four[3], four[4]}
  <2>1. four \in Seq(X)
    BY <1>7
  <2> HIDE DEF X
  <2> QED
    BY <2>1
<1>9. q.fifo = <<>> \/ q.fifo = four
  <2>1. CASE q = p
    BY <1>1, <2>1
  <2>2. CASE \E a : q = [p EXCEPT !.half = FALSE, !.addr = a]
    BY <1>1, <2>2 DEF Spi
  <2>3. CASE q = Pushed(p, four)
    <3>1. q = [p EXCEPT !.fifo = p.fifo \o four]
      BY <2>3, Zenon DEF Pushed
    <3>2. p.fifo \o four = four
      BY <1>1, <1>8, Zenon
    <3>3. q = [p EXCEPT !.fifo = four]
      BY <3>1, <3>2, Zenon
    <3> QED
      BY <1>1, <3>3 DEF Spi
  <2> QED
    BY <1>5, <2>1, <2>2, <2>3, Zenon
<1>10. q \in Filled(<<>>) \/ q \in Filled(four)
  BY <1>1, <1>3, <1>9, Zenon DEF Filled
<1>11. q \in IDRead(w) /\ (faulty => q \in Settled)
  BY <1>6, <1>10, Zenon DEF IDRead, four
<1> QED
  BY <1>11, Zenon DEF q, faulty

\* Reading the ID.
LEMMA ReadIDFinds ==
  ASSUME NEW M \in SUBSET BOOLEAN, Faulty("spi", "Read ID")
  PROVE  Goes(Holding(Settled), ReadID, Failed, M)
<1> HIDE DEF PlainSteps, Do, See, Keep, QuietSteps
<1>1. ReadID \in Seq(AllSteps)
  BY ReadIDGoes, Zenon DEF Goes
<1>2. Makes(Holding(Settled), Do("Read ID"), Holding(Settled), M)
  <2>1. "Read ID" \in PortCommands
    BY Zenon DEF PortCommands, Queued, Commands
  <2> QED
    BY <2>1, IDIsRead, CommandMakes, Zenon
<1>3. Makes(Holding(Settled), See("words", "ID"), Failed, M)
  <2>1. "words" # "word"
    OBVIOUS
  <2>2. Len(<<>>) # 4
    BY IDTails, Zenon
  <2>3. \A r \in RunStates : r.board.spi \in Settled => ~Agrees(r, "words", "ID")
    BY <2>2, LooksTell, Zenon DEF Settled
  <2> QED
    BY <2>1, <2>3, SeeFails, Zenon
<1>4. \A x : Makes(Failed, x, Failed, M)
  BY FailedStays, Zenon
<1>5. Leads(Holding(Settled), ReadID, Failed, M)
  BY <1>2, <1>3, <1>4, HoldingSets, SixStepsLead, Zenon DEF ReadID
<1> QED
  BY <1>1, <1>5, Zenon DEF Goes

\* Keep notes the word that it takes.
LEMMA KeepNotes ==
  ASSUME NEW u, NEW w \in SpiWords
  PROVE  Makes(With(u, Filled(<<w>>)), Keep, With(Append(u, w), Settled), {FALSE})
<1> HIDE DEF SpiWords
<1> DEFINE A == Filled(<<w>>)
<1> SUFFICES ASSUME NEW r \in With(u, A)
             PROVE  /\ r.ok => \A m \in {FALSE} : Step(r, Keep, m) \in With(Append(u, w), Settled)
                    /\ ~r.ok => r \in With(Append(u, w), Settled)
  BY Zenon DEF Makes
<1>1. r \in RunStates /\ r.board.spi \in Ports /\ (r.ok => r.uids = u /\ r.board.spi \in A)
  BY DEF With, Holding, RunStates, IdleBoards
<1>2. ASSUME r.ok PROVE Step(r, Keep, FALSE) \in With(Append(u, w), Settled)
  <2> DEFINE q == Step(r, Keep, FALSE)
             p == r.board.spi
             x == IF FALSE \/ p.fifo = <<>> THEN "misread" ELSE Head(p.fifo)
  <2>1. SpiStep(r, q, TakenPort(p)) /\ q.uids = Append(r.uids, x)
    BY <1>1, KeepStep, Zenon
  <2>2. p.fifo = <<w>> /\ p.on /\ FaultShows(p) /\ p \in Ports
    BY <1>1, <1>2, Zenon DEF Filled
  <2>3. <<w>> # <<>> /\ Head(<<w>>) = w /\ Tail(<<w>>) = <<>> /\ <<>> \in Seq(SpiWords)
    OBVIOUS
  <2>4. x = w
    BY <2>2, <2>3, Zenon
  <2>5. TakenPort(p) = [p EXCEPT !.fifo = <<>>]
    BY <2>2, <2>3, Zenon DEF TakenPort
  <2>6. FaultShows(TakenPort(p))
    BY <2>2, PortShows, Zenon
  <2> HIDE DEF q, p, x
  <2>7. TakenPort(p) \in Ports /\ TakenPort(p).on = p.on /\ TakenPort(p).fifo = <<>>
    BY <2>2, <2>3, <2>5 DEF Ports, Spi
  <2>8. TakenPort(p) \in Settled
    BY <2>2, <2>6, <2>7 DEF Settled
  <2>9. q \in Holding(Settled) /\ q.uids = Append(u, w)
    BY <1>1, <1>2, <2>1, <2>4, <2>8, Zenon DEF SpiStep, Holding
  <2> QED
    BY <2>9, Zenon DEF With, q
<1>3. ASSUME ~r.ok PROVE r \in With(Append(u, w), Settled)
  BY <1>1, <1>3, Zenon DEF With, Holding
<1> QED
  BY <1>2, <1>3, Zenon

\* If PROM 1 cannot be selected, its ID is that of PROM 0.
LEMMA ReadsFirst ==
  ASSUME NEW u, ~Selects1
  PROVE  Goes(With(u, Settled), ReadID, With(Append(u, "uid 0"), Settled), {FALSE})
<1> HIDE DEF PlainSteps, Do, See, Keep, QuietSteps, SpiWords
<1> DEFINE w == "uid 0"
           a == "20BB"  b == "1810"  c == "other"  M == {FALSE}
           G(P, s, Q) == Makes(With(u, P), s, With(u, Q), {FALSE})
           A == IDRead(w)  B == Filled(<<a, b, c, w>>)  C == Filled(<<b, c, w>>)
           D == Filled(<<c, w>>)  E == Filled(<<w>>)
<1>1. ReadID \in Seq(AllSteps)
  BY ReadIDGoes, Zenon DEF Goes
<1>2. a \in SpiWords /\ b \in SpiWords /\ c \in SpiWords /\ w \in SpiWords /\ {FALSE} \in SUBSET BOOLEAN
  BY Zenon DEF SpiWords
<1>3. Do("Read ID") \in Bare /\ See("words", "ID") \in Bare
      /\ See("word", a) \in Bare /\ See("word", b) \in Bare /\ See("word", c) \in Bare
  <2>1. "Read ID" # "Keep"
    OBVIOUS
  <2>2. Do("Read ID") \in Bare
    BY <2>1, PlainCommands, NotKept, Zenon DEF Bare
  <2> QED
    BY <1>2, <2>2, PlainLooks, BareOnes, Zenon
<1>4. G(Settled, Do("Read ID"), A)
  <2>1. "Read ID" \in PortCommands
    BY Zenon DEF PortCommands, Queued, Commands
  <2>2. ASSUME NEW p \in Settled PROVE Port(p, "Read ID") \in A
    <3>1. p.sel = 0
      BY Zenon DEF Settled, FaultShows
    <3> QED
      BY <3>1, IDIsRead, Zenon
  <2>3. Makes(Holding(Settled), Do("Read ID"), Holding(A), {FALSE})
    BY <1>2, <2>1, <2>2, CommandMakes, Zenon
  <2> QED
    BY <1>2, <1>3, <2>3, WithMakes, Zenon
<1>5. G(A, See("words", "ID"), B)
  <2>1. "words" # "word" /\ Len(<<>>) # 4
    BY IDTails, Zenon
  <2>2. \A r \in RunStates : r.board.spi \in A /\ Agrees(r, "words", "ID") => r.board.spi \in B
    BY <2>1, LooksTell, Zenon DEF IDRead, Filled, IDWords
  <2>3. Makes(Holding(A), See("words", "ID"), Holding(B), {FALSE})
    BY <1>2, <2>1, <2>2, SeeMakes, Zenon
  <2> QED
    BY <1>2, <1>3, <2>3, WithMakes, Zenon
<1>6. <<b, c, w>> \in Seq(SpiWords) /\ <<c, w>> \in Seq(SpiWords) /\ <<w>> \in Seq(SpiWords)
  BY <1>2, ShortSequences, Zenon
<1>7. G(B, See("word", a), C) /\ G(C, See("word", b), D) /\ G(D, See("word", c), E)
  <2>1. /\ Makes(Holding(B), See("word", a), Holding(C), {FALSE})
        /\ Makes(Holding(C), See("word", b), Holding(D), {FALSE})
        /\ Makes(Holding(D), See("word", c), Holding(E), {FALSE})
    <3>1. /\ Tail(<<a, b, c, w>>) = <<b, c, w>> /\ Tail(<<b, c, w>>) = <<c, w>>
          /\ Tail(<<c, w>>) = <<w>>
      <4> HIDE DEF a, b, c, w
      <4> QED
        OBVIOUS
    <3> HIDE DEF a, b, c, w
    <3>2. Makes(Holding(B), See("word", a), Holding(C), {FALSE})
      BY <1>2, <1>6, <3>1, FilledMakes, Zenon
    <3>3. Makes(Holding(C), See("word", b), Holding(D), {FALSE})
      BY <1>2, <1>6, <3>1, FilledMakes, Zenon
    <3>4. Makes(Holding(D), See("word", c), Holding(E), {FALSE})
      BY <1>2, <1>6, <3>1, FilledMakes, Zenon
    <3> QED
      BY <3>2, <3>3, <3>4
  <2> QED
    BY <1>2, <1>3, <2>1, WithMakes, Zenon
<1>8. Makes(With(u, E), Keep, With(Append(u, w), Settled), {FALSE})
  BY <1>2, KeepNotes, Zenon
<1>9. \A v, X : With(v, X) \in SUBSET RunStates
  BY Zenon DEF With, Holding
<1> HIDE DEF A, B, C, D, E
<1>10. Leads(With(u, Settled), ReadID, With(Append(u, w), Settled), {FALSE})
  BY <1>4, <1>5, <1>7, <1>8, <1>9, SixStepsLead, Zenon DEF ReadID
<1> QED
  BY <1>1, <1>10, Zenon DEF Goes

\* Two IDs that are the same are an error.
LEMMA SameSeen ==
  ASSUME NEW w, NEW A, NEW M \in SUBSET BOOLEAN
  PROVE  Makes(With(Append(Append(<<>>, w), w), A), See("uids", "two"), Failed, M)
<1> DEFINE u == Append(Append(<<>>, w), w)
<1>1. u[1] = u[2]
  OBVIOUS
<1> HIDE DEF u
<1>2. ASSUME NEW r \in With(u, A), r.ok, NEW m \in M PROVE Step(r, See("uids", "two"), m) \in Failed
  <2> DEFINE q == Step(r, See("uids", "two"), m)
  <2>1. r \in RunStates /\ r.uids = u /\ m \in BOOLEAN
    BY <1>2 DEF With, Holding
  <2>2. q.ok = (Agrees(r, "uids", "two") /\ ~m) /\ "uids" # "word" /\ SpiStep(r, q, r.board.spi)
    BY <2>1, SeeStep
  <2>3. ~Agrees(r, "uids", "two")
    BY <1>1, <2>1, Zenon DEF Agrees
  <2> HIDE DEF q
  <2>4. ~q.ok /\ q \in RunStates
    BY <2>2, <2>3 DEF SpiStep
  <2> QED
    BY <2>4 DEF Failed, q
<1>3. ASSUME NEW r \in With(u, A), ~r.ok PROVE r \in Failed
  BY <1>3 DEF With, Holding, Failed
<1>4. Makes(With(u, A), See("uids", "two"), Failed, M)
  BY <1>2, <1>3, Zenon DEF Makes
<1> QED
  BY <1>4 DEF u

\* Selecting PROM 1.
LEMMA SelectFinds ==
  ASSUME ~Selects1
  PROVE  Goes(With(<<>>, Settled),
              ReadID \o <<Do("Select 1")>> \o ReadID \o <<See("uids", "two"), Do("Select 1")>>,
              Failed, {FALSE})
<1> HIDE DEF PlainSteps, Do, See, Keep, QuietSteps, SpiWords
<1> DEFINE w == "uid 0"
           a == With(<<>>, Settled)  b == With(Append(<<>>, w), Settled)
           c == With(Append(Append(<<>>, w), w), Settled)
           s1 == <<Do("Select 1")>>  s2 == <<See("uids", "two"), Do("Select 1")>>
<1>1. s1 \in Seq(AllSteps) /\ s2 \in Seq(AllSteps)
  <2>1. s1 \in Seq(PlainSteps) /\ s2 \in Seq(PlainSteps)
    BY PlainCommands, PlainLooks, ShortSequences, Zenon
  <2> QED
    BY <2>1, PlainGoes, Zenon
<1>2. {FALSE} \in SUBSET BOOLEAN
  BY Zenon
<1>3. Goes(a, ReadID, b, {FALSE}) /\ Goes(b, ReadID, c, {FALSE})
  BY ReadsFirst, Zenon
<1>4. \A v, X : With(v, X) \in SUBSET RunStates
  BY Zenon DEF With, Holding
<1>5. Goes(b, s1, b, {FALSE})
  <2>1. Makes(Holding(Settled), Do("Select 1"), Holding(Settled), {FALSE})
    BY <1>2, IdleMakes, QuietNames, Zenon
  <2>2. Do("Select 1") \in Bare
    BY BareOnes, Zenon
  <2>3. Makes(b, Do("Select 1"), b, {FALSE})
    BY <1>2, <2>1, <2>2, WithMakes, Zenon
  <2> QED
    BY <1>1, <1>4, <2>3, LeadsOne, Zenon DEF Goes
<1>6. Goes(c, s2, Failed, {FALSE})
  <2>1. Makes(c, See("uids", "two"), Failed, {FALSE})
    BY <1>2, SameSeen, Zenon
  <2>2. Makes(Failed, Do("Select 1"), Failed, {FALSE})
    BY FailedStays, Zenon
  <2> QED
    BY <1>1, <1>4, <2>1, <2>2, HoldingSets, TwoStepsLead, Zenon DEF Goes
<1> HIDE DEF a, b, c, s1, s2
<1>7. Goes(a, ReadID \o s1 \o ReadID, c, {FALSE})
  BY <1>3, <1>5, GoesOn, Zenon
<1>8. Goes(a, ReadID \o s1 \o ReadID \o s2, Failed, {FALSE})
  BY <1>6, <1>7, GoesOn, Zenon
<1> QED
  BY <1>8, Zenon DEF a, s1, s2

(***************************************************************************)
(* The address, whose upper half waits for the lower one.                  *)
(***************************************************************************)
LoWorks == ~Faulty("spi", "AddrLo")
ResetWorks == ~Faulty("spi", "Reset FSM")

Upright == {p \in Ports : p.on /\ FaultShows(p) /\ ~p.half}
Level == {p \in Settled : ~p.half}
Half == {p \in Settled : p.half}
Astray == {p \in Level : p.addr # "FF0000"}

\* What a command stores in the PROM leaves the half of the address that is set.
LEMMA StoredHalf ==
  ASSUME NEW p \in Spi, NEW x
  PROVE  Stored(p, x).half = p.half
  BY DEF Stored, Spi

\* What the port does while an address is half set.
LEMMA HalfWaits ==
  ASSUME NEW p \in Ports, p.on
  PROVE  /\ HiWorks => Port(p, "AddrHi").half = (~p.half)
         /\ HiWorks /\ p.half => Port(p, "AddrHi").addr = "other"
         /\ LoWorks => ~Port(p, "AddrLo").half /\ (~p.half => Port(p, "AddrLo") = p)
         /\ ~LoWorks => Port(p, "AddrLo") = p
         /\ ~p.half => ~Port(p, "Erase").half /\ ~Port(p, "Write D3B").half
         /\ ResetWorks => ~Port(p, "Reset FSM").half
         /\ ~ResetWorks => Port(p, "Reset FSM") = p
<1>0. p \in Spi /\ p.half \in BOOLEAN
  BY DEF Ports, Spi
<1>1. /\ Port(p, "AddrHi") = Obey(p, "AddrHi") /\ Command("AddrHi") = "AddrHi"
      /\ Port(p, "AddrLo") = Obey(p, "AddrLo") /\ Command("AddrLo") = "AddrLo"
      /\ Port(p, "Erase") = Obey(p, "Erase") /\ Command("Erase") = "Erase"
      /\ Port(p, "Write D3B") = Obey(p, "Write D3B") /\ Command("Write D3B") = "Write D3B"
  <2> DEFINE X == {"AddrHi", "AddrLo", "Erase", "Write D3B"}
  <2>1. \A c \in X : c \in Queued
    BY QuietNames, Zenon
  <2>2. \A c \in X : c \notin Files
    BY PromAssumption, Zenon
  <2> HIDE DEF X
  <2>3. ASSUME NEW c \in X PROVE c \in Queued /\ Port(p, c) = Obey(p, c) /\ Command(c) = c
    <3>1. c \in Queued /\ c \notin Files
      BY <2>1, <2>2
    <3> QED
      BY <3>1, PortOn, CommandOf, Zenon
  <2>4. "AddrHi" \in X /\ "AddrLo" \in X /\ "Erase" \in X /\ "Write D3B" \in X
    BY Zenon DEF X
  <2> QED
    BY <2>3, <2>4, Zenon
<1>2. ASSUME HiWorks
      PROVE  /\ Port(p, "AddrHi").half = (~p.half)
             /\ p.half => Port(p, "AddrHi").addr = "other"
  <2> DEFINE q == Port(p, "AddrHi")
             a == IF "AddrHi" = "AddrLo" THEN "FF0000" ELSE "other"
  <2>1. p.half => q = [p EXCEPT !.half = FALSE, !.addr = a]
    <3>1. ~Faulty("spi", Command("AddrHi"))
      BY <1>1, <1>2, Zenon DEF HiWorks
    <3>2. p.half => Obey(p, "AddrHi") = [p EXCEPT !.half = FALSE, !.addr = a]
      BY <3>1, DoesHalf, Zenon
    <3> QED
      BY <1>1, <3>2
  <2>2. ~p.half => q = [p EXCEPT !.half = TRUE]
    BY <1>1, <1>2, DoesAddrHi, Zenon DEF HiWorks
  <2>3. a = "other"
    OBVIOUS
  <2> HIDE DEF q, a
  <2>4. q.half = (~p.half) /\ (p.half => q.addr = "other")
    BY <1>0, <2>1, <2>2, <2>3 DEF Spi
  <2> QED
    BY <2>4 DEF q
<1>3. ASSUME LoWorks PROVE ~Port(p, "AddrLo").half /\ (~p.half => Port(p, "AddrLo") = p)
  <2> DEFINE q == Port(p, "AddrLo")
             a == IF "AddrLo" = "AddrLo" THEN "FF0000" ELSE "other"
  <2>1. p.half => q = [p EXCEPT !.half = FALSE, !.addr = a]
    BY <1>1, <1>3, DoesHalf, Zenon DEF LoWorks
  <2>2. ~p.half => q = p
    BY <1>1, <1>3, DoesAddrLo, Zenon DEF LoWorks
  <2> HIDE DEF q, a
  <2>3. ~q.half /\ (~p.half => q = p)
    BY <1>0, <2>1, <2>2 DEF Spi
  <2> QED
    BY <2>3 DEF q
<1>4. ~LoWorks => Port(p, "AddrLo") = p
  BY <1>1, DoesNothing, Zenon DEF LoWorks
<1>5. ASSUME ~p.half PROVE ~Port(p, "Erase").half
  <2> DEFINE q == Port(p, "Erase")
             e == Stored(p, "erased")
             l == IF p.runs THEN "long" ELSE e.timer
  <2>1. q = p \/ q = [e EXCEPT !.timer = l]
    BY <1>1, <1>5, DoesNothing, DoesErase, Zenon
  <2>2. e.half = p.half /\ e \in Spi
    <3>1. "erased" \in Contents
      BY Zenon DEF Contents
    <3> QED
      BY <1>0, <3>1, StoredHalf, RomTyped, Zenon
  <2> HIDE DEF q, e, l
  <2>3. ~q.half
    BY <1>5, <2>1, <2>2 DEF Spi
  <2> QED
    BY <2>3 DEF q
<1>6. ASSUME ~p.half PROVE ~Port(p, "Write D3B").half
  <2> DEFINE x == Written(p.rom[p.sel], "D3B")
  <2>1. Port(p, "Write D3B") = p \/ Port(p, "Write D3B") = Stored(p, x)
    BY <1>1, <1>6, DoesNothing, DoesWriteD3B, Zenon
  <2>2. Stored(p, x).half = p.half
    BY <1>0, StoredHalf, Zenon
  <2> HIDE DEF x
  <2> QED
    BY <1>6, <2>1, <2>2, Zenon
<1>7. ResetWorks => ~Port(p, "Reset FSM").half
  <2> DEFINE q == Port(p, "Reset FSM")
  <2>1. ResetWorks => q = [p EXCEPT !.half = FALSE]
    BY PortReset, Zenon DEF ResetWorks
  <2> HIDE DEF q
  <2>2. ResetWorks => ~q.half
    BY <1>0, <2>1 DEF Spi
  <2> QED
    BY <2>2 DEF q
<1>8. ~ResetWorks => Port(p, "Reset FSM") = p
  BY PortReset, Zenon DEF ResetWorks
<1> QED
  BY <1>2, <1>3, <1>4, <1>5, <1>6, <1>7, <1>8, Zenon

\* Resetting the state machine leaves an idle port idle.
LEMMA ResetIdle ==
  ASSUME NEW p \in Settled
  PROVE  Port(p, "Reset FSM") \in Settled
<1> DEFINE q == Port(p, "Reset FSM")
<1>1. p \in Ports /\ p.on /\ FaultShows(p) /\ p.fifo = <<>> /\ "Reset FSM" \in PortCommands
  BY Zenon DEF Settled, PortCommands
<1>2. q \in Ports /\ FaultShows(q)
  BY <1>1, PortTyped, PortShows, Zenon
<1>3. q = p \/ q = [p EXCEPT !.half = FALSE]
  BY PortReset, Zenon
<1> HIDE DEF q
<1>4. q.on = p.on /\ q.fifo = p.fifo
  BY <1>1, <1>3 DEF Ports, Spi
<1> QED
  BY <1>1, <1>2, <1>4 DEF Settled, q

\* Commands that are no longer executed: Disable.
LEMMA SwitchingFinds ==
  ASSUME NEW M \in SUBSET BOOLEAN, Faulty("spi", "Disable")
  PROVE  Goes(RunStates, Switching, Failed, M)
<1> HIDE DEF PlainSteps, Do, See, Keep, QuietSteps
<1> DEFINE On == {p \in Ports : p.on}
           O == Holding(On)  R == RunStates
           G(P, s, Q) == Makes(P, s, Q, M)
<1>1. Switching \in Seq(AllSteps)
  BY BasicsParts, Zenon DEF Goes
<1>2. G(R, Do("Enable"), R)
  <2>1. Do("Enable") \in AllSteps
    BY PlainCommands, Zenon DEF AllSteps, TestSteps
  <2> QED
    BY <2>1, StepTyped, Zenon DEF Makes
<1>3. \A r \in RunStates : r.board.spi \in Ports
  BY DEF RunStates, IdleBoards
<1>4. G(R, See("on", "yes"), O)
  <2>1. \A r \in RunStates : Agrees(r, "on", "yes") => r.board.spi.on
    BY Zenon DEF Agrees, YesNo
  <2>2. "on" # "word"
    OBVIOUS
  <2>3. \A r \in RunStates : r.board.spi \in Ports /\ Agrees(r, "on", "yes") => r.board.spi \in On
    BY <2>1, Zenon
  <2>4. G(Holding(Ports), See("on", "yes"), O)
    BY <2>2, <2>3, SeeMakes, Zenon
  <2>5. \A r \in RunStates : r \in Holding(Ports)
    BY <1>3, Zenon DEF Holding
  <2> QED
    BY <2>4, <2>5, MakesLess, Zenon
<1>5. G(O, Do("NoOp"), O)
  <2>1. "NoOp" \in Queued /\ "NoOp" \in PortCommands
    BY QuietNames, Zenon
  <2>2. \A p \in On : Port(p, "NoOp") \in On
    BY <2>1, PortObeys, Zenon
  <2> QED
    BY <2>1, <2>2, CommandMakes, Zenon
<1>6. G(O, Do("Disable"), O)
  <2>1. "Disable" \in PortCommands
    BY Zenon DEF PortCommands
  <2>2. \A p \in On : Port(p, "Disable") \in On
    BY PortDisable, Zenon
  <2> QED
    BY <2>1, <2>2, CommandMakes, Zenon
<1>7. G(O, See("on", "yes"), O) /\ G(O, See("on", "no"), Failed)
  <2>1. "on" # "word"
    OBVIOUS
  <2>2. G(O, See("on", "yes"), O)
    BY <2>1, IdleMakes, Zenon
  <2>3. G(O, See("on", "no"), Failed)
    BY <2>1, LooksTell, SeeFails, Zenon
  <2> QED
    BY <2>2, <2>3, Zenon
<1>8. \A x : G(Failed, x, Failed)
  BY FailedStays, Zenon
<1>9. R \in SUBSET RunStates /\ O \in SUBSET RunStates /\ Failed \in SUBSET RunStates
  BY HoldingSets, Zenon
<1> HIDE DEF O, R
<1>10. Leads(R, Switching, Failed, M)
  BY <1>2, <1>4, <1>5, <1>6, <1>7, <1>8, <1>9, NineStepsLead, Zenon DEF Switching
<1> QED
  BY <1>1, <1>10, Zenon DEF Goes, R

\* What is read at the end of Basics is wrong.
LEMMA RecallWrong ==
  ASSUME NEW M \in SUBSET BOOLEAN, NEW A,
         \A p \in Ports : p \in A => Port(p, "Read") \in Wrong("D3B")
  PROVE  Goes(Holding(A), Recalling, Failed, M)
<1> HIDE DEF PlainSteps, Do, See, Keep, QuietSteps
<1> DEFINE B == Holding(Wrong("D3B"))
<1>1. Recalling \in Seq(AllSteps)
  BY BasicsParts, Zenon DEF Goes
<1>2. "Read" \in PortCommands /\ "words" # "word" /\ "full" # "word"
  BY Zenon DEF PortCommands, Queued, Commands
<1>3. Makes(Holding(A), Do("Read"), B, M)
  BY <1>2, CommandMakes, Zenon
<1>4. /\ Makes(B, See("words", "one"), B, M) /\ Makes(B, See("full", "yes"), B, M)
      /\ Makes(B, See("word", "D3B"), Failed, M)
  BY <1>2, IdleMakes, Zenon
<1>5. Leads(Holding(A), Recalling, Failed, M)
  BY <1>3, <1>4, HoldingSets, FourStepsLead, Zenon DEF Recalling
<1> QED
  BY <1>1, <1>5, Zenon DEF Goes

\* What is read back shows whether it has been written where it should.
LEMMA RecallFinds ==
  ASSUME NEW M \in SUBSET BOOLEAN
  PROVE  /\ ~HiWorks \/ ~D3BWorks \/ ~ReadWorks => Goes(Holding(Settled), Recalling, Failed, M)
         /\ Goes(Holding(Half), Recalling, Failed, M)
         /\ Goes(Holding(Astray), Recalling, Failed, M)
<1>0. "D3B" # "erased"
  OBVIOUS
<1>1. ASSUME ~HiWorks \/ ~D3BWorks \/ ~ReadWorks PROVE Goes(Holding(Settled), Recalling, Failed, M)
  <2>1. ASSUME NEW p \in Settled PROVE Port(p, "Read") \in Wrong("D3B")
    <3>1. p.sel \in 0 .. 1 /\ FaultShows(p)
      BY DEF Settled, Ports, Spi
    <3>2. ReadWorks /\ p.addr = "FF0000" => p.rom[p.sel] # "D3B"
      BY <1>1, <3>1, Zenon DEF FaultShows
    <3> QED
      BY <1>0, <3>2, ReadWrong, Zenon
  <2> QED
    BY <2>1, RecallWrong, Zenon
<1>2. ASSUME NEW p \in Half PROVE Port(p, "Read") \in Wrong("D3B")
  <2> DEFINE q == Port(p, "Read")
             a == IF "Read" = "AddrLo" THEN "FF0000" ELSE "other"
  <2>1. p \in Ports /\ p \in Spi /\ p.on /\ p.half /\ p.fifo = <<>> /\ "Read" \in Queued /\ "Read" \in PortCommands
    BY Zenon DEF Half, Settled, Ports, Queued, Commands, PortCommands
  <2>2. q = Obey(p, "Read") /\ q \in Ports
    BY <2>1, PortOn, PortTyped, Zenon
  <2>3. q = p \/ q = [p EXCEPT !.half = FALSE, !.addr = a]
    BY <2>1, <2>2, DoesNothing, DoesHalf, Zenon
  <2> HIDE DEF q, a
  <2>4. q.fifo = <<>>
    BY <2>1, <2>3 DEF Spi
  <2> QED
    BY <2>2, <2>4, Zenon DEF Wrong, q
<1>3. ASSUME NEW p \in Astray PROVE Port(p, "Read") \in Wrong("D3B")
  <2>1. p \in Settled /\ p.addr # "FF0000"
    BY DEF Astray, Level
  <2> QED
    BY <1>0, <2>1, ReadWrong, Zenon
<1> QED
  BY <1>1, <1>2, <1>3, RecallWrong, Zenon

\* The lower half is ignored: the upper half still waits when the page is read.
LEMMA LowerFinds ==
  ASSUME NEW M \in SUBSET BOOLEAN, HiWorks, ResetWorks, ~LoWorks
  PROVE  Goes(Holding(Settled), Resetting \o Address, Holding(Half), M)
<1> HIDE DEF PlainSteps, Do, See, Keep, QuietSteps
<1> DEFINE I == Holding(Settled)  L == Holding(Level)  H == Holding(Half)
<1>1. Resetting \in Seq(AllSteps) /\ Address \in Seq(AllSteps)
  <2>1. Resetting \in Seq(PlainSteps) /\ Address \in Seq(PlainSteps)
    BY PlainCommands, ShortSequences, Zenon DEF Resetting, Address
  <2> QED
    BY <2>1, PlainGoes, Zenon
<1>2. "AddrHi" \in PortCommands /\ "AddrLo" \in PortCommands /\ "Reset FSM" \in PortCommands
  BY Zenon DEF PortCommands, Queued, Commands
<1>3. Makes(I, Do("AddrHi"), I, M)
  BY IdleMakes, QuietNames, Zenon
<1>4. Makes(I, Do("Reset FSM"), L, M)
  <2>1. \A p \in Settled : Port(p, "Reset FSM") \in Level
    BY ResetIdle, HalfWaits, Zenon DEF Settled, Level
  <2> QED
    BY <1>2, <2>1, CommandMakes, Zenon
<1>5. Makes(L, Do("AddrHi"), H, M)
  <2>1. ASSUME NEW p \in Level PROVE Port(p, "AddrHi") \in Half
    <3>1. p \in Settled /\ p \in Ports /\ p.on /\ ~p.half
      BY DEF Settled, Level
    <3>2. Port(p, "AddrHi") \in Settled
      BY <3>1, QuietNames, IdleCommands, Zenon
    <3>3. Port(p, "AddrHi").half = (~p.half)
      BY <3>1, HalfWaits, Zenon
    <3>4. Port(p, "AddrHi").half
      BY <3>1, <3>3
    <3> QED
      BY <3>2, <3>4, Zenon DEF Half
  <2> QED
    BY <1>2, <2>1, CommandMakes, Zenon
<1>6. Makes(H, Do("AddrLo"), H, M)
  <2>1. \A p \in Half : Port(p, "AddrLo") \in Half
    BY HalfWaits, Zenon DEF Half, Settled
  <2> QED
    BY <1>2, <2>1, CommandMakes, Zenon
<1>7. Leads(I, Resetting, L, M) /\ Leads(L, Address, H, M)
  BY <1>3, <1>4, <1>5, <1>6, HoldingSets, TwoStepsLead, Zenon DEF Resetting, Address
<1> HIDE DEF I, L, H, Resetting, Address
<1>8. Goes(I, Resetting \o Address, H, M)
  BY <1>1, <1>7, GoesOn, Zenon DEF Goes
<1> QED
  BY <1>8, Zenon DEF I, H

\* The reset is ignored: the upper half that it should clear takes the next
\* one for a lower half.
LEMMA ResetFinds ==
  ASSUME NEW M \in SUBSET BOOLEAN, HiWorks, LoWorks, ~ResetWorks
  PROVE  /\ Goes(Fifo(4) \cap Showing, Address \o Storing, Holding(Level), M)
         /\ Goes(Holding(Level), Resetting \o Address, Holding(Astray), M)
<1> HIDE DEF PlainSteps, Do, See, Keep, QuietSteps
<1> DEFINE Lit == {p \in Ports : p.on /\ FaultShows(p)}
           O == Holding(Lit)  U == Holding(Upright)  L == Holding(Level)  H == Holding(Half)
           A == Holding(Astray)
<1>1. /\ Resetting \in Seq(AllSteps) /\ Address \in Seq(AllSteps)
      /\ Storing \in Seq(AllSteps)
  <2>1. Resetting \in Seq(PlainSteps) /\ Address \in Seq(PlainSteps) /\ Storing \in Seq(PlainSteps)
    BY PlainCommands, PlainLooks, ShortSequences, Zenon DEF Resetting, Address, Storing
  <2> QED
    BY <2>1, PlainGoes, Zenon
<1>2. /\ "AddrHi" \in PortCommands /\ "AddrLo" \in PortCommands /\ "Reset FSM" \in PortCommands
      /\ "Erase" \in PortCommands /\ "Write D3B" \in PortCommands
  BY Zenon DEF PortCommands, Queued, Commands
<1>3. ASSUME NEW p \in Lit, NEW c \in Queued PROVE Port(p, c) \in Lit
  <2>1. p \in Ports /\ p.on /\ FaultShows(p) /\ c \in PortCommands
    BY Zenon DEF PortCommands
  <2> QED
    BY <2>1, PortObeys, PortShows, Zenon
<1>4. "AddrHi" \in Queued /\ "AddrLo" \in Queued /\ "Erase" \in Queued /\ "Write D3B" \in Queued
  BY QuietNames, Zenon
<1>5. Makes(O, Do("AddrHi"), O, M)
  BY <1>2, <1>3, <1>4, CommandMakes, Zenon
<1>6. Makes(O, Do("AddrLo"), U, M)
  <2>1. \A p \in Lit : Port(p, "AddrLo") \in Upright
    BY <1>3, <1>4, HalfWaits, Zenon DEF Upright
  <2> QED
    BY <1>2, <2>1, CommandMakes, Zenon
<1>7. Makes(U, Do("Erase"), U, M) /\ Makes(U, Do("Write D3B"), U, M)
  <2>1. \A p \in Upright : p \in Lit /\ ~p.half /\ p \in Ports /\ p.on
    BY Zenon DEF Upright
  <2>2. \A p \in Lit : ~p.half => p \in Upright
    BY Zenon DEF Upright
  <2>3. ASSUME NEW p \in Upright PROVE Port(p, "Erase") \in Upright /\ Port(p, "Write D3B") \in Upright
    <3>1. Port(p, "Erase") \in Lit /\ Port(p, "Write D3B") \in Lit
      BY <1>3, <1>4, <2>1, Zenon
    <3>2. ~Port(p, "Erase").half /\ ~Port(p, "Write D3B").half
      BY <2>1, HalfWaits, Zenon
    <3> QED
      BY <2>2, <3>1, <3>2, Zenon
  <2> QED
    BY <1>2, <2>3, CommandMakes, Zenon
<1>8. Makes(U, See("words", "none"), L, M)
  <2>1. "words" # "word"
    OBVIOUS
  <2>2. ASSUME NEW r \in RunStates, r.board.spi \in Upright, Agrees(r, "words", "none")
        PROVE  r.board.spi \in Level
    <3> DEFINE p == r.board.spi
               f == p.fifo
    <3>1. p \in Ports /\ p.on /\ FaultShows(p) /\ ~p.half /\ f \in Seq(SpiWords)
      BY <2>2 DEF Upright, Ports, Spi
    <3>2. Len(f) = 0
      BY <2>2, LooksTell, Zenon
    <3> HIDE DEF f, SpiWords
    <3>3. f = <<>>
      BY <3>1, <3>2
    <3> QED
      BY <3>1, <3>3, Zenon DEF Level, Settled, f
  <2> QED
    BY <2>1, <2>2, SeeMakes, Zenon
<1>9. \A p \in Level : p \in Settled /\ p \in Ports /\ p.on /\ ~p.half
  BY DEF Level, Settled
<1>10. \A p \in Settled : Port(p, "AddrHi") \in Settled
  BY QuietNames, IdleCommands, Zenon
<1>11. Makes(L, Do("AddrHi"), H, M)
  <2>1. ASSUME NEW p \in Level PROVE Port(p, "AddrHi") \in Half
    <3>1. Port(p, "AddrHi").half = (~p.half)
      BY <1>9, HalfWaits, Zenon
    <3>2. Port(p, "AddrHi").half
      BY <1>9, <3>1
    <3> QED
      BY <1>9, <1>10, <3>2, Zenon DEF Half
  <2> QED
    BY <1>2, <2>1, CommandMakes, Zenon
<1>12. \A p \in Half : p \in Settled /\ p \in Ports /\ p.on /\ p.half
  BY DEF Half, Settled
<1>13. Makes(H, Do("Reset FSM"), H, M)
  <2>1. ASSUME NEW p \in Half PROVE Port(p, "Reset FSM") \in Half
    <3>1. Port(p, "Reset FSM") = p
      BY <1>12, HalfWaits, Zenon
    <3> QED
      BY <3>1
  <2> QED
    BY <1>2, <2>1, CommandMakes, Zenon
<1>14. Makes(H, Do("AddrHi"), A, M)
  <2>1. ASSUME NEW p \in Half PROVE Port(p, "AddrHi") \in Astray
    <3>1. Port(p, "AddrHi").half = (~p.half) /\ Port(p, "AddrHi").addr = "other"
      BY <1>12, HalfWaits, Zenon
    <3>2. ~Port(p, "AddrHi").half /\ Port(p, "AddrHi").addr # "FF0000"
      BY <1>12, <3>1
    <3> QED
      BY <1>10, <1>12, <3>2, Zenon DEF Astray, Level
  <2> QED
    BY <1>2, <2>1, CommandMakes, Zenon
<1>15. Makes(A, Do("AddrLo"), A, M)
  <2>1. \A p \in Astray : Port(p, "AddrLo") \in Astray
    BY <1>9, HalfWaits, Zenon DEF Astray
  <2> QED
    BY <1>2, <2>1, CommandMakes, Zenon
<1>16. \A r \in Fifo(4) \cap Showing : r \in O
  <2>1. \A r \in Fifo(4) : r.ok => r.board.spi.on
    BY Zenon DEF Fifo
  <2>2. \A r \in Showing : r \in RunStates /\ r.board.spi \in Ports /\ FaultShows(r.board.spi)
    BY DEF Showing, RunStates, IdleBoards
  <2> QED
    BY <2>1, <2>2, Zenon DEF Holding
<1>17. /\ O \in SUBSET RunStates /\ U \in SUBSET RunStates /\ L \in SUBSET RunStates
       /\ H \in SUBSET RunStates /\ A \in SUBSET RunStates
  BY HoldingSets, Zenon
<1> HIDE DEF O, U, L, H, A
<1>18. Leads(O, Address, U, M) /\ Leads(L, Resetting, H, M) /\ Leads(H, Address, A, M)
  BY <1>5, <1>6, <1>11, <1>13, <1>14, <1>15, <1>17, TwoStepsLead, Zenon DEF Resetting, Address
<1>19. Leads(U, Storing, L, M)
  BY <1>7, <1>8, <1>17, ThreeStepsLead, Zenon DEF Storing
<1> HIDE DEF Resetting, Address, Storing
<1>20. Goes(O, Address \o Storing, L, M) /\ Goes(L, Resetting \o Address, A, M)
  BY <1>1, <1>18, <1>19, GoesOn, Zenon DEF Goes
<1> QED
  BY <1>16, <1>20, GoesLess, Zenon DEF L, A

\* Basics finds the faults of the ten commands that it uses, but for NoOp.
LEMMA BasicsFinds ==
  ASSUME NEW M \in SUBSET BOOLEAN,
         \/ Faulty("spi", "Enable") \/ Faulty("spi", "Disable")
         \/ ~HiWorks \/ ~D3BWorks \/ ~ReadWorks
         \/ ~LoWorks /\ HiWorks /\ ResetWorks
         \/ ~ResetWorks /\ HiWorks /\ LoWorks
  PROVE  Goes(GoodRuns \cap Showing, Basics, Failed, M)
<1> DEFINE a == Switching  b == Address \o Storing  c == Resetting \o Address  d == Recalling
           S == GoodRuns \cap Showing  T == Fifo(4) \cap Showing  R == Fifo(0) \cap Showing
           I == Holding(Settled)
           F(P, s, Q) == Goes(P, s, Q, M)
<1>1. Basics = a \o b \o c \o d
  BY BasicsParts, Zenon
<1>2. F(S, a, T) /\ F(T, b, R) /\ F(R, c, R)
  BY BasicsParts, ShownGoes, Zenon
<1>3. \A r \in R : r \in I
  BY ReadyIdle, Zenon
<1>4. b \in Seq(AllSteps) /\ c \in Seq(AllSteps) /\ d \in Seq(AllSteps)
  BY BasicsParts, Zenon DEF Goes
<1>5. CASE Faulty("spi", "Enable")
  <2>1. F(GoodRuns, Basics, Fifo(0))
    BY BasicsGoes, Zenon
  <2>2. \A r \in Fifo(0) : r \in Failed
    BY <1>5, Zenon DEF Fifo, EnableWorks, Failed, GoodRuns
  <2> QED
    BY <2>1, <2>2, Zenon DEF Goes, Leads
<1>6. ASSUME F(S, a, Failed) PROVE F(S, Basics, Failed)
  <2> HIDE DEF a, b, c, d, S
  <2>1. F(S, a \o b, Failed)
    BY <1>4, <1>6, GoesWrong, Zenon
  <2>2. F(S, a \o b \o c, Failed)
    BY <1>4, <2>1, GoesWrong, Zenon
  <2>3. F(S, a \o b \o c \o d, Failed)
    BY <1>4, <2>2, GoesWrong, Zenon
  <2> QED
    BY <1>1, <2>3, Zenon
<1>7. CASE Faulty("spi", "Disable")
  <2>1. F(RunStates, a, Failed)
    BY <1>7, SwitchingFinds, Zenon
  <2>2. \A r \in S : r \in RunStates
    BY HoldingSets, Zenon
  <2>3. F(S, a, Failed)
    BY <2>1, <2>2, GoesLess, Zenon
  <2> QED
    BY <1>6, <2>3, Zenon
<1>8. ASSUME NEW A, NEW B, F(T, b, A), F(A, c, B), F(B, d, Failed) PROVE F(S, Basics, Failed)
  <2> HIDE DEF a, b, c, d, S, T
  <2>1. F(S, a \o b, A)
    BY <1>2, <1>8, GoesOn, Zenon
  <2>2. F(S, a \o b \o c, B)
    BY <1>8, <2>1, GoesOn, Zenon
  <2>3. F(S, a \o b \o c \o d, Failed)
    BY <1>8, <2>2, GoesOn, Zenon
  <2> QED
    BY <1>1, <2>3, Zenon
<1>9. CASE ~HiWorks \/ ~D3BWorks \/ ~ReadWorks
  <2>1. F(R, d, Failed)
    BY <1>3, <1>9, RecallFinds, GoesLess, Zenon
  <2> QED
    BY <1>2, <1>8, <2>1, Zenon
<1>10. CASE ~LoWorks /\ HiWorks /\ ResetWorks
  <2>1. F(I, c, Holding(Half))
    BY <1>10, LowerFinds, Zenon
  <2>2. F(R, c, Holding(Half))
    BY <1>3, <2>1, GoesLess, Zenon
  <2>3. F(Holding(Half), d, Failed)
    BY RecallFinds, Zenon
  <2> QED
    BY <1>2, <1>8, <2>2, <2>3, Zenon
<1>11. CASE ~ResetWorks /\ HiWorks /\ LoWorks
  <2>1. F(T, b, Holding(Level)) /\ F(Holding(Level), c, Holding(Astray))
    BY <1>11, ResetFinds, Zenon
  <2>2. F(Holding(Astray), d, Failed)
    BY RecallFinds, Zenon
  <2> QED
    BY <1>8, <2>1, <2>2, Zenon
<1> QED
  BY <1>5, <1>7, <1>9, <1>10, <1>11, Zenon

(***************************************************************************)
(* The configuration registers. A value that was seen is there; a later    *)
(* look for another one is wrong.                                          *)
(***************************************************************************)
Off == {r \in RunStates : r.ok => r.board.cfg["DELAYS"] = "test - 1"}
Clear == {r \in RunStates : r.ok => Untested(r.board.cfg)}

\* A look at a register passes only if it has the value.
LEMMA RegSeen ==
  ASSUME NEW r \in RunStates, NEW reg \in CfgRegs, NEW v, NEW m \in BOOLEAN
  PROVE  LET q == Step(r, See(reg, v), m)
         IN q \in RunStates /\ q.board.cfg = r.board.cfg /\ (q.ok => r.board.cfg[reg] = v)
<1> DEFINE q == Step(r, See(reg, v), m)
<1>1. reg # "word"
  BY Zenon DEF CfgRegs
<1>2. SpiStep(r, q, r.board.spi) /\ q.ok = (Agrees(r, reg, v) /\ ~m)
  BY <1>1, SeeStep
<1>3. Agrees(r, reg, v) => r.board.cfg[reg] = v
  <2>1. /\ reg # "on" /\ reg # "words" /\ reg # "full" /\ reg # "word" /\ reg # "LSB"
        /\ reg # "MSB" /\ reg # "stopped" /\ reg # "register" /\ reg # "uids"
    BY Zenon DEF CfgRegs
  <2> QED
    BY <2>1, Zenon DEF Agrees
<1> HIDE DEF q
<1>4. q.ok => Agrees(r, reg, v)
  BY <1>2, AgreesTyped
<1> QED
  BY <1>2, <1>3, <1>4, Zenon DEF SpiStep, q

\* A register that none of the states has at the value looked for.
LEMMA RegFails ==
  ASSUME NEW P \in SUBSET RunStates, NEW reg \in CfgRegs, NEW v, NEW M \in SUBSET BOOLEAN,
         \A r \in P : r.ok => r.board.cfg[reg] # v
  PROVE  Makes(P, See(reg, v), Failed, M)
<1> DEFINE s == See(reg, v)
<1>1. ASSUME NEW r \in P, r.ok, NEW m \in M PROVE Step(r, s, m) \in Failed
  <2>1. r \in RunStates /\ m \in BOOLEAN
    OBVIOUS
  <2>2. Step(r, s, m) \in RunStates /\ (Step(r, s, m).ok => r.board.cfg[reg] = v)
    BY <2>1, RegSeen
  <2> HIDE DEF s
  <2> QED
    BY <1>1, <2>2, Zenon DEF Failed
<1> HIDE DEF s
<1>2. \A r \in P : ~r.ok => r \in Failed
  BY Zenon DEF Failed
<1>3. Makes(P, s, Failed, M)
  BY <1>1, <1>2, Zenon DEF Makes
<1> QED
  BY <1>3 DEF s

\* Off is reached by the look for it, or by a write that works, and stays.
LEMMA OffMakes ==
  ASSUME NEW M \in SUBSET BOOLEAN
  PROVE  /\ Makes(RunStates, See("DELAYS", "test - 1"), Off, M)
         /\ Makes(Off, See("KILL", "test - 1"), Off, M)
         /\ Makes(Off, SetReg("KILL", "test - 1"), Off, M)
         /\ (\A reg \in CfgRegs : ~Faulty("cfg", reg)) =>
              Makes(RunStates, SetReg("DELAYS", "test - 1"), Off, M)
         /\ Faulty("cfg load", 0) => Makes(Off, Do("Load"), Off, M)
         /\ Faulty("soft reset", 0) => Makes(Off, Do("Soft reset"), Off, M)
         /\ Makes(Off, See("DELAYS", "test"), Failed, M)
<1> DEFINE D == "DELAYS"  K == "KILL"  v == "test - 1"
<1>0. D \in CfgRegs /\ K \in CfgRegs /\ D # K /\ v \in CfgValues
  BY Zenon DEF CfgRegs, CfgValues
<1>1. Off \in SUBSET RunStates /\ \A r \in RunStates : ~r.ok => r \in Off
  BY Zenon DEF Off
<1>2. \A m \in M : m \in BOOLEAN
  OBVIOUS
<1>3. \A r \in RunStates : r.board.cfg[D] = v => r \in Off
  BY Zenon DEF Off
<1>4. \A r \in Off : r.ok => r.board.cfg[D] = v
  BY Zenon DEF Off
<1>5. v # "test"
  OBVIOUS
<1> HIDE DEF D, K, v
<1>6. Makes(RunStates, See(D, v), Off, M)
  <2> DEFINE s == See(D, v)
  <2>1. ASSUME NEW r \in RunStates, r.ok, NEW m \in M PROVE Step(r, s, m) \in Off
    <3>1. /\ Step(r, s, m) \in RunStates /\ Step(r, s, m).board.cfg = r.board.cfg
          /\ (Step(r, s, m).ok => r.board.cfg[D] = v)
      BY <1>0, <1>2, <2>1, RegSeen
    <3> HIDE DEF s
    <3> QED
      BY <1>1, <1>3, <3>1, Zenon
  <2> HIDE DEF s
  <2>2. Makes(RunStates, s, Off, M)
    BY <1>1, <2>1, Zenon DEF Makes
  <2> QED
    BY <2>2 DEF s
<1>7. Makes(Off, See(K, v), Off, M)
  <2> DEFINE s == See(K, v)
  <2>1. ASSUME NEW r \in Off, r.ok, NEW m \in M PROVE Step(r, s, m) \in Off
    <3>1. Step(r, s, m) \in RunStates /\ Step(r, s, m).board.cfg = r.board.cfg
      BY <1>0, <1>1, <1>2, <2>1, RegSeen
    <3> HIDE DEF s
    <3> QED
      BY <1>3, <1>4, <2>1, <3>1, Zenon
  <2> HIDE DEF s
  <2>2. Makes(Off, s, Off, M)
    BY <2>1, Zenon DEF Makes
  <2> QED
    BY <2>2 DEF s
<1>8. ASSUME NEW r \in RunStates, NEW reg \in CfgRegs, NEW m \in M
      PROVE  LET q == Step(r, SetReg(reg, v), m)
             IN /\ q \in RunStates
                /\ q.board.cfg = SetTo(r.board.cfg, [r.board.cfg EXCEPT ![reg] = v])
                /\ r.board.cfg \in Configurations
  <2>1. CfgStep(r, Step(r, SetReg(reg, v), m), SetTo(r.board.cfg, [r.board.cfg EXCEPT ![reg] = v]), r.board.prom)
    BY <1>0, <1>2, SetStep
  <2>2. r.board.cfg \in Configurations
    BY DEF RunStates, IdleBoards, Boards
  <2> QED
    BY <2>1, <2>2, Zenon DEF CfgStep
<1>9. Makes(Off, SetReg(K, v), Off, M)
  <2> DEFINE s == SetReg(K, v)
  <2>1. ASSUME NEW r \in Off, r.ok, NEW m \in M PROVE Step(r, s, m) \in Off
    <3> DEFINE q == Step(r, s, m)
               c == r.board.cfg
    <3>1. q \in RunStates /\ q.board.cfg = SetTo(c, [c EXCEPT ![K] = v]) /\ c \in Configurations
      BY <1>0, <1>1, <1>8, <2>1, Zenon
    <3> HIDE DEF q, c
    <3>2. SetTo(c, [c EXCEPT ![K] = v])[D] = c[D]
      BY <1>0, <3>1 DEF SetTo, Configurations
    <3>3. c[D] = v
      BY <1>4, <2>1, Zenon DEF c
    <3>4. q.board.cfg[D] = v
      BY <3>1, <3>2, <3>3, Zenon
    <3> QED
      BY <1>3, <3>1, <3>4, Zenon DEF q
  <2> HIDE DEF s
  <2>2. Makes(Off, s, Off, M)
    BY <2>1, Zenon DEF Makes
  <2> QED
    BY <2>2 DEF s
<1>10. ASSUME \A reg \in CfgRegs : ~Faulty("cfg", reg)
       PROVE  Makes(RunStates, SetReg(D, v), Off, M)
  <2> DEFINE s == SetReg(D, v)
  <2>1. ASSUME NEW r \in RunStates, r.ok, NEW m \in M PROVE Step(r, s, m) \in Off
    <3> DEFINE q == Step(r, s, m)
               c == r.board.cfg
    <3>1. q \in RunStates /\ q.board.cfg = SetTo(c, [c EXCEPT ![D] = v]) /\ c \in Configurations
      BY <1>0, <1>8, <2>1, Zenon
    <3> HIDE DEF q, c
    <3>2. SetTo(c, [c EXCEPT ![D] = v])[D] = v
      BY <1>0, <1>10, <3>1 DEF SetTo, Configurations
    <3>4. q.board.cfg[D] = v
      BY <3>1, <3>2, Zenon
    <3> QED
      BY <1>3, <3>1, <3>4, Zenon DEF q
  <2> HIDE DEF s
  <2>2. Makes(RunStates, s, Off, M)
    BY <1>1, <2>1, Zenon DEF Makes
  <2> QED
    BY <2>2 DEF s
<1>11. /\ Faulty("cfg load", 0) => Makes(Off, Do("Load"), Off, M)
       /\ Faulty("soft reset", 0) => Makes(Off, Do("Soft reset"), Off, M)
  BY <1>1, <1>2, LoadStep, Zenon DEF Makes
<1>12. Makes(Off, See(D, "test"), Failed, M)
  BY <1>0, <1>1, <1>4, <1>5, RegFails, Zenon
<1> QED
  BY <1>6, <1>7, <1>9, <1>10, <1>11, <1>12, Zenon DEF D, K, v

\* A configuration register, the save, the load or the soft reset at fault.
LEMMA ConfigFinds ==
  ASSUME NEW M \in SUBSET BOOLEAN,
         \/ \E reg \in CfgRegs : Faulty("cfg", reg)
         \/ /\ \A reg \in CfgRegs : ~Faulty("cfg", reg)
            /\ \/ SaveFails /\ ~Faulty("cfg load", 0)
               \/ Faulty("cfg load", 0)
               \/ Faulty("soft reset", 0)
  PROVE  Goes(Pristine, Config, Failed, M)
<1> DEFINE D == "DELAYS"  K == "KILL"
           a == SetAndSee("test")  b == <<Do("Save")>>  c == SetAndSee("test - 1")
           d == <<Do("Load")>>  e == SeeAll("test")  f == SetAll("test - 1")
           g == <<Do("Soft reset")>>
           F(P, s, Q) == Goes(P, s, Q, M)
           T(s) == s \in Seq(AllSteps)
<1>1. Config = Taking \o a \o b \o c \o d \o e \o f \o g \o e
  BY Zenon DEF Config, Taking
<1>2. T(Taking) /\ T(a) /\ T(b) /\ T(c) /\ T(d) /\ T(e) /\ T(f) /\ T(g)
  <2>1. T(Taking)
    BY StepSets, PlainCommands, ShortSequences, Zenon DEF Taking
  <2> QED
    BY <2>1, ConfigParts, StepSets, SeqMonotonic, Zenon
<1>3. Pristine \in SUBSET RunStates /\ Restorable \in SUBSET RunStates /\ Off \in SUBSET RunStates
      /\ Clear \in SUBSET RunStates /\ Failed \in SUBSET RunStates /\ RunStates \in SUBSET RunStates
  BY Zenon DEF Pristine, Restorable, Off, Clear, Failed
<1>4. \A s \in Seq(TestSteps) : F(Restorable, s, Restorable)
  BY <1>3, TestsAfter, StepSets, SeqMonotonic, LeadsKeep, Zenon DEF Goes
<1>5. F(Pristine, Taking, Restorable)
  <2>1. <<Do("Select 0"), Do("Load")>> \in Seq(PlainSteps)
    BY PlainCommands, ShortSequences, Zenon
  <2>2. F(Pristine, <<Do("Select 0"), Do("Load")>>, Pristine)
    BY <1>3, <2>1, PlainBefore, PlainGoes, LeadsKeep, Zenon DEF Goes
  <2>3. F(Pristine, <<Do("Originals")>>, Restorable)
    <3>1. <<Do("Originals")>> \in Seq(AllSteps)
      BY StepSets, OneWord, Zenon
    <3>2. Leads(Pristine, <<Do("Originals")>>, Restorable, M)
      BY <1>3, OriginalsAfter, LeadsOne, Zenon
    <3> QED
      BY <3>1, <3>2, Zenon DEF Goes
  <2>4. Taking = <<Do("Select 0"), Do("Load")>> \o <<Do("Originals")>>
    <3>1. Do("Select 0") \in AllSteps /\ Do("Load") \in AllSteps /\ Do("Originals") \in AllSteps
      BY StepSets, PlainCommands, Zenon
    <3> QED
      BY <3>1, ThreeSteps, Zenon DEF Taking
  <2> QED
    BY <2>2, <2>3, <2>4, GoesOn, Zenon
<1>6. D \in CfgRegs /\ K \in CfgRegs /\ (\A reg \in CfgRegs : reg = D \/ reg = K)
  BY Zenon DEF CfgRegs
<1>7. ASSUME F(Restorable, a, Failed) PROVE F(Pristine, Config, Failed)
  <2> HIDE DEF a, b, c, d, e, f, g, Taking
  <2>1. F(Pristine, Taking \o a, Failed)
    BY <1>5, <1>7, GoesOn, Zenon
  <2>2. F(Pristine, Taking \o a \o b \o c, Failed)
    BY <1>2, <2>1, GoesWrong, Zenon
  <2>3. F(Pristine, Taking \o a \o b \o c \o d \o e, Failed)
    BY <1>2, <2>2, GoesWrong, Zenon
  <2>4. F(Pristine, Taking \o a \o b \o c \o d \o e \o f \o g, Failed)
    BY <1>2, <2>3, GoesWrong, Zenon
  <2>5. F(Pristine, Taking \o a \o b \o c \o d \o e \o f \o g \o e, Failed)
    BY <1>2, <2>4, GoesWrong, Zenon
  <2> QED
    BY <1>1, <2>5, Zenon
<1>8. F(Pristine, Taking \o a \o b, Restorable)
  <2>1. F(Restorable, a, Restorable) /\ F(Restorable, b, Restorable)
    BY <1>4, ConfigParts, Zenon
  <2> HIDE DEF a, b, Taking
  <2> QED
    BY <1>5, <2>1, GoesOn, Zenon
<1>9. F(Pristine, Taking \o a \o b \o c, Restorable)
  <2>1. F(Restorable, c, Restorable)
    BY <1>4, ConfigParts, Zenon
  <2> HIDE DEF a, b, c, Taking
  <2> QED
    BY <1>8, <2>1, GoesOn, Zenon
<1>10. ASSUME NEW P, F(Pristine, Taking \o a \o b \o c \o d, P), F(P, e, Failed)
       PROVE  F(Pristine, Config, Failed)
  <2> HIDE DEF a, b, c, d, e, f, g, Taking
  <2>1. F(Pristine, Taking \o a \o b \o c \o d \o e, Failed)
    BY <1>10, GoesOn, Zenon
  <2>2. F(Pristine, Taking \o a \o b \o c \o d \o e \o f \o g, Failed)
    BY <1>2, <2>1, GoesWrong, Zenon
  <2>3. F(Pristine, Taking \o a \o b \o c \o d \o e \o f \o g \o e, Failed)
    BY <1>2, <2>2, GoesWrong, Zenon
  <2> QED
    BY <1>1, <2>3, Zenon
<1>11. ASSUME NEW P \in SUBSET RunStates, Makes(P, See(D, "test"), Failed, M)
       PROVE  F(P, e, Failed)
  <2> DEFINE x == See(D, "test")  y == See(K, "test")
  <2>1. Makes(P, x, Failed, M) /\ Makes(Failed, y, Failed, M)
    BY <1>11, FailedStays
  <2>2. <<x, y>> = e
    BY Zenon DEF SeeAll
  <2> HIDE DEF x, y, e
  <2>3. Leads(P, <<x, y>>, Failed, M)
    BY <1>3, <2>1, TwoStepsLead, Zenon
  <2> QED
    BY <1>2, <2>2, <2>3, Zenon DEF Goes
<1>12. ASSUME NEW reg \in CfgRegs, Faulty("cfg", reg) PROVE F(Restorable, a, Failed)
  <2> DEFINE x == SetReg(D, "test")  y == See(D, "test")  z == SetReg(K, "test")  w == See(K, "test")
  <2>1. \A r \in Restorable : r.ok => r.board.cfg[reg] # "test"
    BY <1>12, Zenon DEF Restorable, Removable, TestValues
  <2>2. Makes(Restorable, See(reg, "test"), Failed, M)
    BY <1>3, <2>1, RegFails, Zenon
  <2>3. "test" \in CfgValues
    BY Zenon DEF CfgValues
  <2>4. x \in TestSteps /\ y \in TestSteps /\ z \in TestSteps /\ w \in TestSteps
    BY <1>6, <2>3, StepSets, PlainLooks, Zenon
  <2>5. a = <<x, y, z, w>>
    BY Zenon DEF SetAndSee
  <2>6. Makes(Restorable, y, Failed, M) \/ Makes(Restorable, w, Failed, M)
    BY <1>6, <2>2, Zenon
  <2> HIDE DEF x, y, z, w, a
  <2>7. /\ Makes(Restorable, x, Restorable, M) /\ Makes(Restorable, y, Restorable, M) /\ Makes(Restorable, z, Restorable, M)
    BY <2>4, TestsAfter, Zenon
  <2>8. Makes(Failed, z, Failed, M) /\ Makes(Failed, w, Failed, M)
    BY FailedStays, Zenon
  <2>9. Leads(Restorable, <<x, y, z, w>>, Failed, M)
    BY <1>3, <2>6, <2>7, <2>8, FourStepsLead, Zenon
  <2> QED
    BY <1>2, <2>5, <2>9, Zenon DEF Goes
<1>13. CASE SaveFails /\ ~Faulty("cfg load", 0) /\ \A reg \in CfgRegs : ~Faulty("cfg", reg)
  <2> DEFINE s == Do("Load")
  <2>1. ASSUME NEW r \in Restorable, r.ok, NEW m \in M PROVE Step(r, s, m) \in Clear
    <3>1. r \in RunStates /\ m \in BOOLEAN /\ Untested(r.board.prom)
      BY <1>3, <1>13, <2>1, Zenon DEF Restorable, Removable
    <3>2. CfgStep(r, Step(r, s, m), Loaded(r.board), r.board.prom)
      BY <1>13, <3>1, LoadStep, Zenon
    <3>3. Untested(Loaded(r.board))
      BY <1>13, <3>1 DEF Loaded, Untested
    <3> HIDE DEF s
    <3> QED
      BY <3>2, <3>3, Zenon DEF CfgStep, Clear
  <2>2. \A r \in Restorable : ~r.ok => r \in Clear
    BY <1>3, Zenon DEF Clear
  <2>3. Makes(Restorable, s, Clear, M)
    BY <2>1, <2>2, Zenon DEF Makes
  <2> HIDE DEF s
  <2>4. Leads(Restorable, <<s>>, Clear, M)
    BY <1>3, <2>3, LeadsOne, Zenon
  <2>5. F(Restorable, d, Clear)
    BY <1>2, <2>4, Zenon DEF Goes, s
  <2>6. F(Pristine, Taking \o a \o b \o c \o d, Clear)
    <3> HIDE DEF a, b, c, d, Taking
    <3> QED
      BY <1>9, <2>5, GoesOn, Zenon
  <2>7. \A r \in Clear : r.ok => r.board.cfg[D] # "test"
    BY <1>6, Zenon DEF Clear, Untested, TestValues
  <2>8. Makes(Clear, See(D, "test"), Failed, M)
    BY <1>3, <1>6, <2>7, RegFails, Zenon
  <2> QED
    BY <1>3, <1>10, <1>11, <2>6, <2>8, Zenon
<1>14. F(Off, e, Failed)
  BY <1>3, <1>11, OffMakes, Zenon
<1>15. CASE Faulty("cfg load", 0)
  <2> DEFINE x == SetReg(D, "test - 1")  y == See(D, "test - 1")
             z == SetReg(K, "test - 1")  w == See(K, "test - 1")  s == Do("Load")
  <2>1. F(RunStates, c, Off)
    <3>1. c = <<x, y, z, w>>
      BY Zenon DEF SetAndSee
    <3>2. "test - 1" \in CfgValues
      BY Zenon DEF CfgValues
    <3>3. x \in AllSteps
      BY <1>6, <3>2, StepSets, Zenon
    <3>4. Makes(RunStates, y, Off, M) /\ Makes(Off, z, Off, M) /\ Makes(Off, w, Off, M)
      BY OffMakes, Zenon
    <3> HIDE DEF x, y, z, w, c
    <3>5. Makes(RunStates, x, RunStates, M)
      BY <3>3, StepTyped DEF Makes
    <3>6. Leads(RunStates, <<x, y, z, w>>, Off, M)
      BY <1>3, <3>4, <3>5, FourStepsLead, Zenon
    <3> QED
      BY <1>2, <3>1, <3>6, Zenon DEF Goes
  <2>2. F(Restorable, c, Off)
    BY <1>3, <2>1, GoesLess
  <2>3. Makes(Off, s, Off, M)
    BY <1>15, OffMakes, Zenon
  <2> HIDE DEF s
  <2>4. Leads(Off, <<s>>, Off, M)
    BY <1>3, <2>3, LeadsOne, Zenon
  <2>5. F(Off, d, Off)
    BY <1>2, <2>4, Zenon DEF Goes, s
  <2>6. F(Pristine, Taking \o a \o b \o c \o d, Off)
    <3> HIDE DEF a, b, c, d, Taking
    <3>1. F(Pristine, Taking \o a \o b \o c, Off)
      BY <1>8, <2>2, GoesOn, Zenon
    <3> QED
      BY <2>5, <3>1, GoesOn, Zenon
  <2> QED
    BY <1>10, <1>14, <2>6, Zenon
<1>16. CASE Faulty("soft reset", 0) /\ \A reg \in CfgRegs : ~Faulty("cfg", reg)
  <2> DEFINE x == SetReg(D, "test - 1")  z == SetReg(K, "test - 1")  s == Do("Soft reset")
  <2>1. F(RunStates, f, Off)
    <3>1. f = <<x, z>>
      BY Zenon DEF SetAll
    <3>2. Makes(RunStates, x, Off, M) /\ Makes(Off, z, Off, M)
      BY <1>16, OffMakes, Zenon
    <3> HIDE DEF x, z, f
    <3>3. Leads(RunStates, <<x, z>>, Off, M)
      BY <1>3, <3>2, TwoStepsLead, Zenon
    <3> QED
      BY <1>2, <3>1, <3>3, Zenon DEF Goes
  <2>2. F(Restorable, f, Off)
    BY <1>3, <2>1, GoesLess
  <2>3. Makes(Off, s, Off, M)
    BY <1>16, OffMakes, Zenon
  <2> HIDE DEF s
  <2>4. Leads(Off, <<s>>, Off, M)
    BY <1>3, <2>3, LeadsOne, Zenon
  <2>5. F(Off, g, Off)
    BY <1>2, <2>4, Zenon DEF Goes, s
  <2>6. F(Restorable, d, Restorable) /\ F(Restorable, e, Restorable)
    BY <1>4, ConfigParts, Zenon
  <2> HIDE DEF a, b, c, d, e, f, g, Taking
  <2>7. F(Pristine, Taking \o a \o b \o c \o d \o e, Restorable)
    BY <1>9, <2>6, GoesOn, Zenon
  <2>8. F(Pristine, Taking \o a \o b \o c \o d \o e \o f, Off)
    BY <2>2, <2>7, GoesOn, Zenon
  <2>9. F(Pristine, Taking \o a \o b \o c \o d \o e \o f \o g, Off)
    BY <2>5, <2>8, GoesOn, Zenon
  <2>10. F(Pristine, Taking \o a \o b \o c \o d \o e \o f \o g \o e, Failed)
    BY <1>14, <2>9, GoesOn, Zenon
  <2> QED
    BY <1>1, <2>10, Zenon
<1> QED
  BY <1>7, <1>12, <1>13, <1>15, <1>16, Zenon

(***************************************************************************)
(* The faults of SPIcheck's concern, by the part that finds them.          *)
(***************************************************************************)
InBasics ==
  \/ Faulty("spi", "Enable") \/ Faulty("spi", "Disable")
  \/ ~HiWorks \/ ~D3BWorks \/ ~ReadWorks
  \/ ~LoWorks /\ HiWorks /\ ResetWorks
  \/ ~ResetWorks /\ HiWorks /\ LoWorks
InTimer == ~EraseWorks \/ ~StartWorks \/ ~StopWorks
InRegisters == ~RegisterWorks \/ ~Sets0B \/ ~SetsFB \/ Faulty("spi", "Read volatile")
InReadID == Faulty("spi", "Read ID")
InLocks == \/ ~LockWorks \/ ~LockSeen \/ ~UnlockWorks
           \/ ~LockVWorks \/ ~VLockSeen \/ ~UnlockVWorks
InConfig ==
  \/ \E reg \in CfgRegs : Faulty("cfg", reg)
  \/ /\ \A reg \in CfgRegs : ~Faulty("cfg", reg)
     /\ \/ SaveFails /\ ~Faulty("cfg load", 0)
        \/ Faulty("cfg load", 0)
        \/ Faulty("soft reset", 0)

\* With one fault at most, each belongs to a part, or escapes.
LEMMA PartOfFault ==
  ASSUME OneFault, NEW f \in faults, f \in Concerns("SPIcheck"), NEW w, NEW xd, NEW n,
         f \notin Escapes("SPIcheck", w, xd, n)
  PROVE  \/ InBasics \/ InTimer \/ InRegisters \/ InReadID \/ ~Selects1
         \/ InLocks \/ ~PageWorks \/ InConfig
<1> DEFINE s == "spi"
           E == {"NoOp", "Select 0", "Timer reset"}
           A == Commands \cup {"Enable", "Disable", "Reset FSM"}
           X == {"cfg load", "cfg save", "soft reset"}
<1>1. f \in {s} \X A \/ f \in {"cfg"} \X CfgRegs \/ f \in X \X {0}
  BY ConcernsAre, Zenon
<1>2. f \notin {s} \X E
  <2>1. Escapes("SPIcheck", w, xd, n) = {s} \X E
    BY Zenon DEF Escapes
  <2> HIDE DEF E, s
  <2> QED
    BY <2>1, Zenon
<1>3. \A x, y : Faulty(x, y) => f = <<x, y>>
  BY Zenon DEF OneFault, Faulty
<1>4. \A x, y : f = <<x, y>> => Faulty(x, y)
  BY Zenon DEF Faulty
<1> HIDE DEF E, A, X
<1>5. CASE f \in {s} \X A
  <2>1. PICK c \in A : f = <<s, c>>
    BY <1>5
  <2>2. c \notin E
    BY <1>2, <2>1
  <2>3. Faulty(s, c)
    BY <1>4, <2>1, Zenon
  <2>4. \A d : Faulty(s, d) => d = c
    BY <1>3, <2>1, PairsAre, Zenon
  <2>5. c = "AddrLo" => HiWorks /\ ResetWorks
    <3>1. "AddrLo" # "AddrHi"
      OBVIOUS
    <3>2. "AddrLo" # "Reset FSM"
      OBVIOUS
    <3> QED
      BY <2>4, <3>1, <3>2, Zenon DEF HiWorks, ResetWorks
  <2>6. c = "Reset FSM" => HiWorks /\ LoWorks
    <3>1. "Reset FSM" # "AddrHi"
      OBVIOUS
    <3>2. "Reset FSM" # "AddrLo"
      OBVIOUS
    <3> QED
      BY <2>4, <3>1, <3>2, Zenon DEF HiWorks, LoWorks
  <2>7. \/ c \in {"Enable", "Disable", "Reset FSM", "AddrHi", "AddrLo", "Write D3B", "Read"}
        \/ c \in {"Erase", "Timer start", "Timer stop"}
        \/ c \in {"Read register", "Read volatile", "Write volatile 0B", "Write volatile FB"}
        \/ c = "Read ID" \/ c = "Select 1" \/ c = "Write page"
        \/ c \in {"Lock", "Unlock", "Read lock", "Lock volatile", "Unlock volatile", "Read volatile lock"}
    BY <2>2, Zenon DEF A, E, Commands
  <2>8. CASE c \in {"Enable", "Disable", "Reset FSM", "AddrHi", "AddrLo", "Write D3B", "Read"}
    BY <2>3, <2>5, <2>6, <2>8, Zenon DEF InBasics, HiWorks, D3BWorks, ReadWorks, LoWorks, ResetWorks
  <2>9. CASE c \in {"Erase", "Timer start", "Timer stop"}
    BY <2>3, <2>9, Zenon DEF InTimer, EraseWorks, StartWorks, StopWorks
  <2>10. CASE c \in {"Read register", "Read volatile", "Write volatile 0B", "Write volatile FB"}
    BY <2>3, <2>10, Zenon DEF InRegisters, RegisterWorks, Sets0B, SetsFB
  <2>11. CASE c \in {"Lock", "Unlock", "Read lock", "Lock volatile", "Unlock volatile", "Read volatile lock"}
    BY <2>3, <2>11, Zenon DEF InLocks, LockWorks, LockSeen, UnlockWorks, LockVWorks, VLockSeen, UnlockVWorks
  <2>12. CASE c = "Read ID" \/ c = "Select 1" \/ c = "Write page"
    BY <2>3, <2>12, Zenon DEF InReadID, Selects1, PageWorks
  <2> QED
    BY <2>7, <2>8, <2>9, <2>10, <2>11, <2>12, Zenon
<1>6. CASE f \in {"cfg"} \X CfgRegs
  <2>1. PICK reg \in CfgRegs : f = <<"cfg", reg>>
    BY <1>6
  <2> QED
    BY <1>4, <2>1, Zenon DEF InConfig
<1>7. CASE f \in X \X {0}
  <2> DEFINE k == "cfg"  l == "cfg load"
  <2>1. PICK x \in X : f = <<x, 0>>
    BY <1>7
  <2>2. x # k
    BY Zenon DEF X
  <2>3. \A reg \in CfgRegs : ~Faulty(k, reg)
    BY <1>3, <2>1, <2>2, PairsAre, Zenon
  <2>4. Faulty(x, 0)
    BY <1>4, <2>1, Zenon
  <2>5. x = "cfg save" => ~Faulty(l, 0)
    <3>1. "cfg save" # l
      OBVIOUS
    <3> QED
      BY <1>3, <2>1, <3>1, PairsAre, Zenon
  <2>6. x = "cfg load" \/ x = "cfg save" \/ x = "soft reset"
    BY Zenon DEF X
  <2>7. (SaveFails /\ ~Faulty(l, 0)) \/ Faulty(l, 0) \/ Faulty("soft reset", 0)
    BY <2>4, <2>5, <2>6, Zenon DEF SaveFails
  <2> QED
    BY <2>3, <2>7, Zenon DEF InConfig
<1> QED
  BY <1>1, <1>5, <1>6, <1>7, Zenon

Joins(s, t, u) == (s \o t) \o u = s \o (t \o u)

\* Concatenation is associative.
LEMMA Associative ==
  ASSUME NEW S, NEW s \in Seq(S), NEW t \in Seq(S), NEW u \in Seq(S)
  PROVE  Joins(s, t, u)
<1>1. (s \o t) \o u = s \o (t \o u)
  BY ConcatAssociative, SMTT(60)
<1> QED
  BY <1>1, Zenon DEF Joins

Regrouped(x, d, e, f) == x \o (d \o e \o d \o f) = x \o d \o e \o d \o f

\* A pattern of four sequences, joined in two ways.
LEMMA FourJoined ==
  ASSUME NEW S, NEW x \in Seq(S), NEW d \in Seq(S), NEW e \in Seq(S), NEW f \in Seq(S)
  PROVE  Regrouped(x, d, e, f)
<1>0. d \o e \in Seq(S)
  BY ConcatProperties, Zenon
<1>1. (d \o e) \o d \in Seq(S)
  BY <1>0, ConcatProperties, Zenon
<1>2. Joins(x, d, e)
  BY Associative, Zenon
<1>3. Joins(x, d \o e, d)
  BY <1>0, Associative, Zenon
<1>4. Joins(x, (d \o e) \o d, f)
  BY <1>1, Associative, Zenon
<1>5. x \o ((d \o e) \o d) = ((x \o d) \o e) \o d
  BY <1>2, <1>3, Zenon DEF Joins
<1>6. (x \o ((d \o e) \o d)) \o f = x \o (((d \o e) \o d) \o f)
  BY <1>4, Zenon DEF Joins
<1>7. (x \o ((d \o e) \o d)) \o f = (((x \o d) \o e) \o d) \o f
  BY <1>5, Zenon
<1>8. x \o (((d \o e) \o d) \o f) = (((x \o d) \o e) \o d) \o f
  BY <1>6, <1>7, Zenon
<1> QED
  BY <1>8, Zenon DEF Regrouped

\* A run of SPIcheck that starts as it should and finds the fault.
Begun == {r \in RunStates : r.uids = <<>>}
Ready == GoodRuns \cap Showing

\* Whatever part of SPIcheck the fault is of, its run fails.
LEMMA StepsFind ==
  ASSUME NEW file \in Files,
         \/ InBasics \/ InTimer \/ InRegisters \/ InReadID \/ ~Selects1
         \/ InLocks \/ ~PageWorks \/ InConfig
  PROVE  Goes((Ready \cap Begun) \cap Pristine, Steps(file), Failed, {FALSE})
<1> DEFINE M == {FALSE}
           Z == (Ready \cap Begun) \cap Pristine
           R == Fifo(0) \cap Showing  I == Holding(Settled)
           a == Basics  b == Timer  c == Registers  d == ReadID  e == <<Do("Select 1")>>
           f == <<See("uids", "two"), Do("Select 1")>>  g == Locks  h == Pages(file)  k == Config
           F(P, s, Q) == Goes(P, s, Q, M)
           T(s) == s \in Seq(AllSteps)
<1>0. M \in SUBSET BOOLEAN
  BY Zenon
<1>1. Steps(file) = a \o b \o c \o d \o e \o d \o f \o g \o h \o k
  BY Zenon DEF Steps
<1>2. F(GoodRuns, a, Fifo(0)) /\ F(Fifo(0), b, Fifo(0)) /\ F(Fifo(0), c, Fifo(0))
      /\ F(Fifo(0), d, Fifo(0)) /\ F(Fifo(0), g, Fifo(0)) /\ F(Fifo(0), h, Fifo(0))
      /\ F(Fifo(0), k, Fifo(0))
  BY <1>0, BasicsGoes, TimerGoes, RegistersGoes, ReadIDGoes, LocksGoes, PagesGoes, ConfigGoes, Zenon
<1>3. F(Fifo(0), e, Fifo(0)) /\ F(Fifo(0), f, Fifo(0)) /\ e \in Seq(PlainSteps) /\ f \in Seq(PlainSteps)
  <2>1. e \in Seq(PlainSteps) /\ f \in Seq(PlainSteps)
    BY PlainCommands, PlainLooks, ShortSequences, Zenon
  <2>2. Do("Select 1") \in QuietSteps /\ See("uids", "two") \in QuietSteps
    BY QuietCommands, QuietLooks, Zenon
  <2>3. e \in Seq(QuietSteps) /\ f \in Seq(QuietSteps)
    BY <2>2, ShortSequences, Zenon
  <2>4. 0 \in Nat /\ 0 <= 4
    OBVIOUS
  <2> QED
    BY <1>0, <2>1, <2>3, <2>4, PlainGoes, QuietGoes, Zenon
<1>4. F(Ready, a, R) /\ F(R, b, R) /\ F(R, c, R) /\ F(R, d, R) /\ F(R, e, R) /\ F(R, f, R)
      /\ F(R, g, R) /\ F(R, h, R)
  BY <1>0, <1>2, <1>3, ShownGoes, Zenon DEF Ready
<1>5. T(a) /\ T(b) /\ T(c) /\ T(d) /\ T(e) /\ T(f) /\ T(g) /\ T(h) /\ T(k)
  BY <1>2, <1>3, Zenon DEF Goes
<1>6. \A r \in Z : r \in Ready /\ r \in Begun /\ r \in Pristine
  BY Zenon
<1>7. \A r \in R : r \in I /\ r \in Showing
  BY ReadyIdle, Zenon
<1>8. \A P, Q, s : F(P, s, Q) /\ (\A r \in Z : r \in P) => F(Z, s, Q)
  BY GoesLess, Zenon
<1>9. \A Q, s : F(I, s, Q) \/ F(Showing, s, Q) => F(R, s, Q)
  BY <1>7, GoesLess, Zenon
<1>10. \A P, N_, Q, s, t : F(P, s, N_) /\ F(N_, t, Q) => F(P, s \o t, Q)
  BY GoesOn, Zenon
<1>11. \A P, s, t : F(P, s, Failed) /\ T(t) => F(P, s \o t, Failed)
  BY GoesWrong, Zenon
<1>12. F(Z, a, R)
  BY <1>4, <1>6, <1>8, Zenon
<1>13. InBasics => F(Z, a, Failed)
  <2>1. ASSUME InBasics PROVE F(Ready, a, Failed)
    BY <1>0, <2>1, BasicsFinds, Zenon DEF InBasics, Ready
  <2> QED
    BY <1>6, <1>8, <2>1, Zenon
<1>14. InTimer => F(R, b, Failed)
  <2>1. ASSUME InTimer PROVE F(Showing, b, Failed)
    BY <1>0, <2>1, TimerFinds, Zenon DEF InTimer
  <2> QED
    BY <1>9, <2>1, Zenon
<1>15. InRegisters => F(R, c, Failed)
  <2>1. ASSUME InRegisters PROVE F(I, c, Failed)
    BY <1>0, <2>1, RegistersFinds, Zenon DEF InRegisters
  <2> QED
    BY <1>9, <2>1, Zenon
<1>16. InReadID => F(R, d, Failed)
  <2>1. ASSUME InReadID PROVE F(I, d, Failed)
    BY <1>0, <2>1, ReadIDFinds, Zenon DEF InReadID
  <2> QED
    BY <1>9, <2>1, Zenon
<1>17. InLocks => F(R, g, Failed)
  <2>1. ASSUME InLocks PROVE F(I, g, Failed)
    BY <1>0, <2>1, LocksFinds, Zenon DEF InLocks
  <2> QED
    BY <1>9, <2>1, Zenon
<1>18. ~PageWorks => F(R, h, Failed)
  <2>1. ASSUME ~PageWorks PROVE F(I, h, Failed)
    BY <1>0, <2>1, PagesFinds, Zenon
  <2> QED
    BY <1>9, <2>1, Zenon
<1>19. InConfig => F(Pristine, k, Failed)
  BY <1>0, ConfigFinds, Zenon DEF InConfig
<1>20. ~Selects1 => F(Z, a \o b \o c \o d \o e \o d \o f, Failed)
  <2> SUFFICES ASSUME ~Selects1 PROVE F(Z, a \o b \o c \o d \o e \o d \o f, Failed)
    OBVIOUS
  <2> DEFINE x == a \o b \o c  W == With(<<>>, Settled)
  <2>1. F(W, d \o e \o d \o f, Failed)
    BY SelectFinds, Zenon
  <2>2. F(Begun, x, Begun)
    <3>1. x \in Seq(Bare)
      BY BareParts, Joined, Zenon
    <3>2. T(x)
      BY <1>5, Joined, Zenon
    <3>3. ASSUME NEW s \in Bare PROVE Makes(Begun, s, Begun, M)
      <4>1. s \in AllSteps
        BY BareParts, StepSets, Zenon
      <4>2. ASSUME NEW r \in Begun, NEW m \in M PROVE Step(r, s, m) \in Begun
        <5>1. r \in RunStates /\ r.uids = <<>> /\ m \in BOOLEAN
          BY Zenon DEF Begun
        <5>2. Step(r, s, m) \in RunStates /\ Step(r, s, m).uids = <<>>
          BY <4>1, <5>1, BareKeeps, StepTyped
        <5> QED
          BY <5>2, Zenon DEF Begun
      <4> QED
        BY <4>2, Zenon DEF Makes
    <3> HIDE DEF x
    <3>4. Begun \in SUBSET RunStates
      BY Zenon DEF Begun
    <3>5. Leads(Begun, x, Begun, M)
      BY <3>1, <3>3, <3>4, LeadsKeep, Zenon
    <3> QED
      BY <3>2, <3>5, Zenon DEF Goes
  <2>3. F(Z, x, R)
    <3> HIDE DEF a, b, c, R, Z, F
    <3>1. F(Z, a \o b, R)
      BY <1>4, <1>10, <1>12, Zenon
    <3> QED
      BY <1>4, <1>10, <3>1, Zenon
  <2> HIDE DEF x
  <2>4. F(Z, x, W)
    <3>1. F(Z, x, Begun)
      BY <1>6, <1>8, <2>2, Zenon
    <3>2. \A r : r \in R /\ r \in Begun => r \in W
      BY <1>7, Zenon DEF With, Begun
    <3> HIDE DEF R, W, Z
    <3> QED
      BY <2>3, <3>1, <3>2, Zenon DEF Goes, Leads
  <2>5. F(Z, x \o (d \o e \o d \o f), Failed)
    <3> HIDE DEF d, e, f, W, Z
    <3> QED
      BY <1>10, <2>1, <2>4, Zenon
  <2>6. x \o (d \o e \o d \o f) = x \o d \o e \o d \o f
    <3>0. T(x) /\ T(d) /\ T(e) /\ T(f)
      BY <1>5, <2>3, Zenon DEF Goes
    <3> HIDE DEF d, e, f
    <3>1. Regrouped(x, d, e, f)
      BY <3>0, FourJoined, Zenon
    <3> QED
      BY <3>1 DEF Regrouped
  <2> QED
    BY <2>5, <2>6, Zenon DEF x
<1>21. F(Z, a \o b \o c \o d \o e \o d \o f \o g \o h, Pristine)
  <2> DEFINE y == a \o b \o c \o d \o e \o d \o f \o g \o h
  <2>1. y \in Seq(PlainSteps)
    <3>1. a \in Seq(PlainSteps) /\ b \in Seq(PlainSteps) /\ c \in Seq(PlainSteps)
          /\ d \in Seq(PlainSteps) /\ g \in Seq(PlainSteps) /\ h \in Seq(PlainSteps)
      BY PlainParts, Zenon
    <3> HIDE DEF a, b, c, d, e, f, g, h
    <3>2. a \o b \o c \o d \o e \in Seq(PlainSteps)
      BY <1>3, <3>1, Joined, Zenon
    <3> QED
      BY <1>3, <3>1, <3>2, Joined, Zenon
  <2> HIDE DEF y
  <2>2. Pristine \in SUBSET RunStates
    BY Zenon DEF Pristine
  <2>3. F(Pristine, y, Pristine)
    BY <1>0, <2>1, <2>2, PlainBefore, PlainGoes, LeadsKeep, Zenon DEF Goes
  <2> QED
    BY <1>6, <1>8, <2>3, Zenon DEF y
<1> HIDE DEF a, b, c, d, e, f, g, h, k, F, Z, R, T
<1>22. F(Z, a \o b, R)
  BY <1>4, <1>10, <1>12, Zenon
<1>23. F(Z, a \o b \o c, R)
  BY <1>4, <1>10, <1>22, Zenon
<1>24. F(Z, a \o b \o c \o d \o e \o d \o f, R)
  <2>1. F(Z, a \o b \o c \o d \o e, R)
    BY <1>4, <1>10, <1>23, Zenon
  <2> QED
    BY <1>4, <1>10, <2>1, Zenon
<1>25. F(Z, a \o b \o c \o d \o e \o d \o f \o g, R)
  BY <1>4, <1>10, <1>24, Zenon
<1>26. ASSUME F(Z, a \o b \o c \o d \o e \o d \o f \o g \o h, Failed)
       PROVE  F(Z, a \o b \o c \o d \o e \o d \o f \o g \o h \o k, Failed)
  BY <1>5, <1>11, <1>26, Zenon
<1>27. ASSUME F(Z, a \o b \o c \o d \o e \o d \o f, Failed)
       PROVE  F(Z, a \o b \o c \o d \o e \o d \o f \o g \o h \o k, Failed)
  <2>1. F(Z, a \o b \o c \o d \o e \o d \o f \o g, Failed)
    BY <1>5, <1>11, <1>27, Zenon
  <2>2. F(Z, a \o b \o c \o d \o e \o d \o f \o g \o h, Failed)
    BY <1>5, <1>11, <2>1, Zenon
  <2> QED
    BY <1>26, <2>2, Zenon
<1>28. ASSUME F(Z, a \o b \o c \o d, Failed)
       PROVE  F(Z, a \o b \o c \o d \o e \o d \o f \o g \o h \o k, Failed)
  <2>1. F(Z, a \o b \o c \o d \o e \o d, Failed)
    BY <1>5, <1>11, <1>28, Zenon
  <2>2. F(Z, a \o b \o c \o d \o e \o d \o f, Failed)
    BY <1>5, <1>11, <2>1, Zenon
  <2> QED
    BY <1>27, <2>2, Zenon
<1>29. ASSUME F(Z, a \o b, Failed)
       PROVE  F(Z, a \o b \o c \o d \o e \o d \o f \o g \o h \o k, Failed)
  <2>1. F(Z, a \o b \o c \o d, Failed)
    BY <1>5, <1>11, <1>29, Zenon
  <2> QED
    BY <1>28, <2>1, Zenon
<1>30. ASSUME InBasics PROVE F(Z, Steps(file), Failed)
  BY <1>1, <1>5, <1>11, <1>13, <1>29, <1>30, Zenon
<1>31. ASSUME InTimer PROVE F(Z, Steps(file), Failed)
  BY <1>1, <1>10, <1>12, <1>14, <1>29, <1>31, Zenon
<1>32. ASSUME InRegisters PROVE F(Z, Steps(file), Failed)
  <2>1. F(Z, a \o b \o c \o d, Failed)
    BY <1>5, <1>10, <1>11, <1>15, <1>22, <1>32, Zenon
  <2> QED
    BY <1>1, <1>28, <2>1, Zenon
<1>33. ASSUME InReadID PROVE F(Z, Steps(file), Failed)
  BY <1>1, <1>10, <1>16, <1>23, <1>28, <1>33, Zenon
<1>34. ASSUME ~Selects1 PROVE F(Z, Steps(file), Failed)
  BY <1>1, <1>20, <1>27, <1>34, Zenon
<1>35. ASSUME InLocks PROVE F(Z, Steps(file), Failed)
  <2>1. F(Z, a \o b \o c \o d \o e \o d \o f \o g \o h, Failed)
    BY <1>5, <1>10, <1>11, <1>17, <1>24, <1>35, Zenon
  <2> QED
    BY <1>1, <1>26, <2>1, Zenon
<1>36. ASSUME ~PageWorks PROVE F(Z, Steps(file), Failed)
  BY <1>1, <1>10, <1>18, <1>25, <1>26, <1>36, Zenon
<1>37. ASSUME InConfig PROVE F(Z, Steps(file), Failed)
  BY <1>1, <1>10, <1>19, <1>21, <1>37, Zenon
<1>38. F(Z, Steps(file), Failed)
  BY <1>30, <1>31, <1>32, <1>33, <1>34, <1>35, <1>36, <1>37, Zenon
<1> QED
  BY <1>38, Zenon DEF F, Z

\* SPIcheck: a fault of its concern ends the run with an error.
LEMMA SPIcheckFinds ==
  ASSUME StandOK, OneFault, NEW files \in SUBSET Files, SPIcheck_respond(files)
  PROVE  PassedMeansGood'
<1> DEFINE r(steps, glitch) == Ran(board, steps, glitch)
           Ends(steps, glitch) == Done(Verdict(r(steps, glitch).ok), 1, glitch # 0)
           Glitches(steps) == {0} \cup Accidents(IF Clean(board.spi) THEN Reads(steps) ELSE {})
           C == "SPIcheck"
<1>1. Perform(C) /\ is_xdcfeb' = is_xdcfeb
  BY Zenon DEF SPIcheck_respond
<1>2. board \in IdleBoards /\ PortOK(board.spi) /\ Untested(board.cfg) /\ Untested(board.prom)
      /\ FaultShows(board.spi)
  BY DEF StandOK, StandBoards
<1>3. \/ Done("NOT PASSED", 0, FALSE)
      \/ \E steps \in {Steps(file) : file \in files} : \E glitch \in Glitches(steps) : Ends(steps, glitch)
  BY Zenon DEF SPIcheck_respond
<1>6. {Steps(file) : file \in files} \subseteq {Steps(file) : file \in Files}
  OBVIOUS
<1>4. CASE Done("NOT PASSED", 0, FALSE)
  BY <1>1, <1>4, NotPassedRight, Zenon
<1>5. ASSUME NEW file \in Files, NEW glitch \in Glitches(Steps(file)), Ends(Steps(file), glitch)
      PROVE  PassedMeansGood'
  <2> DEFINE ok == r(Steps(file), glitch).ok
             gl == glitch # 0
  <2>1. ASSUME NEW f \in faults, f \in Concerns(C), f \notin Escapes(C, WrongKind, is_xdcfeb, N) PROVE ~ok
    <3>1. glitch = 0
      BY <1>5, <2>1 DEF Accidents
    <3>2. Steps(file) \in Seq(AllSteps)
      BY StepsTyped
    <3>3. \A i \in 1 .. Len(Steps(file)) : (i = glitch) \in {FALSE}
      <4>1. \A i \in 1 .. Len(Steps(file)) : i # 0
        BY <3>2
      <4>2. \A i \in 1 .. Len(Steps(file)) : ~(i = glitch)
        BY <3>1, <4>1, Zenon
      <4> QED
        BY <4>2
    <3>4. Start(board) \in (Ready \cap Begun) \cap Pristine
      <4>1. /\ Start(board) \in RunStates /\ Start(board).board = board
            /\ Start(board).known = FALSE /\ Start(board).uids = <<>>
        BY <1>2, StartTyped, Zenon
      <4>2. Start(board) \in GoodRuns
        BY <1>2, <4>1, Zenon DEF GoodRuns
      <4> QED
        BY <1>2, <4>1, <4>2, Zenon DEF Ready, Showing, Begun, Pristine
    <3>5. Goes((Ready \cap Begun) \cap Pristine, Steps(file), Failed, {FALSE})
      BY <2>1, PartOfFault, StepsFind, Zenon
    <3>6. {FALSE} \in SUBSET BOOLEAN
      BY Zenon
    <3>7. r(Steps(file), glitch) \in Failed
      BY <1>2, <3>2, <3>3, <3>4, <3>5, <3>6, RanLeads, Zenon DEF Goes
    <3> QED
      BY <3>7, Zenon DEF Failed
  <2>2. Done(Verdict(ok), 1, gl)
    BY <1>5, Zenon
  <2> HIDE DEF ok, gl, r, Ends, Glitches, C
  <2>3. Verdict(ok) = "PASSED" => ok
    BY Zenon DEF Verdict
  <2>4. Verdict(ok) = "PASSED" /\ 1 > 0 /\ ~gl =>
          \A f \in faults : f \in Concerns(C) => f \in Escapes(C, WrongKind, is_xdcfeb, N)
    BY <2>1, <2>3, Zenon
  <2> QED
    BY <1>1, <2>2, <2>4, JudgedRight, Zenon
<1>7. ASSUME \E steps \in {Steps(file) : file \in files} : \E glitch \in Glitches(steps) : Ends(steps, glitch)
      PROVE  \E file \in Files : \E glitch \in Glitches(Steps(file)) : Ends(Steps(file), glitch)
  <2> HIDE DEF Ends, Glitches
  <2>1. PICK steps \in {Steps(file) : file \in Files} : \E glitch \in Glitches(steps) : Ends(steps, glitch)
    BY <1>6, <1>7, Zenon
  <2>2. PICK file \in Files : steps = Steps(file)
    OBVIOUS
  <2> QED
    BY <2>1, <2>2, Zenon
<1> HIDE DEF Ends, Glitches
<1> QED
  BY <1>3, <1>4, <1>5, <1>7, Zenon

(***************************************************************************)
(* All steps keep what PASSED is worth.                                    *)
(***************************************************************************)
\* Each test's report is right about the faults of its concern.
LEMMA TestsFind ==
  ASSUME StandOK, FilesOK, OneFault, LvmbTest \/ DcfebTest \/ LinkTest \/ PromTest
  PROVE  PassedMeansGood'
<1>1. CASE LvmbTest
  BY <1>1, LvmbTestsFind
<1>2. CASE DcfebTest
  BY <1>2, DCFEBJTAGcontrolFinds, DCFEBFiberFinds, DCFEBPulsesFinds, ButtonsRight,
     Zenon DEF DcfebTest
<1>3. CASE LinkTest
  BY <1>3, LinkTestsFind
<1>4. CASE PromTest
  BY <1>4, SPIcheckFinds, MCSFinds, ButtonsRight, Zenon DEF PromTest, FilesOK
<1> QED
  BY <1>1, <1>2, <1>3, <1>4, Zenon

\* Each test ends with a report, and leaves the board as faulty as it was.
LEMMA TestsReport ==
  ASSUME LvmbTest \/ DcfebTest \/ LinkTest \/ PromTest
  PROVE  faults' = faults
<1> DEFINE Reports == \E says, trials, glitch : Done(says, trials, glitch)
<1>1. CASE LvmbTest
  <2>1. ASSUME LVMBtest_respond \/ LVMB5test_respond PROVE Reports
    <3>1. LvmbRespond(LVMB) \/ LvmbRespond(LVMB5)
      BY <2>1, Zenon DEF LVMBtest_respond, LVMB5test_respond
    <3>2. ASSUME NEW lvmb, LvmbRespond(lvmb) PROVE Reports
      BY <3>2, Zenon DEF LvmbRespond
    <3> QED
      BY <3>1, <3>2, Zenon
  <2>2. ASSUME LVMB904_respond PROVE Reports
    BY <2>2, Zenon DEF LVMB904_respond
  <2>3. ASSUME VoltageCurrentTest_respond \/ Show \/ LVMBtest_dos_respond PROVE Reports
    BY <2>3, Zenon DEF VoltageCurrentTest_respond, Show, LVMBtest_dos_respond
  <2>4. Reports
    BY <1>1, <2>1, <2>2, <2>3, Zenon DEF LvmbTest
  <2> QED
    BY <2>4, Reported, Zenon
<1>2. CASE DcfebTest
  <2>1. ASSUME DCFEBJTAGcontrol_respond PROVE Reports
    BY <2>1, Zenon DEF DCFEBJTAGcontrol_respond
  <2>2. ASSUME DCFEBFiber_respond PROVE Reports
    BY <2>2, Zenon DEF DCFEBFiber_respond
  <2>3. ASSUME DCFEBPulses_respond PROVE Reports
    BY <2>3, Zenon DEF DCFEBPulses_respond
  <2>4. ASSUME ReprogramDCFEB_respond \/ SetDCFEBMode_respond PROVE Reports
    BY <2>4, Zenon DEF ReprogramDCFEB_respond, SetDCFEBMode_respond
  <2>5. Reports
    BY <1>2, <2>1, <2>2, <2>3, <2>4, Zenon DEF DcfebTest
  <2> QED
    BY <2>5, Reported, Zenon
<1>3. CASE LinkTest
  <2>1. ASSUME PCPRBSTest_respond \/ DDUPRBSTest_respond \/ OTMBPRBSTest_respond PROVE Reports
    BY <2>1, Zenon DEF PCPRBSTest_respond, DDUPRBSTest_respond, PRBSTest, OTMBPRBSTest_respond
  <2>2. ASSUME ClockChipTest_respond \/ CCBReg_respond PROVE Reports
    BY <2>2, Zenon DEF ClockChipTest_respond, CCBReg_respond
  <2>3. ASSUME DiscreteLogicTest_respond \/ ResetRegisters_respond PROVE Reports
    BY <2>3, Zenon DEF DiscreteLogicTest_respond, ResetRegisters_respond
  <2>4. Reports
    BY <1>3, <2>1, <2>2, <2>3, Zenon DEF LinkTest
  <2> QED
    BY <2>4, Reported, Zenon
<1>4. CASE PromTest
  <2>1. ASSUME NEW files, SPIcheck_respond(files) PROVE Reports
    BY <2>1, Zenon DEF SPIcheck_respond
  <2>2. ASSUME MCSBackAndForthBPI_respond PROVE Reports
    BY <2>2, Zenon DEF MCSBackAndForthBPI_respond
  <2>3. ASSUME HardReset_respond \/ LoadMCSviaBPI_respond \/ Defaults_respond PROVE Reports
    BY <2>3, Zenon DEF HardReset_respond, LoadMCSviaBPI_respond, Defaults_respond
  <2>4. Reports
    BY <1>4, <2>1, <2>2, <2>3, Zenon DEF PromTest
  <2> QED
    BY <2>4, Reported, Zenon
<1> QED
  BY <1>1, <1>2, <1>3, <1>4, Zenon

\* The inductive invariant of the theorem below.
FindsFaults == StandOK /\ FilesOK /\ OneFault /\ PassedMeansGood

\* The board starts with one fault or none, and nothing is reported yet.
LEMMA FindsStarts ==
  ASSUME Init
  PROVE  FindsFaults
<1>1. StandOK /\ FilesOK
  BY StandStarts, FilesAre
<1>2. OneFault
  <2>1. PICK x : faults \in {{}} \cup {{f} : f \in x}
    BY Zenon DEF Init
  <2> QED
    BY <2>1 DEF OneFault
<1>3. PassedMeansGood
  <2> DEFINE s == "silent"
  <2>1. s # "PASSED"
    OBVIOUS
  <2>2. last.says = s
    BY NothingTyped, Zenon DEF Init
  <2> HIDE DEF s
  <2>3. last.says # "PASSED"
    BY <2>1, <2>2, Zenon
  <2> QED
    BY <2>3, Zenon DEF PassedMeansGood
<1> QED
  BY <1>1, <1>2, <1>3 DEF FindsFaults

\* The faults never change, and every report is made by a test or is empty.
LEMMA FindsSteps ==
  ASSUME FindsFaults, [Next]_vars
  PROVE  FindsFaults'
<1> DEFINE Right == PassedMeansGood' /\ faults' = faults
<1>1. StandOK /\ FilesOK /\ OneFault /\ PassedMeansGood /\ groups_ \in {<<>>, Groups}
  BY Zenon DEF FindsFaults, StandOK
<1>2. StandOK' /\ FilesOK'
  BY <1>1, StandSteps, FilesAre, Zenon
<1>3. ASSUME (LvmbTest \/ DcfebTest \/ LinkTest \/ PromTest) /\ UNCHANGED <<managerVars, session>>
      PROVE  Right
  <2>1. PassedMeansGood'
    BY <1>1, <1>3, TestsFind, Zenon
  <2>2. faults' = faults
    BY <1>3, TestsReport, Zenon
  <2> QED
    BY <2>1, <2>2
<1>4. ASSUME Dies /\ Restarted /\ UNCHANGED session
      PROVE  Right
  BY <1>1, <1>4, PagesRight, Zenon
<1>5. ASSUME (defaultWebPage \/ ProductionTests \/ Press \/ backToMainPage) /\ UNCHANGED session
      PROVE  Right
  BY <1>1, <1>5, PagesRight, Zenon
<1>6. ASSUME UNCHANGED vars
      PROVE  Right
  <2>1. UNCHANGED <<faults, kind, is_xdcfeb, last>>
    BY <1>6 DEF vars, benchVars
  <2> QED
    BY <1>1, <2>1, StaysRight, Zenon
<1>7. Right
  BY <1>3, <1>4, <1>5, <1>6, Zenon DEF Next
<1>8. OneFault'
  BY <1>1, <1>7 DEF OneFault
<1> QED
  BY <1>2, <1>7, <1>8, Zenon DEF FindsFaults

\* PASSED can be believed: a test that has tried something and has read no
\* wrong value by accident has found every fault of its concern that is not
\* listed as escaping it, with any number of DCFEBs, counters of any width and
\* any number of repetitions, in whatever order the buttons are pressed,
\* through aborted tests, changes of the kind of DCFEB and restarts of the
\* server.
THEOREM PassedIsGood == Spec => []PassedMeansGood
<1>1. Init => FindsFaults
  BY FindsStarts
<1>2. FindsFaults /\ [Next]_vars => FindsFaults'
  BY FindsSteps
<1>3. FindsFaults => PassedMeansGood
  BY Zenon DEF FindsFaults
<1> QED
  BY <1>1, <1>2, <1>3, PTL DEF Spec
=============================================================================
