----------------------------- MODULE PromTests -----------------------------
(***************************************************************************)
(* The tests of the PROMs: SPIcheck, for the ODMB7, and for the older ODMB *)
(* MCSBackAndForthBPI and LoadMCSviaBPI.                                   *)
(*                                                                         *)
(* SPIcheck is a sequence of commands and looks at what they did; the      *)
(* first look that is wrong ends it. It is written as such a sequence,     *)
(* over a small model of the SPI port (external). Of the ten configuration *)
(* registers it exercises, the model has those of TestBench.               *)
(***************************************************************************)
EXTENDS TestBench

CONSTANT Files    \* contents of the file that SPIcheck writes to PROM 1

ASSUME PromAssumption == Files \subseteq {"A", "B", "zeros"}

(***************************************************************************)
(* A sector of a PROM: writing can only clear bits. The timer is short if  *)
(* it has run without waiting for an erase.                                *)
(***************************************************************************)
Contents == {"erased", "D3B", "A", "B", "zeros", "mixed"}

Written(old, new) ==
    CASE old = "erased" \/ old = new -> new
      [] "zeros" \in {old, new} -> "zeros"
      [] OTHER -> "mixed"

Commands == {"NoOp", "AddrHi", "AddrLo", "Erase", "Write D3B", "Write page", "Read",
             "Timer reset", "Timer start", "Timer stop", "Read register", "Read volatile",
             "Write volatile 0B", "Write volatile FB", "Read ID", "Select 0", "Select 1",
             "Lock", "Unlock", "Read lock", "Lock volatile", "Unlock volatile",
             "Read volatile lock"}

\* What can be read from its FIFO.
SpiWords == Contents \cup {"20BB", "1810", "other", "uid 0", "uid 1", "0", "1"}

\* on, queue: whether commands are executed, and those that wait until they
\* are; half, addr: the address; sel: the PROM selected; fifo: words that
\* can be read; shown: the register in the status word.
NewSpi ==
    [on |-> TRUE, queue |-> <<>>, half |-> FALSE, addr |-> "none", sel |-> 0,
     fifo |-> <<>>, timer |-> "zero", runs |-> FALSE, shown |-> "none",
     vcfg |-> "FB", locked |-> FALSE, vlocked |-> FALSE,
     rom |-> [p \in 0..1 |-> "erased"]]

Pushed(spi, words) == [spi EXCEPT !.fifo = @ \o words]

Stored(spi, contents) ==
    IF spi.addr = "FF0000" /\ ~(spi.locked /\ spi.sel = 1)
    THEN [spi EXCEPT !.rom[spi.sel] = contents] ELSE spi

\* A command (writing pages is given by what is written); one that is waited
\* for as the lower half of an address is taken for that.
Obey(spi, c) ==
    CASE Faulty("spi", IF c \in Files THEN "Write page" ELSE c) -> spi
      [] ~Faulty("spi", IF c \in Files THEN "Write page" ELSE c) /\ spi.half ->
           [spi EXCEPT !.half = FALSE, !.addr = IF c = "AddrLo" THEN "FF0000" ELSE "other"]
      [] OTHER ->
           CASE c \in {"NoOp", "AddrLo"} -> spi
             [] c = "AddrHi" -> [spi EXCEPT !.half = TRUE]
             [] c = "Erase" ->
                  [Stored(spi, "erased") EXCEPT !.timer = IF spi.runs THEN "long" ELSE @]
             [] c = "Write D3B" -> Stored(spi, Written(spi.rom[spi.sel], "D3B"))
             [] c \in Files -> Stored(spi, Written(spi.rom[spi.sel], c))
             [] c = "Read" ->
                  Pushed(spi, <<IF spi.addr = "FF0000" THEN spi.rom[spi.sel] ELSE "erased">>)
             [] c = "Timer reset" -> [spi EXCEPT !.timer = "zero"]
             [] c = "Timer start" -> [spi EXCEPT !.runs = TRUE, !.timer = "short"]
             [] c = "Timer stop" -> [spi EXCEPT !.runs = FALSE]
             [] c = "Read register" -> [spi EXCEPT !.shown = "default"]
             [] c = "Read volatile" -> [spi EXCEPT !.shown = spi.vcfg]
             [] c = "Write volatile 0B" -> [spi EXCEPT !.vcfg = "0B"]
             [] c = "Write volatile FB" -> [spi EXCEPT !.vcfg = "FB"]
             [] c = "Read ID" ->
                  Pushed(spi, <<"20BB", "1810", "other", IF spi.sel = 0 THEN "uid 0" ELSE "uid 1">>)
             [] c = "Select 0" -> [spi EXCEPT !.sel = 0]
             [] c = "Select 1" -> [spi EXCEPT !.sel = 1]
             [] c = "Lock" -> [spi EXCEPT !.locked = TRUE]
             [] c = "Unlock" -> [spi EXCEPT !.locked = FALSE]
             [] c = "Read lock" -> Pushed(spi, <<IF spi.locked THEN "0" ELSE "1">>)
             [] c = "Lock volatile" -> [spi EXCEPT !.vlocked = TRUE]
             [] c = "Unlock volatile" -> [spi EXCEPT !.vlocked = FALSE]
             [] OTHER -> Pushed(spi, <<IF spi.vlocked THEN "1" ELSE "0">>)

Port(spi, c) ==
    CASE c = "Enable" ->
           IF Faulty("spi", c) THEN spi
           ELSE [AfterSteps(LAMBDA s, i: Obey(s, spi.queue[i]), spi, Len(spi.queue))
                   EXCEPT !.on = TRUE, !.queue = <<>>]
      [] c = "Disable" -> IF Faulty("spi", c) THEN spi ELSE [spi EXCEPT !.on = FALSE]
      [] c = "Reset FSM" -> IF Faulty("spi", c) THEN spi ELSE [spi EXCEPT !.half = FALSE]
      [] OTHER -> IF spi.on THEN Obey(spi, c) ELSE [spi EXCEPT !.queue = Append(@, c)]

(***************************************************************************)
(* The steps. See looks at what a register shows, or takes a word out of   *)
(* the FIFO; Keep takes one without comparing it.                          *)
(***************************************************************************)
Do(c) == [do |-> c, on |-> "none", with |-> "none"]
See(what, value) == [do |-> "See", on |-> what, with |-> value]
Keep == Do("Keep")
Address == <<Do("AddrHi"), Do("AddrLo")>>

Basics ==
    <<Do("Enable"), See("on", "yes"), Do("NoOp"), See("on", "yes"),
      Do("Disable"), Do("NoOp"), See("on", "no"), Do("Enable"), See("on", "yes")>>
    \o Address \o <<Do("Erase"), Do("Write D3B"), See("words", "none")>>
    \o <<Do("AddrHi"), Do("Reset FSM")>> \o Address
    \o <<Do("Read"), See("words", "one"), See("full", "yes"), See("word", "D3B")>>

Timer ==
    <<Do("Timer reset"), See("LSB", "zero"), See("MSB", "zero")>> \o Address
    \o <<Do("Disable"), Do("Timer start"), Do("Erase"), Do("Timer stop"), Do("Enable"),
         See("LSB", "some"), See("stopped", "yes"), See("MSB", "some")>>

\* Six registers, of which only the volatile configuration is ever changed.
Registers ==
    <<Do("Read register"), See("register", "default"), Do("Read volatile"), See("register", "FB"),
      Do("Write volatile 0B"), Do("Read volatile"), See("register", "0B"),
      Do("Write volatile FB"), Do("Read volatile"), See("register", "FB")>>

\* Mutant of ReadID: the word with the unique ID is left in the FIFO.
ReadIDLeavesOne ==
    <<Do("Read ID"), See("words", "ID"), See("word", "20BB"), See("word", "1810"),
      See("word", "other")>>

ReadID ==
    <<Do("Read ID"), See("words", "ID"), See("word", "20BB"), See("word", "1810"),
      See("word", "other"), Keep>>

Locks ==
    Address \o <<Do("Lock"), Do("Read lock"), See("word", "0")>>
    \o Address \o <<Do("Unlock"), Do("Read lock"), See("word", "1"),
                    Do("Lock volatile"), Do("Read volatile lock"), See("word", "1"),
                    Do("Unlock volatile"), Do("Read volatile lock"), See("word", "0")>>

Pages(file) ==
    Address \o <<Do(file)>> \o Address \o <<Do("Read"), See("word", file)>>

SetReg(reg, value) == [do |-> "Set", on |-> reg, with |-> value]
SetAll(value) == <<SetReg("DELAYS", value), SetReg("KILL", value)>>
SeeAll(value) == <<See("DELAYS", value), See("KILL", value)>>
SetAndSee(value) ==
    <<SetReg("DELAYS", value), See("DELAYS", value), SetReg("KILL", value), See("KILL", value)>>

\* Mutant of Config: PROM 1 stays selected.
ConfigOfSelected ==
    <<Do("Load"), Do("Originals")>> \o SetAndSee("test") \o <<Do("Save")>>
    \o SetAndSee("test - 1") \o <<Do("Load")>> \o SeeAll("test")

\* From "Originals" on, an error also writes them back.
Config ==
    <<Do("Select 0"), Do("Load"), Do("Originals")>>
    \o SetAndSee("test") \o <<Do("Save")>> \o SetAndSee("test - 1")
    \o <<Do("Load")>> \o SeeAll("test")
    \o SetAll("test - 1") \o <<Do("Soft reset")>> \o SeeAll("test")

Steps(file) ==
    Basics \o Timer \o Registers \o ReadID \o <<Do("Select 1")>> \o ReadID
    \o <<See("uids", "two"), Do("Select 1")>> \o Locks \o Pages(file) \o Config

(***************************************************************************)
(* Running them. r: board, the local variables uids and cfg_og_values,     *)
(* whether those are set, and whether no error has been found.             *)
(***************************************************************************)
Loaded(b) == [r \in CfgRegs |-> IF Faulty("cfg", r) THEN b.cfg[r] ELSE b.prom[r]]
SetTo(cfg, values) == [r \in CfgRegs |-> IF Faulty("cfg", r) THEN cfg[r] ELSE values[r]]

\* What a look at the board shows, in the terms of the steps.
YesNo(b) == IF b THEN "yes" ELSE "no"
Agrees(r, what, value) ==
    LET spi == r.board.spi
    IN CASE what = "on" -> YesNo(spi.on) = value
         [] what = "words" ->
              Len(spi.fifo) = CASE value = "none" -> 0 [] value = "one" -> 1 [] OTHER -> 4
         [] what = "full" -> spi.fifo # <<>>
         [] what = "word" ->
              spi.fifo # <<>> /\ Head(spi.fifo) = value
         [] what = "LSB" -> (spi.timer = "zero") = (value = "zero")
         [] what = "MSB" -> (spi.timer = "long") = (value = "some")
         [] what = "stopped" -> ~spi.runs
         [] what = "register" -> spi.shown = value
         [] what = "uids" -> r.uids[1] # r.uids[2]
         [] OTHER -> r.board.cfg[what] = value

Taken(r) == IF r.board.spi.fifo = <<>> THEN r ELSE [r EXCEPT !.board.spi.fifo = Tail(@)]

\* One step; misread: what is looked at is read wrong.
Step(r, s, misread) ==
    CASE s.do = "See" ->
           [(IF s.on = "word" THEN Taken(r) ELSE r)
             EXCEPT !.ok = Agrees(r, s.on, s.with) /\ ~misread]
      [] s.do = "Keep" ->
           [Taken(r) EXCEPT !.uids =
               Append(@, IF misread \/ r.board.spi.fifo = <<>> THEN "misread"
                         ELSE Head(r.board.spi.fifo))]
      [] s.do = "Set" ->
           [r EXCEPT !.board.cfg = SetTo(@, [@ EXCEPT ![s.on] = s.with])]
      [] s.do = "Load" ->
           IF Faulty("cfg load", 0) THEN r ELSE [r EXCEPT !.board.cfg = Loaded(r.board)]
      [] s.do = "Soft reset" ->
           IF Faulty("soft reset", 0) THEN r ELSE [r EXCEPT !.board.cfg = Loaded(r.board)]
      [] s.do = "Save" ->
           IF Faulty("cfg save", 0) THEN r ELSE [r EXCEPT !.board.prom = r.board.cfg]
      [] s.do = "Originals" ->
           [r EXCEPT !.og = [x \in CfgRegs |-> IF misread /\ x = "DELAYS" THEN "default"
                                               ELSE r.board.cfg[x]],
                     !.known = TRUE]
      [] OTHER -> [r EXCEPT !.board.spi = Port(@, s.do)]

Start(b) == [board |-> b, uids |-> <<>>, og |-> Own, known |-> FALSE, ok |-> TRUE]

\* The steps up to the first error; glitch is the step that misreads, if any.
Ran(b, steps, glitch) ==
    AfterSteps(LAMBDA r, i: IF r.ok THEN Step(r, steps[i], i = glitch) ELSE r,
               Start(b), Len(steps))

\* Mutant of Restored: the originals are not saved.
RestoredUntilReset(r) ==
    IF r.known THEN [r.board EXCEPT !.cfg = SetTo(@, r.og)] ELSE r.board

\* Writing the originals back, and 0x6000.
Restored(r) ==
    IF ~r.known THEN r.board
    ELSE Step([r EXCEPT !.board.cfg = SetTo(@, r.og)], Do("Save"), FALSE).board

Reads(steps) == {i \in DOMAIN steps : steps[i].do \in {"See", "Keep", "Originals"}}

\* What a complete run leaves, but for what it has written. Bound: there is
\* no second accident while an earlier one has left its traces.
Clean(spi) ==
    /\ spi.on /\ ~spi.half /\ spi.sel = 0 /\ spi.fifo = <<>> /\ ~spi.runs
    /\ spi.vcfg = "FB" /\ ~spi.locked

\* files: what the file that it writes to PROM 1 may hold.
SPIcheck_respond(files) ==
    /\ Perform("SPIcheck")
    /\ UNCHANGED is_xdcfeb
    /\ \/ /\ odmb # "ODMB7"
          /\ UNCHANGED board
          /\ Done("NOT PASSED", 0, FALSE)
       \/ /\ odmb = "ODMB7"
          /\ \E steps \in {Steps(file) : file \in files} :
             \E glitch \in {0} \cup Accidents(IF Clean(board.spi) THEN Reads(steps) ELSE {}) :
               LET r == Ran(board, steps, glitch)
               IN /\ board' = Restored(r)
                  /\ Done(Verdict(r.ok), 1, glitch # 0)

(***************************************************************************)
(* MCSBackAndForthBPI programs the PROM with one file and the other, with  *)
(* a hard reset after each to load the firmware. A load is tried three     *)
(* times; if all fail the test goes on (and is not passed). A load that    *)
(* failed leaves what was there, or nothing. The crate may not list the    *)
(* board.                                                                  *)
(***************************************************************************)
Listed == ~Faulty("not listed", 0)

\* How often each load fails: never, once by accident, or from one on.
Loads(n) ==
    LET each == 1..2 * n
        only(i, f) == [j \in each |-> IF j = i THEN f ELSE 0]
        from(i, f) == [j \in each |-> IF j >= i THEN f ELSE 0]
    IN IF Faulty("bpi", 0) THEN {from(i, f) : i \in each, f \in 1..3}
       ELSE {only(i, f) : i \in each, f \in 0..2}

HardReset(b) ==
    [b EXCEPT !.fw = b.eprom, !.cfg = b.prom, !.l1a = [d \in Dcfebs |-> 0]]

Round(r, i, fails, remains) ==
    LET file == IF i % 2 = 1 THEN "1" ELSE "2"
        bailed == fails > 2
        loaded == HardReset([r.board EXCEPT !.eprom = IF ~bailed THEN file
                                                      ELSE IF remains THEN @ ELSE "none"])
    IN CASE r.stop -> r
         [] ~r.stop /\ i % 2 = 1 /\ r.board.fw = "none" -> [r EXCEPT !.errorType = 1, !.stop = TRUE]
         [] OTHER -> [board |-> loaded,
                      errorType |-> IF loaded.fw # file THEN IF file = "1" THEN 3 ELSE 5
                                    ELSE IF bailed THEN IF file = "1" THEN 2 ELSE 4
                                    ELSE r.errorType,
                      stop |-> loaded.fw # file]

MCSBackAndForthBPI_respond ==
    /\ Perform("MCSBackAndForthBPI") /\ odmb = "ODMB"
    /\ UNCHANGED is_xdcfeb
    /\ \/ /\ N = 0
          /\ UNCHANGED board
          /\ Done("silent", 0, FALSE)
       \/ /\ N > 0 /\ ~Listed
          /\ UNCHANGED board
          /\ Done("PASSED", 0, FALSE)
       \/ /\ N > 0 /\ Listed
          /\ \E fails \in Loads(N), remains \in BOOLEAN :
               LET r == AfterSteps(LAMBDA s, i: Round(s, i, fails[i], remains),
                                   [board |-> board, errorType |-> 0, stop |-> FALSE], 2 * N)
               IN /\ board' = r.board
                  /\ Done(Verdict(r.errorType = 0), 2 * N, /\ \E i \in 1..2 * N : fails[i] > 0
                                                      /\ \A i \in 1..2 * N : fails[i] <= 2)

HardReset_respond ==
    /\ Perform("HardReset")
    /\ board' = HardReset(board)
    /\ UNCHANGED is_xdcfeb
    /\ Done("silent", 0, FALSE)

\* A button: the file is stored, and runs after the next hard reset. N is 0
\* if the box is empty.
LoadMCSviaBPI_respond ==
    /\ Perform("LoadMCSviaBPI") /\ odmb = "ODMB"
    /\ board' = IF N > 0 /\ Listed THEN [board EXCEPT !.eprom = "1"] ELSE board
    /\ UNCHANGED is_xdcfeb
    /\ Done("silent", 0, FALSE)
=============================================================================
