# A TLA+ model of odmbdev

`odmbdev` is the test software of the ODMB, the board that reads out the
cathode-strip-chamber electronics of CMS, together with the data acquisition
path that stand-alone tests use. This directory holds TLA+ modules translated
from its source, TLC configurations that check them on small instances, and
TLAPS proofs of what matters most. Paths below are relative to the root of the
repository.

## 1. The system

    DDU --ethernet--> eth_hook_2 (kernel) ==shared memory==> Spy::readDDU      (DAQ reader)
                          ^                             \==> eth_readmm        (WRITE_ETH)
                          | ioctl                                ^
    web page -> Manager -> Action::respond -> ExecuteVMEDSL -----+
                   |             |
                   |             +-> VMEWrapper / JTAGWrapper -> crate (ODMB, DCFEBs, TMB, CCB, DDU)
                   +-> SOAP -> local DAQ (emu::daq::manager)
    files written by either path -> utils/ (parseddu, add_ddu_hdr, data_packet), unpacker

| part | state it keeps | operations | what is hard | what makes it correct |
|---|---|---|---|---|
| kernel driver `src/common/eth_hook_2.c` | data area, ring of packet entries, tail word (all three mapped by readers); write positions, loop count, counters, two switches | receive hook on any CPU, ioctl's (reset, switches), transmit, /proc | CPUs race, ioctl's run without the lock, nothing waits for the readers, packets are lost | an entry describes its data until it is overwritten; gaps are flagged |
| `src/common/Spy.cc` | read position and loop count, memory of a defective event | `readDDU`, `reset`, block ioctl's | every load may be stale, being lapped, returning a pointer into memory that goes on changing | order, no silent loss, no mixture of events, always recovers |
| `src/common/eth_lib.cc` with `WRITE_ETH`/`RESET_ETH` in `Buttons.cc` | the same position, an output file | `eth_open`, `eth_reset`, `eth_readmm`, `write_eth_raw` | as above; stale variables | the file is the data since the reset |
| `src/common/eth_libmm.c`, `read_ethbuf.c`, `reset.c` | as eth_lib | the same as stand-alone tools, not in the Makefile | their reset disturbs other readers | - |
| DAQ control in `src/common/Manager.cc`, scans in `Buttons.cc` | the state of a remote DAQ; its output directory | `startDAQ`, `stopDAQ`, `setDAQOutSubdir`, polling with a time-out | answers that come late, errors that are ignored | data is taken in the run it belongs to |
| `Manager` web page | groups of actions, logs, static slot, port and board type | form callbacks, `firstUse` | numbers decoded from forms, start-up that fails once | the button pressed is the action run |
| actions, `Action.cc`, `*Action.cc` | text-box values | `display`, `respond` | values outlive the request | the number in the box is the number of repetitions |
| `VMEWrapper.cc`, `JTAGWrapper.cc` | the slot, the board type; the TAP's state in the hardware | VME reads and writes, JTAG shifts | long sequences in which one step left out shifts everything | the bits shifted are those asked for |
| `ExecuteVMEDSL` in `Buttons.cc` | loop stack, position in the script, selected slot, counters | one per command | nested loops by jumps, ends that are missing, a slot for one line | what is called is what the text says |
| production tests in `Buttons.cc` | counters, registers, PROMs and JTAG chain of the board | one `respond` each, several through `MasterTest` | each test finds the board as the ones before left it, early returns included; verdicts are sums of counters | PASSED is only said of boards without the fault looked for; good boards pass, in any order |
| `utils/src/data_packet.cpp` | a packet, the ranges found in it, verdicts worked out once | `SetData`, `GetPacketType`, `Print` | one object for all packets; unsigned indices; packets that lack words, for which the tool is made | every word is in one part, or reported as uncategorized |
| `utils/src/parseddu.cxx`, `add_ddu_hdr.cxx` | a sliding window, the packet so far, the entry's number | packet search, analysis, print, count; a DDU's frame around each packet | ends that are lost, files that are cut off | events are found as they were written, and a damaged one does not spoil the others |
| `src/common/unpacker.cc` | cached ranges and cut-offs | setters, statistics; nothing in the repository calls it | `SetData` leaves the cut-off of the data before, which stays if the new data is empty | not modelled |
| `src/common/utils.cc`, `utils/src/utils.cpp` | none | string and bit helpers | - | - |
| `xml/`, `commands/`, `script/`, `eth_hook_2.mod.c`, `tempHWW.cc` | data, scripts, generated code | - | - | not modelled |

## 2. What is modelled

| module | models | extends |
|---|---|---|
| `EthRing` | the shared memory and the condition on which writer and readers loop back | - |
| `EthHook` | `netif_rx_hook_2` on several CPUs, `schar_reset_2`, the ioctl switches; externally, the DDU and a network that loses packets | `EthRing` |
| `SpyReader` | `Spy::readDDU`, `Spy::reset` | `EthRing` |
| `LossyStream` | the abstract stream that the DAQ path promises its reader | - |
| `SpyDaq` | the driver and one Spy reader, interleaved | `EthHook`, `SpyReader`, instance of `LossyStream` |
| `EthLib` | `eth_open`, `eth_readmm`, the loop of `write_eth_raw` | `EthRing` |
| `EthDaq` | the script commands `RESET_ETH` and `WRITE_ETH` over the driver | `EthHook`, `EthLib` |
| `LocalDaq` | external: the DAQ applications that `Manager` drives by SOAP | - |
| `DaqControl` | `startDAQ`, `stopDAQ`, `waitForDAQToExecute`, `setDAQOutSubdir`, the four scans, `BEGIN_DAQ`, `END_DAQ` | `LocalDaq` |
| `VmeScript` | the interpreter `ExecuteVMEDSL::respond`, and the button that sets the slot | - |
| `ScriptMeaning` | what a script means, by its structure | `VmeScript` |
| `VmeJtag` | `JTAGShift`, `JTAGRead` and the other scans of `VMEWrapper.cc` and `Buttons.cc`, as VME commands; externally, the JTAG chain of a DCFEB | - |
| `TestBench` | what the tests share: a request's queue of tests, numbers of repetitions, verdicts; externally, the board and its faults | `VmeJtag` |
| `LvmbTests` | `LVMBtest`, `LVMB5test`, `LVMB904`, `LVMBtest_dos`, `VoltageCurrentTest`, and the pages that only show readings | `TestBench` |
| `DcfebTests` | `DCFEBJTAGcontrol`, `DCFEBFiber`, `DCFEBPulses`, `ReprogramDCFEB`, `SetDCFEBMode` | `TestBench` |
| `LinkTests` | the three PRBS tests, `ClockChipTest`, `CCBReg`, `DiscreteLogicTest`, `ResetRegisters` | `TestBench` |
| `PromTests` | `SPIcheck` over a model of the SPI port, `MCSBackAndForthBPI`, `LoadMCSviaBPI`, `HardReset` | `TestBench` |
| `ManagerPages` | the page, `firstUse`, the numbers of the buttons, `groupActionsCallback`, `MasterTest`, `Defaults` | `TestBench` |
| `Bench` | an operator, the server, the tests and one board | the five above |
| `DataPacket` | `Packet::DataPacket`: parts, numbers, packet type, print | - |
| `RawFile` | how `parseddu` and `add_ddu_hdr` find packets, and the frame that the latter adds | `DataPacket` |
| `DumpTools` | the two programs, one after the other on one file | `RawFile` |
| `MCEthHook`, `MCSpyDaq`, `MCEthDaq`, `MCDaqControl`, `MCVmeScript`, `MCBench`, `MCDumpTools` | instances for TLC | |
| `EthHookProofs` | theorems about the driver alone: types, entries, flags, where and in which order it puts its packets | `EthHook`, `TLAPS` |
| `SpyDaqProofs` | theorems about the position of the Spy reader, and the refinement of `LossyStream` | `SpyDaq`, `EthHookProofs` |
| `SpyEventProofs` | theorems about the events the reader hands over, and their bytes | `SpyDaqProofs` |
| `EthDaqProofs` | theorems about `EthDaq` | `EthDaq`, `EthHookProofs` |
| `DaqControlProofs` | theorems about `DaqControl` | `DaqControl`, `TLAPS` |
| `VmeScriptProofs` | theorems about `VmeScript` | `VmeScript`, `TLAPS` |
| `BenchProofs` | theorems about the test stand: what every test leaves | `Bench`, `TLAPS` |
| `VerdictProofs` | what the tests' PASSED is worth | `BenchProofs` |

**Shared memory.** `mem`, `word`, `length` and `tail` are the data area, the two
halves of the ring's entries and the tail word. A unit of `mem` stands for a run
of bytes and holds the id of the packet copied over it last; a packet is its
length, its place in its event and its number. The sizes (`DataSize`,
`MaxPacket`, `MaxEvent`, `TailPos`, `RingSize`) are those of `eth_hook_2.h`,
scaled down. `LoopMod` is 2^14: the loop count shares its word with two flags,
and `EntryWord` ORs them together as the code does, without a mask.

**Driver.** Each CPU is a process with a program counter: `Lock`, `CopyData`,
`Classify` (the packet-counter check and the search for the event's end),
`PutWord`, `PutLength`, `Advance`, `PutTail`. These are the steps at which a
reader on another CPU can see a difference. The copy also overwrites up to `Spill`
units behind the packet, because the code copies whole 8-byte words at a stride of
4. The byte and rate counters are left out.

The reset ioctl is five steps that take no lock. They may fall between the steps
of the hook, and `RacedStep` lets any run of them fall between the loads and the
stores of one: each load of a position or a counter then finds the old value or
0, each store is cleared again or is not (`RacedCopy`, `RacedClassify`,
`RacedWord`, `RacedAdvance`, `RacedTail`). But for a reset only the holder of
`eth_lock` touches the positions and counters, and readers never see them: this
is why plain steps do for the rest. The ioctl's that switch a check are two
stores each: a flag that is down comes up (`RaisePmissing`, `RaiseEevent`) until
the second store takes it down again. `Classify` looks at both flags at once, as
the two checks have nothing in common. `raised` says that an ioctl is between
its two stores; the next call of the process that has issued it waits for that.

**Readers.** Every load from the shared memory is a step: the tail, the entry's
word, its length, and the first entry's word together with the comparison and
whatever follows it, which touches only the reader's own variables. Loads and
stores take effect in program order. The bit masks of the flags become sets
(`theErrorFlag`), the event handed to the caller is `buf_data` and `len`, and
the caller uses it until its next call.

**Ghosts.** `mem`'s ids, `written` (each packet with its place, its counter and
the flags that its entry got), `lap`, `ids`, `taken`, `fresh`, `gap`, `raced`,
`overlapped` record history for the properties; no guard reads them. Sums over
packets (`EventLength`) are recursive functions, so that proofs can use them.

**Pace.** Nothing in the code makes the driver wait for a reader, so what a
reader can promise depends on how fast it is. `SpyDaq` makes that an explicit
assumption where a packet gets the lock: `samelap` (the reader is in the
driver's loop), `ahead` (the driver may be one loop ahead but overwrites nothing
unread) and `free` (no assumption). An event that has been read is not spared at any
pace: nothing keeps the driver from overwriting what the caller still holds, and
`DataIntact` is about what it holds until the driver comes round to it.

`Quiet` restricts a reset to moments at which no packet is being handled.
Without it (run `free`) a reset can lose any packet that is just being written,
leave a tail that no position of the reader ever matches, or one from before the
reset that has the reader go round among stale entries for ever; all that is
claimed then is that it stays inside the shared memory. The ghost `overlapped`
tells these behaviours apart, so that `Settles` can be claimed of the others.
`EthDaq` always takes RESET_ETH to come between packets.

**WRITE_ETH.** If the device cannot be opened, `eth_open` says so and returns,
and `write_eth_raw` goes on with an `EthBuf` that nobody has set. `OpenFails`
ends the program at its first load through it, with a file that is empty; that
it finds readable memory there, and reads on, is left out.

**DAQ control.** A task is a scan started from the web page or a line of a
script; `step` is its next call. Every SOAP call and every poll is a step of its
own, between which the DAQ moves on. The DAQ is not part of the repository:
`LocalDaq` says what `Manager.cc` takes for granted, that commands are accepted
first and carried out later, in order, through the state `INDEFINITE`, and that
the DAQ may end in a state from which only "destroy and recreate" helps. A call
may throw, delivered or not (`Throw`, `LoseMessage`); nothing catches it, so the
task is over. The names of run types and directories are pairs of a label and a
number. `fresh`, `confirmed` and `late` are ghosts: the code keeps no answer.

**Scripts.** A line is a record of its word, its number and whether it is one
character long; the split into lines, the conversion of numbers and the log are
left out. One action reads one line, as nothing runs beside the interpreter: the
position, the loop vectors and the slot are the variables of the code. What a
line does to the crate is a sequence of calls (a read, a write, one round of a
comparison), with the slot it goes to; `calls` collects them. `ScriptMeaning`
defines, without jumps, which lines a script does: loops are written out by
recursion on the text, which is cut at the first end of run, stray `EL` or
incomplete `1`. The text is chosen in `Init` and stays in its boxes between
presses of the button, while the slot may change.

**Test stand.** A request to the server runs its tests to their ends, one after
the other, and nothing runs beside it: so a `respond` is one action, which takes
the board from what the tests before it have left to what it leaves itself. What
makes this a state machine is that memory: the L1A counters, the power and the
mode of the DCFEBs, the configuration registers and their copies in the PROM,
the selected PROM, its lock and its readback FIFO, the TAP of a chain with a
scan left open, the firmware that a failed load leaves. `SPIcheck`, whose some
forty comparisons may each end it, is a sequence of steps (`Steps`), folded over
the state of the SPI port until a look is wrong. The board has one fault or none
(`faults`), and a reading may be wrong by accident (`glitch`, at most `MaxNoise`
in a test). Readings are reduced to what the tests compare: right or wrong
voltages, counts, whether a word is the expected one. `todo` is the queue that
`MasterTest` fills, `last` what the last test has said. The counters' widths are
constants (`CounterRange`, `WordRange`, `PacketRange`, 2^16 in the code).
`MaxRepeats` is at least 2, and line 3 of the CCB is not among the faults that
`CCBReg` is there to find, as the test leaves it out (`other_bits`).
`AfterSteps` runs a loop of a test as a function from the number of steps done
to the state then.

**Pages.** A button's number on the page is computed by the server that made the
page and decoded by the one that gets the request, which may have been restarted
since and have built fewer groups (`firstTime`, `groups_`).

**Files.** A packet is a sequence of words, and the markers are those of the
code, as what the parser makes of a word is the point; the words between them
are arbitrary. `events` is a ghost: what was written, with the parts each event
was put together from and what is missing of it. `AddHeader` and `Take` are one
round of the loops of the two programs. The programs end early where the code
does: at an index outside a vector, whose exception nothing catches.
`SampleWords` and `Samples` are the 100 words and 8 samples of a DCFEB,
`IndexMod` is 2^32.

## 3. What is checked

| run | instance | question | answer |
|---|---|---|---|
| `driver` | 2 CPUs, 3 packets, 1 lost; switches, or 1 reset between any two loads and stores | do the positions stay in bounds while CPUs race for the lock; without a reset, do entries describe their data, are exactly the gaps between packets that were looked at flagged | yes |
| `keepup` | 5 packets, 1 lost, time-outs, `samelap`, fair | order, no false alarms, damaged events withheld, good events kept unless packets are missing right before them, buffer inside the area and intact until the driver comes round, everything delivered | yes |
| `ahead` | 5 packets, 1 lost, 1 `Spy::reset`, `ahead` | is the reader's stream a `LossyStream`; is what is returned without a flag one event's packets up to its last, and all of them if the call began at the first | yes |
| `free` | 4 packets, `disableBlock`, 1 reset by another process between any two loads and stores, `free`, fair | does the reader stay in bounds and come to rest at the write position; do the loop counts tell overwritten packets from intact ones | yes; it comes to rest if the reset overlaps no packet, and the counts tell if the driver stands still while the reader looks |
| `loop_count` | loop count of 1 bit, `samelap` | is every overwrite that is reported to a reader that keeps up a real one, once the count exceeds its bits | no |
| `write_eth` | 4 packets, 1 reset, the device may not open, fair | does `WRITE_ETH` return what came since the reset, all of it, and end | yes, within a loop of data |
| `write_eth_file` | the same | is that what it writes | no |
| `daq` | 2 tasks, depths 1 and 2, 2 seconds, 1 call that throws, any initial state of the DAQ, fair | does a scan pulse into its own run and directory, are waits answered with true in time, does every task end and the DAQ come to rest | yes, if the waits were confirmed and no call threw |
| `script` | 2,300 scripts, 0 to 2 repetitions, 2 slots, unsigned ints below 4, fair | are the calls those the text means, in order, with its slots and counts; does every run end | yes |
| `bench` | eight sessions of related tests, 2 DCFEBs, 0 to 3 repetitions, one fault or none, one wrong reading, any board and kind of DCFEB | is PASSED true, do good boards pass whatever was done before, are test values removed from the PROM, scans closed, and is the button pressed the test performed | yes, but for the cases listed in `Misses` and `Sensible` |
| `tools` | files of up to three events, 15 kinds of undamaged events, 20 of damaged ones and 6 lengths of a file that was cut off, of a PC channel or a DDU; all modes; ranges of entries; two masks | are undamaged events found, reported and printed for what they are, whatever is beside them | yes, if the program gets to the end of the file |
| `diagnosis` | the same | does `parseddu -a` give each of them its code | no |

Bounds. Lengths of 1 and 2 units in an area of 3 to 8 make the position loop
back after two to five packets, so five packets bring the driver one to two
loops around, which is what lapping, stale entries and both reasons to loop back
need (in `driver`, whose CPUs interleave step by step, three packets go once
around and begin to overwrite); a lost packet can be any of them, including an
event's last. The packet counter wraps in `driver` (2 values, 3 packets),
`keepup` and `ahead` (4 values, 5 packets); the properties of the other runs do
not depend on it. `driver` leaves out behaviours with both a switch and a reset
(`Bounded` in `MCEthHook`). In `free`, no more than two packets are sent and
four taken once a reset has overlapped the handling of a packet, or two sent and
no reset done where `disableBlock` was called (`Bounded` in `MCSpyDaq`): the
bound on the packets taken is needed, as the reader may then go round among
stale entries for ever. Where the loop count's width does not matter it is wider
than the loops that fit (`LoopMod`), and `loop_count` makes it overflow. The
ring has more entries than packets fit into the area, as in the code, so that
the third way to loop back, a full ring, does not occur; it is covered by the
proof. Event sizes are such that an event which begins before `buf_eend` is not
cut by `buf_end`; real events of more than `MAXEVENT - MAXPACKET` bytes can be.

In `daq`, two tasks are enough for one to leave the DAQ or the directory in a
state that the next does not expect; a third is replaced by the initial states,
in which the DAQ is halted, ready, enabled or has failed. Two depths make a scan
loop, end at once or be empty; with two seconds a wait has a first, a middle and
a last poll.

The scripts are all of up to five lines out of `BL 2`, `EL`, `W` and `0`: two loops
after or inside each other, open ones, stray ends, an end of run anywhere; all of
up to three lines about slots; all pairs of other commands inside a loop; and one
of three levels with a loop of 0. Unsigned ints below 4 make `BL -1` a loop of 3.

In `bench`, a session has the tests that share a part of the board, as no test
depends on what the others touch, and the faults they are there to find; what
the operator does in it is not bounded. Two DCFEBs make a first and a last
input, two repetitions a first and a later one, and with three repetitions the
L1A counters (`CounterRange` 3), the packet counter (`PacketRange` 3) and the
words that hold numbers (`WordRange` 4) come to their limits. What needs more
repetitions than that, packets lost unseen because `DCFEBFiber`'s counter wraps,
is in `Misses` and covered by the proof only. With two DCFEBs and one fault the
other input fails `DCFEBJTAGcontrol`; that with a single one nothing does is in
`Misses` too, and left to the proof. A session also has the files that its
operator may load: with two, `SPIcheck` meets a PROM that still holds the other
one, with one file, a good board passes it any number of times.

In `tools`, a damaged event comes first or second of three, as what is lost of
it can only spoil what follows. The damages are a word or a run of words missing
from each part of an event, and each way in which a file can be cut off. Samples
of 28 words, with two in a DCFEB, can begin before the packet and can not, as in
the code. `MaxWords` is 110 in `tools`, so that there are packets that fit into
the buffer, that do not, and that only just do not, and 200 in `diagnosis`,
where none is left out.

Deadlock is checked in `script` and `bench`. In `tools` a run of the programs
ends; elsewhere the DDU sends a bounded number of packets, after which every
process may have nothing to do; and no more than `MaxTasks` tasks begin.

Fairness. The reader's loop and its caller run on, a hook that was entered runs
to its end, as does an ioctl: weak fairness of each; strong fairness of the next
call of `readDDU` (`Reenter`), as the caller may call `disableBlock` between two
calls as often as it likes. The DDU owes nothing. A task goes on after each
call, as it is a sequence of blocking calls and sleeps, and the DAQ carries out
its commands in the end; `TaskEnds` does not need the latter. A script runs on
by itself. `bench` and `tools` have only safety properties and assume nothing.
Time-outs are a bounded count of idle loops (`IdleLimit`, 50000 in the code, 0
in the runs: a call may time out at its second look).

### Disagreements between code and comments

* `loop_count`: `ring_loop_2` has 16 bits and is ORed unmasked with the flags 0x4000
  and 0x8000, and the reader compares the lower 14 bits of the entry with its own 16-bit
  count. A reader that keeps up reports an overwrite when it comes to the first packet of
  loop 2^14. It then takes over the count of the entry, so that what follows
  matches until the reader counts past 2^14 - 1 again: one false alarm at each such
  crossing. The flags are wrong for longer: in the loops from 2^14 on, bit 14 of
  the loop count says of every packet that it ends an event, and bit 15 that packets are
  missing before it.
* `write_eth_file`: `write_eth_raw` keeps the bytes of its first `eth_readmm`
  and writes them again for every later event.
* `diagnosis`: a DCFEB is taken to begin 100 words before the end of its first time
  sample. If words of this sample are missing from a short packet, that is before the
  packet, the unsigned index wraps around, and `Unpack` reads from there: `parseddu -a`,
  made to report damaged events, ends without reporting any.

Without a run of their own:

* `Spy::readDDU` loads the tail, then the loop count, and concludes from both. If the
  driver loops back in between, a tail of the old loop is combined with the count of
  the new one, and intact, unread data is dropped as overwritten (`NoAlarmWithoutRace`
  leaves this case out by `raced`).
* The script command `0`, "End of run, stop execution", leaves the loop over the lines
  only; with a repeat number above 1 the script starts again (`RunsAsWritten` says so).
  `0` and `7` have no effect as lines of their own, since a line of one character is
  a comment.
* `Spy::readDDU` forgets that a call has timed out inside an event: the next call
  returns the rest of it without a flag, as if it were an event (`CleanEventsAreWhole`
  promises a whole one only to a call that begins at the start of one, `fresh`). When
  an event's last packet is lost, the flag is on the next event, which is thrown away
  though it is whole (`GoodEventsAreKept` says so).
* The ioctl's `SCHAR_PMISSING` and `SCHAR_EEVENT` leave their check off whatever it was,
  but bring one that is off up for a moment, in which another CPU may check a packet
  against a counter that has stood still (`GapsAreFlagged` says what a flag is worth then).
* `DCFEBJTAGcontrol` takes `end-start` for the number of shifts of a repetition, of
  which there is one more. The difference that is to be 0 is then the number of failed
  reads less the number r of repetitions: a DCFEB with r failed reads counts as good,
  and one with none as failed. If all connected DCFEBs, for instance the only one,
  have r failed reads, the test says PASSED, although a comment (Buttons.cc:4090) has
  it count failed reads. (`Misses` lists the mask, and `Sensible` leaves out requests
  with repetitions, which every good DCFEB fails.)
* `LVMB904` takes every xDCFEB that does not answer for connected, and leaves all
  without power, and a DCFEB that is stuck on escapes it while xDCFEBs are chosen; the
  LVMB tests do not see a first ADC that is dead, `DCFEBPulses` inputs that get no
  pulse, `DCFEBFiber` a resync that is missed by any but the last (`Misses`).
* `SPIcheck` may end with PROM 1 selected, commands disabled, words in the FIFO or the
  PROM locked, so that the next one fails on a good board (`Prepared` is then false).
* `LVMBtest_dos` divides by a tenth of its number of repetitions, and a button of an old
  page by the number of groups, which may be 0: both end the server (`Dies`, `Idle`).
* `MCSBackAndForthBPI` says PASSED if no board is listed.
* An OTMB without an ALCT is reported as an ALCT (`OTMBAlone`); a packet of less than 16
  words ends `parseddu` after it was printed; a DDU's packet that ends within three words
  of its marker ends either tool.
* `add_ddu_hdr` accepts packets that do not fit into its buffer with their frame.

Further weak points met while modelling, and what the properties assume about
them, are in the notes of the hazards in `PROJECT.json`.

## 4. What is proved

Every theorem holds for all values of the constants that the assumptions
`RingAssumption`, `HookAssumption`, `DaqAssumption`, `ScriptAssumption`,
`BenchAssumption`, `DcfebAssumption`, `PromAssumption` and `SessionAssumption`
allow: any number of CPUs, packets, losses and resets, any sizes, scans and
scripts, any number of inputs, repetitions and sessions. What a theorem assumes
beyond that stands in its statement. The packet counter has at least two values
(`CtrMod`, 2^16 in the code).

### The driver (`EthHookProofs`)

* `TypeCorrect`: `DriverSpec => []HookTypeOK`. In particular the write position never
  leaves the area, whichever loads and stores of the hook a reset overlaps.
  `HookTypeOK` is not inductive: a packet must be known to fit behind the position,
  which needs that a CPU inside the hook has a packet (`Handling`) and that the DDU
  has begun the event it sends (`EventHasBegun`). `TypeInv` is the conjunction; the
  lemma `NoWrapInBounds` is the arithmetic of looping back.
* `EntriesCorrect`: `DriverSpec => []EntriesDescribeData`. The invariant
  `DataInv` adds `Mutex` (past `Lock`, a CPU holds `eth_lock`), and, while nobody
  has reset the driver, that surviving entries lie behind the write position or
  ahead of it by more than a packet (`Behind`, `Intact`), and that the data, the
  word and the length put so far are those of the packet in hand (`DataInPlace`,
  `WordInPlace`, `LengthInPlace`). The step that matters is `CopyData`: what it
  overwrites, spill included, is disjoint from every survivor.
* `GapsFlagged`: `DriverSpec => []GapsAreFlagged`, with losses, switches and CPUs that
  overtake each other, until a reset. The flag is decided in `Classify` and kept in
  `written` at `Advance`, together with whether the check was on; `CheckInv` says what
  a CPU that has checked knows in between, and that the counter it compared with is
  that of the last packet that was looked at (`LastChecked`), which need not be the
  last one written, as the check may have been off meanwhile.
* `OrderInvariant` and `OnceInvariant` are what a reader relies on. While `Regular` (no
  reset, and a loop count within its 14 bits; beyond them `loop_count` refutes what
  follows), each packet begins where the one before it ended, one entry further, or both
  positions are 0 and the lap is the next (`OrderInv`); its entry's flag says which. The
  tail word points behind the last packet whose hook is done. Over resets too, no packet
  is written twice and packets are written in the order of the lock (`OnceInv`).

### Spy and the driver (`SpyDaqProofs`, `SpyEventProofs`)

* `SpyTypeCorrect`: `Spec => []TypeOK`, at any pace and with any resets: whatever stale
  entries it follows, the reader stays in the ring and in the area.
* `TakenInOrder` (`InOrder`) and `NeverAlarmed` (`NoFalseAlarm`) at the pace `samelap`,
  while `Regular`. The invariant `SpyInv` says: there is a place j in `written` (or just
  behind it) such that the reader's offset, entry and loop count are those of packet j;
  what it has loaded of its entry is what the hook put there; what it has taken are the
  packets before j (`KeepsUp`). Between two of its loads the driver moves on; what remains
  true of a tail it has loaded is that packet j had been published (`At`). `Room` is the
  pace as a fact about every CPU on its way through the hook: its packet touches nothing
  that is still unread.
* `StreamImplemented`: `Spec /\ []Regular => StreamSpec` at both paces at which the
  reader is not overtaken. Initial states map to initial states, and each step of driver
  or reader to a step of `LossyStream` or a stutter: `Advance` is `Send`, the step that
  consumes a packet is `Take`, and the one that goes to the driver's loop is `Tell`.
* `DamageIsWithheld`, `GoodIsKept` (`samelap`) and `CleanIsWhole` (not `free`), while
  `Trusted`: `Regular`, every packet so far was looked at (`AllChecked`), and no gap is a
  multiple of 2^16 packets (`Unaliased`). `NoGapUnseen` and `WhenTrusted` prove that this is
  met by one CPU that does not lose 2^16 packets at a time, without resets and switches;
  several CPUs may exchange packets in any way, and only `Unaliased` is asked of them. What
  they say of calls that begin inside an event, and of the event after one whose last packet
  was lost, is what the code does (section 3), not what one would wish. `EventInv` gives
  an account of the event that the reader is in (`Account`): the packets that this call
  has appended (`CallOf`), which of the flags they raised, and, across calls,
  why `insideEventWithMissingPackets` is set or not. That a sum of lengths is the
  `EventLength` needs that the recursive function exists (`SumsExist`), which is
  proved with the well-foundedness of the numbers (`LeastNumber`), as induction over a
  predicate is not available.
* `BufferStaysInBounds` (`BufferInBounds`) and `DataStaysIntact` (`DataIntact`), at
  `samelap`, while `Trusted`, and if `EventsFit`: an event that begins before `buf_eend` is
  not split at `buf_end`. With the values of the code that is so for events of up to
  MAXEVENT_2 - (MAXPACKET_2 - TAILPOS - 64) = 171044 bytes; a longer one may be split. And
  the ring has an entry for each unit of the area (512000 entries, and 64 bytes at least
  in a packet). `SizeInv` bounds what the DDU has sent of an event by the sums of the
  packets, lost ones included; `Unsplit` follows: the packets of an event lie one behind
  another. `BufferInv` adds that `buf_data` and `len` are the first and the total of
  them (`Pointed`). That their bytes are still there until the driver comes round is then
  `EntriesCorrect`, packet by packet.

### WRITE_ETH (`EthDaqProofs`)

* `EthDaqTypeCorrect`: the types, at any pace and with any resets.
* `FirstLoopIsRead` (`ReadsTheData`) and `WriteEthIsComplete` (`FileIsComplete`) for
  as long as the 16-bit loop count has not returned to 0 (`lap < LoopRange`): a driver
  that has gone around 2^16 times looks as if it were in its first loop. `RecentInv`
  says where the packets since the last RESET_ETH lie in loop 0, and that the reader
  is at the position of the next of them (`OnTrack`), or has looped back where the
  driver did not, after a packet that ended no event, and takes no more in this loop
  (`OffTrack`); a reset that falls into a packet only matters to the packets that are
  written after it.

### DAQ control (`DaqControlProofs`)

* `PulsesTaken`, `TrueInTime`, `RunsInTheirDirectory` (the three invariants of the
  run `daq`) and `ControlTypeCorrect`.

`IInv` says, step by step, where a sound task (`Sound`: it found the DAQ at rest, no
wait has failed, the DAQ works) has brought the DAQ (`DaqFollows`), that the run has
the parameters of the task (`RunFollows`), and which directory is set
(`PathFollows`). Its core is `Ordering`: during a wait, the command waited for is
either the only order the DAQ has, or done. That is what makes the expected state
mean that the command was executed, and it fails after a wait that timed out:
orders then queue up, and `daqState` may be that of an earlier command.

### Scripts (`VmeScriptProofs`)

* `LoopsNested`: `TypeOK` and `LoopsNest`, which are inductive together only: an `EL`
  stays inside the text because the loop it goes back to began inside it, and
  removing the innermost loop keeps the others below the next line because their
  starts are in order. `TypeCorrect` is the types alone.
* `SlotsRight`: `SlotsAsWritten`. `SlotsFollow` adds that while a script runs,
  `Manager`'s slot is the one its calls so far have left it with (`DefaultBefore`).
  `CallsFit` says what the proof needs of the calls of one line.

### The test stand (`BenchProofs`, `VerdictProofs`)

* `StandIsReady`: between two tests the board is as every test takes it to be. The
  invariant `StandOK` is what makes a `respond` that starts anywhere predictable: the
  chain is idle (`IdleBoards`), the queue of the SPI port holds commands that wait, and
  only while the port is off, and neither the queue nor the FIFO has more than four
  (`PortOK`, which bounds what a `SPIcheck` that ends early can leave), the
  registers and their copies hold no test values (`Untested`), and what the fault
  keeps from happening has not happened (`FaultShows`: with an `Erase` that does nothing no
  timer is long, and so on for each command). The types (`StandIsTyped`), `ScansClosed`
  (`ScansAreClosed`), `ValuesRemoved` (`TestValuesAreRemoved`) and the action property
  `PressedPerformed` (`PressedIsPerformed`) follow.
* `PassedIsGood` (`PassedMeansGood`): a test that says PASSED has found every fault of
  its concern that is not one of `Misses`, in whatever order the buttons were pressed.
  The invariant `FindsFaults` adds to `StandOK` that there is one fault at most. The
  theorem has no hypothesis: with any number of inputs, counters of any width and any
  number of repetitions, what escapes is in `Misses`. For `DCFEBJTAGcontrol` that is
  the mask, all that it looks for; for `DCFEBFiber` packets and CRC's from
  `PacketRange` repetitions on, and a missed resync of all inputs if the wrong kind of
  DCFEB is chosen and there is one repetition less than a word has values, when what a
  chain out of step shows can be the number asked for.

A loop of a test is a function from the number of steps done to the state then
(`AfterSteps`). That this function exists is proved with the well-foundedness of
the numbers (`LeastNumber` again); what holds after each step is then an
argument about its least counterexample. For `SPIcheck`, `Makes(P, s, Q, M)`
says what one step does, whether or not it misreads (`M`), `Leads` and `Goes`
what a sequence of them does, and sequences are joined as the code writes them
(`GoesOn`). `ValuesRemoved` follows each section of `Steps` from `Pristine` to
`Removable`; for `PassedIsGood` each command has the section that looks for its
effect (`InBasics`, `InTimer`, `InRegisters`, `InReadID`, `InLocks`,
`InConfig`), and with that command out of order no run of the section ends with
`ok` (`StepsFind`). `TestsFind` puts together what the lemmas about each test
say, and `TestsReport` what the report then is.

### Only model-checked

* Liveness (`Delivered`, `Settles`, `WriteEthEnds`, and that scripts, tasks and the DAQ
  come to rest): TLAPS 1.4.5 has no ENABLED, which fairness is defined by.
* `RunsAsWritten`: the meaning of a script is a recursion over its text, and that jumps
  agree with it for every text is an induction over the text.
* `TakesIntact` and `NoAlarmWithoutRace`, which are about a reader that is lapped at any
  step: the driver can then be anywhere, and no invariant ties what the reader has
  loaded to one packet. Their types are proved.
* `GoodBoardsPass`, which needs of each of the operations of a test that it works on a
  good board, and not only that one that does not is seen; it also fails for a file of
  zeros, which cannot be told from one that was overwritten (no run has that file).
* The tools: what the parser makes of a file is an induction over its words.

## 5. Plan

1. Prove of `Bench` that good boards pass (`GoodBoardsPass`): in addition to `StandOK`, that
   a board without a fault has firmware in its EPROM.
2. Prove of scripts without open loops that a run makes the calls of `ScriptMeaning`, if
   the meaning can be given as a recursive function.
3. The rest of `DataPacket` that a caller outside this repository uses (`GetValidDCFEBData`)
   with `Unpacker`, if one is added here.

## 6. Not modelled

* The driver's transmit path, its /proc text and its page handling; the stand-alone
  copies of `eth_lib`, which the Makefile does not build.
* The output log of the page with its buttons, `ODMBVitals`, single reads and writes from
  the log page, `JTAGWrapper`, which no modelled button uses; `DDUFIFOTest`, `PCFIFOTest`
  and `BurnInTest`, whose buttons are commented out; what is only shown: histograms,
  voltages, temperatures, logs.
* `Unpacker` and the values that `DataPacket::Unpack` puts together: averages and quantiles
  in floating-point numbers, which nothing in the repository asks for.
* The CRC's of `add_ddu_hdr` and of the print, which nothing compares; colours, layout,
  the options of `parseddu` that choose them.
* XML, scripts, generated code and formatting.

A combination of loads and stores that a weakly ordered machine could reorder is
outside the model.
