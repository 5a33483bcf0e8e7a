# C68: models and proofs of a 6800 computer, its storage and its programs

C68 is a Motorola 6800 computer. Its software (`src/src`) is a monitor ROM, the
FLEX 2 operating system with a platform layer, an SD card bridge with an AVR in
it, an emulator of the whole machine, a Z-machine interpreter, and the Inform 6
compiler that makes stories for it. This directory holds TLA+ modules of that
software, TLC configurations that check them on small instances, and theorems
about them that TLAPS checks for every value of their constants.

The centre is **storage**: the SD bridge, in which two processors, an interrupt,
a slow card and resets of either side meet and a mistake destroys data, and what
stands on it, FLEX's driver and its sector operations. Around it are the
emulator's devices, where bytes are queued and files replaced, and the programs
that compute: the emulated CPU, the compiler and the interpreter.

## 1. Inventory

### 1.1 Components

| component | source | state | operations | modules |
|---|---|---|---|---|
| request engine | `sd/firmware/sd_bridge/src/protocol.h` | parser state, command, address, sums, counters, staging buffer, reply | `receive`, `acknowledgeResponse`, `responseByte`, `reset` | `SdProtocol`, `SdEngine` |
| link and board | `link.h`, `avr_board.h`, `sd_bridge.ino` | `events`, `previousControl`, `published_`, `lastProgress_`, CB1, U3 | pin-change ISR, `setup`, `poll`, `recover` | `SdWires`, `SdFirmware`, `SdRequests` |
| storage | `sd_storage.h` | `status_`, the image file | `begin`, `read`, `write`, `sync`, `fail` | `SdFirmware` |
| ROM transport, FLEX SD adapter | `roms/mikbug2/sdcard.s`, `flex2/platform/sdcard.asm` | `SDINITIALIZED`, `SDSUM`, `SDREMOTE`, `SDDATA`, `SDHOSTINIT`, the PIA's flags | `SDREAD`, `SDWRITE`, `SDREADY`, `SDINIT`, `SDPUT`, `SDGET`, `SDWAIT`, `SDTIMEOUT`, `SDENSURE` | `SdHost`, `SdBridge` |
| drive selection, SRAM disk | `flex2/platform/ramdisk.asm` | `C68SD`, `C68BASE`, the page latch, SRAM | `C68READ`, `C68WRITE`, `C68DRIVE`, `C68READY` | `SdVolume`, `FlexDrive` |
| FLEX file management | `flex2/6800Flex/FLEX21.ASM` | FCB, retry and restore counters | `RDSSEC`, `WRSSEC` with the error handler | `FlexFms` (in part) |
| boot sector, image builder | `flex2/platform/boot.asm`, `flex2/tools/mkimage.py` | link, `PTR`, `REMAIN`, `DEST`, `COUNT` | `GETBYTE`, `NEXTREC`, `COPY`; `binary_records`, `make_drive` | `BootLoader` |
| emulator SD PIA | `emu/src/devices/sdBridgePia.cpp` | PIA registers and flags, an `Engine`, `published_`, the file and its `status_` | `in`, `out`, `publish`; file read, write, sync | `EmuSdPia`, `EmuBridge` |
| emulator console | `emu/src/terminal/tcpConsole.cpp`, `acia.cpp`, `emu.cpp` | two bounded queues, a client, ACIA 1 | `poll`, `read`, `write`, `disconnect`, `run` | `EmuConsole` |
| emulator memory | `bankedMemory.cpp`, `latch.cpp`, `machine.cpp`, `ram.cpp`, `rom.cpp` | RAM, ROM, pages and latches, an image file | read, write, load, save; the process around them | `EmuMachine` |
| emulator CPU | `emu/src/cpu`, `emu/gen/cpu_operations.csv` | registers, flags | every opcode | `Cpu6800Alu`, `Cpu6800`, `Cpu6800Programs` |
| Inform 6 | `tools/inform6` | symbol table, code, labels, objects, dictionary, memory image | a pass: directives, statements, expressions, assembly, veneer, story file | `I6Text` ... `I6Program` |
| Z68 | `z68/z` | story memory with a sector cache, Z-stack, objects, dictionary | decode, execute, input, wrapping | `Z68Text`, `Z68Objects`, `Z68Execute`, `Z68` |
| emulator switches, tracing, symbols | `emu/src/util`, ... | - | - | no (I/O) |
| MIKBUG, BASICs, BIOS | `roms` | - | - | no |
| image and session tools | `flex2/tools`, `sd/tools`, `tools` | - | - | no, but `mkimage.py`'s packing is in `BootLoader` |
| programmable logic, boards | `pld`, the KiCad directories | - | - | only the wires |

The engine is compiled into the AVR firmware and into the emulator; the ROM
transport runs on the real machine and under the emulator.

### 1.2 How they interact

    program --> RDSSEC/WRSSEC --> ramdisk.asm --> SRAM pages behind the latch
                                       |
                                       v
    sdcard.asm --jsr--> sdcard.s
                           | PA/CA2 (byte, "receive" strobe)    ^ CA1 (acknowledge)
                           v                                    |
                    U2 latch, pin-change ISR --> Link::poll --> Engine --> SdStorage --> card
                           ^                                    |
                           | PB/CB2 (byte, "consume" strobe)    v CB1 (ready), U3 latch

A byte to the AVR: the host writes PA, pulses CA2 low, the rising edge clocks U2
and raises a pin-change interrupt; the main loop takes the event, gives the byte
to the engine (which may call storage and block) and pulses CA1, which latches
CRA bit 7 in the host's PIA. A byte to the host: the AVR clocks U3 and raises
CB1; the host sees CRB bit 7, reads PB, pulses CB2; the AVR lowers CB1 and
publishes the next byte. In the emulator both halves happen inside the 6800's
own write to a control register: `SdBridgePia::out` gives the byte to the engine,
reads or writes the file, sets the flags and publishes before it returns. A
transfer is preceded by INFO (is it the bridge this ROM was built for?) and
STATUS (is the image mounted?).

FLEX selects a drive and then transfers; the driver keeps the selection, and any
program may call the driver between two of FLEX's calls. The boot sector reads
through the same page window as the SRAM volumes. In the emulator `run()` calls
`TcpConsole::poll` every few thousand cycles, and moves bytes between its queues
and ACIA 1. The compiler's story file is read by Z68 through FLEX, sector by
sector, into a cache of two.

### 1.3 What is hard about it

* The ISR and the main loop share `events` and `previousControl`.
* Two processors count time separately: the link timeout (2.0 s, AVR), `SDSETTLE`
  (about 3.1 s) and `SDWAIT` (about 14.7 s), both on the 6800. Nothing but these
  three ends a wait whose answer was lost.
* The host gives up on an AVR that goes on; the AVR gives up on a host that goes on.
* Either side may be reset, at any byte, in or out of a storage call, and the
  reset of each is visible to the other as edges on a wire or not at all.
* A write to the card may fail or be cut anywhere; an I/O error is latched.
* The emulator uses the same engine with a second, simpler link around it.
* State outlives transactions: the staging buffer, the sums, the PIA's flags,
  `SDINITIALIZED`, the driver's selection, the byte in the ACIA.
* FLEX retries and restores with two counters and ignores what `RESTOR` returned.
* Clients connect, hang up and connect again between any two system calls of
  `poll()`; both console queues are bounded and a full one pauses the machine.
* The SRAM image is replaced at the end of a run, and the process may die there.
* The compiler folds constants, shortens branches and drops dead code; each is a
  second implementation of what the machine would have done.

The full list, each at its line and with the properties that cover it, is
`hazards` in `PROJECT.json`.

### 1.4 What makes it correct

* engine: only a WRITE whose two checksum bytes match the very buffer that goes
  to the card is stored, at its own valid address; an error is never answered Ok.
* link: a published byte stays until it is consumed; a partial request or
  response is given up in the end; back-to-back transactions need no recovery.
* transport: a call that returns without an error did what it says; every call
  returns; after a failure, one more failure at most.
* together: an acknowledgement is never credited to the wrong byte; nothing of
  an abandoned call reappears behind a successful one. Both bridges are SD volumes.
* driver and FLEX: a sector is moved between the caller and the drive of its FCB,
  or an error is returned; SRAM changes only by a write to the chosen volume.
* boot: what the image builder packed is loaded as it was; a chain that ends stops.
* console: every byte once and in order, both ways; a client keeps its console;
  backpressure ends.
* emulator memory: a store changes one cell; the image is the old one or the new.
* CPU, compiler, interpreter: a program does what its source says.

## 2. The modules

    SdProtocol            constants, checksum, addresses                (operators)
      SdEngine            the request engine as operators on a record   (operators)
      SdVolume            what an SD transport promises                 (abstract)
        FlexDrive         the driver over SdVolume
          FlexFms         RDSSEC and WRSSEC over the driver
    SdWires               the wires and latches both sides share
    SdFirmware            = SdEngine + SdWires: the AVR against an arbitrary host
      SdRequests          the AVR against a host that sends requests from a list
    SdHost                = SdProtocol + SdWires: the 6800's side
    SdBridge              = SdHost + SdFirmware + time + faults; implements
                            SdFirmware's specification and SdVolume
    EmuSdPia              = SdEngine + SdWires: the emulator's PIA against any program
    EmuBridge             = SdHost + EmuSdPia; implements SdVolume
    BootLoader            the boot sector, and the image builder's packing
    EmuConsole            the console, ACIA 1 and the run loop
    EmuMachine            the emulator's memory, its image file and its process
    Cpu6800Alu            what instructions compute                     (operators)
      Cpu6800             the CPU
        Cpu6800Programs   programs for it
    I6Text > I6Asm > I6Expressions > I6Directives > I6CodeGen > I6Statements
      > I6Objects > I6Program (+ I6Veneer)       the compiler           (operators)
    Z68Text > Z68Objects > Z68Execute > Z68      the interpreter        (operators)
    StoryLanguage > StoryPrograms   programs, their text and their meaning
    Stories               compile and run

    SdProofs > SdBridgeProofs, EmuBridgeProofs                          (theorems)
    FlexProofs, BootLoaderProofs, EmuMachineProofs, EmuConsoleProofs,
    Cpu6800Proofs                                                       (theorems)
    MCSdBridge, MCEmuBridge, MCFlexFms, MCStories                       (TLC instances)

`SdRequests`, `EmuSdPia`, `BootLoader`, `EmuConsole`, `EmuMachine` and
`Cpu6800Programs` are run by TLC as they are.

The lines of the source that a definition stands for are in `PROJECT.json`, under
`map`. In the modules of the bridge, of FLEX and of the emulator every definition
but the names of a few sets of values has a row; in those of the compiler and of the interpreter the operators do, and a
small helper or a table whose lines the row of its user names for the most part has
none.

**SdProtocol, SdEngine.** `protocol.h`. The engine is a record with the fields
of the class. `receive()` may call storage and block there, so it is cut in two:
`Receive` is what happens up to the call, and an engine that waits in a call
still has the state it called from (`Sector` or `ChecksumLow`; `StorageCall`
names the call). `Answer` and `ReadReply` are what happens after it. All of
`receive`, `dispatch`, `finishPayload`, `response` and `acknowledgeResponse` is
there, with real byte values and 16-bit sums; only the sector size is a parameter.

**SdFirmware.** `link.h`, `avr_board.h`, `sd_bridge.ino`, `sd_storage.h`. The
interrupt (`PinChangeInterrupt`) is an action of its own and may run between any
two steps of the main program, which is cut where the host or the interrupt
could tell the difference:

| step of `main` | code | action |
|---|---|---|
| `reset` -> `mount` | `board::init()` | `BoardInit` |
| `mount` -> `poll` | `SdStorage::begin`, `Link::begin` | `Mount(outcome)` |
| `poll` | unexpected events: `recover()` | `PollRejectsEvents` |
| `poll` -> `receive` or `publish` | the consume branch | `PollConsumes` |
| `poll`, `receive` -> | the receive branch | `PollReceives`, `PollRejectsRequest` |
| `storage` -> `acknowledge` | the SD library call and what follows | `StorageReads`, `StorageWrites`, `StorageSyncs`, `StorageFails` |
| `acknowledge` -> `publish` | the CA1 pulse | `PollAcknowledges` |
| `publish` -> `poll` | `publish` | `PollPublishes`, `PollHasNothingToPublish` |
| `poll` | the timeout | `PollTimesOut` |

`events` is a set of pending edges with the mark `"overrun"`; taking it empties
it in one step, as the code does with interrupts off. `PollTimesOut` does not
ask that no event is pending, because `takeEvents()` comes before the test and an
edge may arrive in between: that one survives the recovery. `AvrReset` is possible
anywhere; it zeroes RAM and cuts a write in progress: the sector then holds a
prefix of the new data and a suffix of the old, for every length of the prefix.
The host of `SdFirmware` is arbitrary (`ArbitraryHost`), so the theorems about it
hold for any program on the 6800.

**SdRequests.** An arbitrary host limited to a few requests from a list (each of the
five commands, an unknown one, bad addresses and checksums), each sent whole, broken
off or not acknowledged, with replies taken or ignored. It covers SYNC, which the ROM
never sends. `heard` is a history variable: the bytes that the AVR has taken since its
link was last recovered or reset, or last waited for a request.

**SdHost.** `sdcard.s` and `sdcard.asm`. A call is a script of phases (`info`,
`infoReply`, `mount`, ... `writeStatus`), each a number of bytes put or got;
`hostPc` is the place in the handshake of one byte: before the strobe (`put`),
strobe low (`strobing`), in `SDWAIT` (`waitAck`, `waitReady`), consume low
(`consuming`). `SDINIT` is `configure` and `settle`. `result` is B as returned.

**SdVolume.** What FLEX may rely on. `Asks` begins a call, and a WRITE becomes
*unsettled*: all or its first bytes may land in its sector at any moment
(`Lands`), also after the call has failed and others have begun, since `SDTIMEOUT`
gives up on an AVR that goes on. `Succeeds` requires that the sector is what was
written or returns what it holds, and settles everything. `Fails`, `Fills`
(a READ's buffer) and `Restarts` change no sector.

**SdBridge.** Both sides over the same wires, time, the faults (a reset of either
side, a card error, a stalled host, a missed edge), and two history variables:
`unsettled` is the volume's, `undisturbed` counts calls begun since the last
fault. `ImplementsFirmware` and `ImplementsVolume` are its refinements; the
mapping of the second is `disk`, `op`, `result`, `sdBuffer` and `unsettled`.

**EmuSdPia, EmuBridge.** `sdBridgePia.cpp`. The same engine and wires, with the
emulator's link: `PiaReceives` and `PiaRejectsRequest` are `out(1)` with a rising
strobe, `PiaConsumes` is `out(3)`, `PiaSeesFall` a strobe that goes low. The
host's write to a control register and its effect are two steps (`strobes` moves,
then `seen` follows), but no step of the host comes between them: the emulator
runs one instruction at a time. `ArbitraryProgram` is any program on the 6800;
`EmuBridge` puts `SdHost` in its place, so that the same model of the ROM
transport runs against the AVR and against the emulator.

**FlexDrive, FlexFms.** `ramdisk.asm` over `SdVolume`, called by any program, with
resets that tear a copy to SRAM; and `RDSSEC` and `WRSSEC` over it: `DRVSEL`, the
transfer, up to `MaxTries` tries and `MaxRestores` restores (seven and four in
FLEX), the two kinds of error that RDSEC6 tells apart, and calls of other
programs between two operations. `chosen` is a history variable: the drive of the
last `DRVSEL` that returned Ok.

**BootLoader.** `boot.asm` byte by byte (`GETBYTE` with its sector fetch, then the
record reader) over a chain that either `Packed` (`binary_records`, `make_drive`
of `mkimage.py`) has made or that is arbitrary.

**EmuConsole.** One action for each outcome of a system call of `poll()`, for
each decision of `run()`, and for each thing a client may do in between. A byte is
its origin and its number, so that loss, repetition and reordering are visible.

**EmuMachine.** The memory map with its order, two windows with latches, `load`,
`save`, the rename, and the ends of a process: a clean exit, a failed write, a kill.

**Cpu6800Alu, Cpu6800, Cpu6800Programs.** Flags and results as the C++ computes
them, `&`, `|` and `^` by their bits; fetch, decode and every opcode; and programs
that only come out right when flags, carries, modes, the stack and branches agree.
A set of programs takes the operands it is for as a parameter (`WordTasks(words)`):
TLC runs them at the boundaries, the theorems are about all.

**I6\*.** Inform 6.44 as `flex2/Makefile` runs it (`inform6 -v3`): lexer and symbol
table, expression parser with its folding, code generation, statements, objects,
directives, veneer, and the story file, byte for byte. A compilation is one
record threaded through the operators as the globals are through the functions;
`CompileStep` is a directive or a routine. **Z68\*.** The interpreter: memory with
its sector cache, variables and stack, objects, the decoder and every version 3
instruction that `z68` implements, wrapping and input. While these modules were
written, the compiler's was compared byte for byte with story files that the
real compiler makes of sample programs and of all of `z68/tests/czech/czech.inf`,
and the interpreter's ran that story with the 349 passed tests that `z68/README.md`
states.

**StoryLanguage, StoryPrograms, Stories.** A small language with a meaning of its
own (`StoryLanguage` says what a program prints without compiling it), 43
programs in it, and the machine that compiles and runs them. The steps of the
compiler and of the interpreter reach `Stories` as constant operators whose
bodies in `MCStories` are LETs: TLC, when it counts coverage, would otherwise
unfold both programs in every action.

### 2.1 Abstractions, and what they assume

* *Time* (SdBridge). A tick is about a second. What a processor does without
  waiting takes microseconds, so `TimePasses` is enabled only when both wait, and
  an edge that is pending interrupts first, once interrupts are on. The order of
  the three timeouts is kept: the link expires at the second tick (2 s), SDSETTLE
  is three ticks (3.1 s), SDWAIT four (14.7 s; longer changes nothing but the
  number of states). A reset and mount of the AVR last at most `MountLimit` ticks,
  a storage call at most `CallLimit`; both are shorter than SDSETTLE except in
  `BridgeSlowMount`.
* *The strobe.* `SDPULSE` holds a line low for at least 10 us, long enough for
  the interrupt: `EdgeSeen` makes the host's rising edge wait for the interrupt to
  have seen the falling one. The fault `missedEdge` is where it has not.
* *Resets.* At a reset of the AVR its ports are inputs and CB1 reads low; at a
  reset of the 6800 the PIA's registers are cleared, both strobes are let go of
  and rise on the AVR's pull-ups, and FLEX is loaded again, so `SDHOSTINIT` is 0
  while `SDINITIALIZED` keeps what was in RAM. At the first configuration of the
  PIA either line may pulse (`HostConfigures(glitch)`), as the comment of
  `SDSETTLE` says.
* *A stall* holds the 6800 for any time between two instructions (HALT, a
  debugger): the AVR's timers run, the 6800's loops do not.
* *The emulator's PIA.* Of a control register only "strobe high" (bits 3-5 are 111)
  and "strobe low" (110) are told apart; the data-direction registers and a write
  of the 6800 to PB are left out. A failed read or write of the image file leaves
  any prefix transferred.
* *SRAM and files.* A copy between SRAM and a buffer is one step unless a reset
  tears it. `EmuMachine` saves on a file system that keeps what was written: a
  power failure of the host (there is no `fsync`) and two emulators with one
  image are left out.
* *The console's* failures of socket calls that throw and end the emulator are left
  out. *The AVR's* `board::init()` is one step: an edge in the microseconds between
  its look at the port and its clearing of the interrupt flag is left out.
* *The CPU's bus* is a set of memory cells; other addresses read $FF and ignore
  stores, as `Machine` does. Cycle counts and the throttle are left out.
* *The compiler* is given lexemes, in one spelling of letters' case; warnings,
  tracing, the debugging file and Glulx are left out. *The interpreter's* status
  line and terminal sequences are modelled but the programs do not exercise them.
* *External*: the 6821 PIA, U2 and U3, the Arduino SD library and the card, the
  socket calls, modelled from how the code uses them.
* *Left out*: LEDs; `SDNOROM`; a warm start of FLEX after a hardware reset, which
  would keep `SDHOSTINIT`; FLEX's file chains, directory and commands.

## 3. The runs

| run | question | instance |
|---|---|---|
| `AnyRequest` | What does the AVR do under any two requests, whole or broken off, and under resets and card errors? | `SdRequests`; 1 sector of 1 byte; 2 requests out of 8: all five commands, an unknown one, a bad checksum, a bad address; the link may time out at any tick |
| `BridgeCalls` | Until a fault, is every call exact and the handshake never out of step? With one, does every call return? | `MCSdBridge`; 4 sectors of 2 bytes; 4 calls offered, a bad address among them; 2 calls, 1 fault of 5 kinds; a card that mounts or does not; fair |
| `BridgeFaults` | With one fault of any kind at any point, does success mean what it says, and does the link recover? | `MCSdBridge`; 2 sectors of 2 bytes; 4 calls offered; 3 calls, 1 fault of 5 kinds |
| `BridgeSlowMount` | (violation) a mount that outlasts SDSETTLE | 1 WRITE; `MountLimit` 9 |
| `EmuCalls` | In the emulator, does every call do what it says, at once? | `MCEmuBridge`; 4 sectors of 2 bytes; 8 calls offered, 4 calls, 1 failure of the file |
| `EmuInterrupted` | (violation) a program that leaves a reply in the emulator unread | `EmuSdPia`; bytes 00, 5A, A5; 1 sector of 1 byte |
| `FlexSectors` | Do FLEX's sector operations return, with the right drive and the right sector? | `MCFlexFms`; SRAM volumes of 2 pages of 2 sectors, an SD volume of 3 sectors, so that sector 3 is the card's only, a drive that does not exist; 2 tries, 2 restores, 2 operations; other programs' calls; resets |
| `BootLoader` | Is what was packed loaded, and does a chain that ends stop? | every file of up to 5 bytes out of 0, 2 and 22; sectors of 3 bytes, records of 2; 625 chains that were not packed |
| `Console` | Does every byte arrive once and in order, whoever connects when? | `EmuConsole`; 2 clients, queues of 2 bytes, a socket of 1, a backlog of 1; 2 bytes typed and 3 written by each, so that the output queue fills and a send is split; fair |
| `SramImage` | Is a store local, and the image the old one or the new one? | `EmuMachine`; 2 pages of 2 bytes, 1 of RAM, 1 of ROM; binaries loaded anywhere |
| `CpuPrograms` | Do programs of several instructions compute what they should? | `Cpu6800Programs`; comparisons, words, decimal sums, shifts, calls, interrupts, a copy loop |
| `Stories` | Does a compiled story print what its source says? | `MCStories`; 43 programs with and without errors; lines of 24 columns; an arena of 256 bytes; a disk of which one read may fail |

*Why these bounds are enough.* Two requests are what the state of a broken-off one
needs to leak into the next. Three calls are one that a fault hits, one that may
fail because of it, and one that must succeed. Two sectors tell the right one
from the wrong one. The payloads 255, 254 (sum 509) and 1, 255 (sum 256) need both
checksum bytes and have a zero low byte; both bytes of a payload differ, so a
byte out of place is seen; sectors of 2 bytes have a first and a last byte, so a
torn write has a state of its own. One fault at a time: the properties about
faults are about recovery from one. Two tries and two restores reach every branch
of RDSEC6; sectors and records of the boot file do not divide each other, so that
every field of a record straddles a sector in some file. Two clients are what a
console needs to be taken over; queues of two can be empty, full and in between, and
three bytes written fill one. Two pages and two sectors of each SRAM volume tell a
sector from the one beside it in either direction.
The theorems of section 4 hold without these bounds.

*What they show.*

* `TypeOK`, `HeldByte`, `CommitIsVerified`: section 4. `StoresOnlyWholeFrames` compares
  the card with the wire: what a sector gets is the payload of a WRITE for it of which
  every byte, from the sync to the checksum, was taken one after the other, with no
  recovery, reset or other request in between. It fails if anything of a broken-off
  request outlives `recover()`.
* `CallsAreExact`: until a fault a call fails exactly when its address is bad or
  no image is mounted. `AckedMeansTaken`: no acknowledgement is credited to a byte
  the AVR has not taken. `NoRecoveryInTransfer`: once the transport has settled the
  AVR never drops the link, also when a last consume and a next request come in one
  batch of events.
* `ImplementsVolume` (twice): both bridges are SD volumes, the firmware's under
  every fault: success is true, torn and abandoned writes stay in their sector, and
  nothing of them lands behind a later success.
* `ImplementsFirmware`: every step of the bridge is a step of `SdFirmware`'s
  specification, so what is proved of the AVR alone holds in the bridge.
* `ResynchronisesByRetry`: the second call begun after a fault succeeds if the card
  is mounted. The first may not: it may meet a link that waits for the rest of a
  request, time out, and thereby make the next call settle.
* `FaultedStorageNeverSucceeds`: after an I/O error no call succeeds until the AVR
  is reset.
* `EmuCallsAreExact`, `EmuNeverTimesOut`, `FileChangesOnlyByWrite`: on the emulator
  a call fails exactly when its address is bad or the file has failed, a READ
  returns what the last successful WRITE stored, and the transport never counts in
  `SDWAIT`: nothing that runs in the emulator exercises a timeout or a retry.
* `SelectionIsChosen`, `TransfersGoToTheFcbsDrive`, `SectorsAreExact`,
  `SramChangesOnlyByWrite`: the selection is that of the last `DRVSEL` that
  succeeded, first tries and retries go to the FCB's drive, Ok means the sector was
  moved, and SRAM changes only in the sector that a WRITE names, on the FCB's drive or
  on the one another program chose, to the WRITE's data or a first part of them.
* `LoadsWhatWasPacked`: a packed file is loaded byte for byte, whatever its bytes.
* `InboundIsExact`, `OutboundIsExact`, `LiveClientIsKept`: every byte once and in
  order, but for the one byte that the ACIA held when the client changed; a client
  that stays keeps the console.
* `StoresAreLocal`, `ImageIsOldOrNew`, `SramSurvives`: a store changes its own cell,
  through both windows when they show one page; the image is whole, however the
  process ends; the SRAM and nothing else survives a clean exit.
* `BranchesDecideRelations`, `ProgramsCompute`, `InterruptsRestore`.
* `ProgramsRunAsWritten`, `LinesFit`, `StoryIsSound`, `RefusesWhatItMust`: what a
  program prints is what `StoryLanguage` says it means; lines fit the terminal; the
  story file's tables are in order and its objects a forest, also after every
  instruction; the compiler refuses the programs with errors and no others.
* Liveness: `CallReturns`, `LinkGoesIdle`, `SectorReturns`, `PackedFileBoots`,
  `BrokenChainStops`, `ServesItsClient`, `ProgramsEnd`.

*Fairness.* `BridgeFairness`: `WF(HostStep)`, `WF(AvrStep)`, each processor runs as
long as it has an instruction to execute, neither has an operating system that
could starve it; `WF(HostResumes)`, a stall ends; `WF(TimePasses)`, clocks run.
`FmsFairness`: the 6800 goes on, and a call of the SD transport returns, which is
what `CallReturns` shows of the bridge. `FairConsoleSpec`: the emulator's process is
scheduled, and a client that stays reads what has arrived. `BootSpec` and `CpuSpec`:
the processor runs. Calls, faults, clients and resets are not fair: they need not
happen. Deadlock is not checked where the system may rest: when calls and faults
are used up, when a program has ended.

### 3.1 The two disagreements

**A start-up strobe that outlives the mount** (`BridgeSlowMount`). `setup()`
enables the interrupt before it mounts the card, and `Link::begin()` recovers the
engine but leaves `board::events`. If a start-up strobe of the host sets the
receive event during a mount that outlasts `SDSETTLE`, the first poll takes that
event after the host has cleared its flags and sent its first byte. The
acknowledgement of the stray strobe is then taken for that of the first byte,
though `sdcard.s` says "do not overwrite U2 until its CA1 ACK has been latched".
With mounts shorter than `SDSETTLE` it cannot happen: that is the hypothesis
`CardIsPrompt` of section 4, which this run shows to be needed.

**A reply that is not announced** (`EmuInterrupted`). The firmware's `recover()`
clears `published_`; `SdBridgePia::out` only resets the engine when a byte
interrupts a response. `published_` stays set, and when the next request has been
answered `publish()` does nothing: CRB bit 7 is clear and PB holds the abandoned
byte. A program that follows `PROTOCOL.md` ("wait for the timeout, clear PIA flags,
and begin again with A5 5A") waits for a reply that is there. The ROM transport
always takes a whole reply in the emulator, so only other programs meet it.

*Seen and not claimed.* An AVR that is reset inside a payload parses its rest as
requests (`protocol.h:112`): a payload that contains a whole READ request with a
valid address makes a WRITE return the READ's status. `BridgeFaults` uses payloads
without sync bytes, and it is for those that `ImplementsVolume` is claimed under
resets. A client that is gone is not noticed while the console's input is full and
the program neither reads nor writes (`tcpConsole.cpp:79`): no property is claimed.
The emulator's cycle counter wraps at 32 bits and a binary loaded at the end of the
map wraps to its start: the first is left out, the second is modelled.

## 4. What is proved

Every theorem holds for all values of the constants that the named assumptions
allow (`GeometryAssumption`, `FirmwareAssumption`, `HostAssumption`,
`BridgeAssumption`, `VolumeAssumption`, ...), which TLC evaluates on each instance:
any geometry and sector size, timeouts, image, calls, clients, capacities.

| module | theorem | property | says |
|---|---|---|---|
| `SdBridgeProofs` | `TypeCorrect` | `TypeOK` | AVR, any host: buffers, reply and image are never indexed outside |
| | `HeldByteHolds` | `HeldByte` | while CB1 is high, U3 holds the reply byte that is due |
| | `CommitVerified` | `CommitIsVerified` | a write reaches storage only for a WRITE with a valid address, a mounted image and the sum of the very buffer |
| | `OnlyWholeFramesAreStored` | `StoresOnlyWholeFrames` | AVR, hosts of `SdRequests` with any requests: a sector gets only the payload, or a first part of it, of a WRITE heard whole and in one piece |
| | `BridgeIsAFirmware` | `ImplementsFirmware` | the bridge, under all faults, refines the AVR with an arbitrary host |
| | `BridgeTypeCorrect` | - | and the transport's own variables keep their types and its script |
| | `FaultFreeCallsAreExact` | `CallsAreExact` | (prompt card) until a fault, calls are exact |
| | `AcknowledgedBytesAreTaken` | `AckedMeansTaken` | (prompt card) until a fault, an acknowledgement is that of the byte sent |
| | `LinkIsNeverDropped` | `NoRecoveryInTransfer` | (prompt card) until a fault, the AVR never recovers a link that has settled |
| | `BridgeIsAVolume` | `ImplementsVolume` | (prompt card, which may fail) the bridge refines `SdVolume` |
| | `FaultedCardNeverSucceeds` | `FaultedStorageNeverSucceeds` | (prompt card, which may fail) after an I/O error no call succeeds |
| `EmuBridgeProofs` | `EmuTypeCorrect` | - | emulator, any program: the same bounds |
| | `OnlyWritesChangeTheFile`, `OnlyCallsChangeTheFile` | `FileChangesOnlyByWrite` | the file changes only by a verified WRITE: of any program, of FLEX's transport |
| | `EmulatedCallsAreExact` | `EmuCallsAreExact` | calls are exact, also when the file fails |
| | `EmulatedTransportNeverWaits` | `EmuNeverTimesOut` | `SDWAIT` never counts |
| | `EmulatorIsAVolume` | `ImplementsVolume` | the emulated bridge refines `SdVolume` |
| `FlexProofs` | `DriveTypeCorrect`, `SelectionCorrect`, `TransfersCorrect`, `SectorsCorrect`, `OnlyWritesChangeSram` | `SelectionIsChosen`, `TransfersGoToTheFcbsDrive`, `SectorsAreExact`, `SramChangesOnlyByWrite` | the driver and FLEX's sector operations over any SD volume |
| `BootLoaderProofs` | `PackedFileIsLoaded` | `LoadsWhatWasPacked` | every file that the image builder takes is loaded as it was |
| | `PackedFileNeverFails` | - | and BOOTERROR is not reached on the way |
| `EmuMachineProofs` | `MachineTypeCorrect`, `StoresCorrect`, `ImageCorrect`, `SramCorrect` | `StoresAreLocal`, `ImageIsOldOrNew`, `SramSurvives` | memory and image for regions of any size |
| `EmuConsoleProofs` | `ClientIsKept`, `InboundCorrect`, `OutboundCorrect`, `ConsoleNeverOverflows` | `LiveClientIsKept`, `InboundIsExact`, `OutboundIsExact` | the console for any clients and capacities |
| `Cpu6800Proofs` | `ComparesDecideBranches`, `WordsAdd` | - | after CMP every branch decides its relation; ADD and ADC add words |
| | `CpuTypeCorrect` | - | for every program and memory, registers, flags and cells keep their widths |
| | `CompareDecides` | `BranchesDecideRelations` | compare and branch, for any two bytes and every condition |
| | `RegistersRestored` | `InterruptsRestore` | SWI to RTI over three kinds of call, for any registers, with the stack anywhere but on the program |
| | `EveryProgramComputes` (from `WordsCompute`, `DecimalsCompute`, `ShiftsCompute`, `LogicComputes`, `LoopsCopyBytes`) | `ProgramsCompute` | the programs that compute, for every operand |

### 4.1 The engine and the AVR

None of the firmware's properties is inductive. The invariant is

    IInv == TypeOK /\ EngineInv(eng) /\ PublishedInv /\ MainInv

`EngineInv` says what the engine's fields mean in each of its states: in `Payload`
and after it, `checksum` is the sum of the first `received` bytes of `buffer` and
the command is WRITE; in `Response`, `outAt` is below `outSize`, the size of the
reply that is there. `PublishedInv` ties `published_` to CB1 and U3 to the reply.
`MainInv` says that outside `poll` nothing is published, and that in `storage` the
engine waits in a legal call. For `StoresOnlyWholeFrames` `HeardInv` is added: in every
state of the engine its fields are a request that stands at the end of `heard`
(`HeardUpTo`: the header, then as much of the payload as `received` says, then the high
byte of the checksum), and in a call of `storage.write` all of a WRITE stands there.
Every byte taken carries it over (`ReceivedIsHeard`), and a recovery empties both. `SdProofs` has a lemma for each operation of the
engine, and those about `partialSum`, a recursive function, which are proved by the
smallest number at which they would fail: the library's induction theorems cannot
be used with the installed provers.

### 4.2 The transport, and the two bridges

`HostInv` (`SdProofs`) says where a call is in its script and what `SDSUM` is the
sum of. There also are the two sides of the dialogue: `Expects(op, p, i, e, st)`, that
engine `e` waits for byte `i` of phase `p` with what the call has sent so far, and
`Answers(...)`, that it holds the reply of which byte `i` is due, with the sector's
contents behind it; and the lemmas that a byte put or got, in step, leads to the
next (`RequestByteTaken`, `ReplyByteUsed`).

*Emulator.* `BridgeInv` joins `HostInv`, the engine's invariant, `LinkInv` (which
flags and strobes go with which step of the handshake), `DialogueInv` (`Expects` or
`Answers` at the byte that is due) and `VolumeInv` (what successful WRITEs stored is
on the file). Each step of the bridge keeps it, and each is a step of `SdVolume`.

*Firmware.* Every step of the bridge is one of the arbitrary host's or of the AVR's
(`BridgeIsAFirmware`), which gives `IInv` and `HostInv` in every fault. Until a fault
more is true, which is `InStepInv`:

* until SDENSURE has settled for the first time, `StartInv`: a start-up strobe may be
  anywhere between a line and the engine, but its byte is 255, no sync byte, and it
  is gone when the mount ends: `timer <= blocked` while the AVR is in reset or
  mounts, so SDSETTLE, which is longer than a mount, outlasts it;
* from then on `RunInv`: `LinkInv` says that no edge is lost and each is acted on
  once (an edge is *outstanding* in `events` or between `strobes` and
  `previousControl`, and which may be outstanding goes with the host's step);
  `DialogueInv` that the engine, when it has acted on an outstanding consume,
  expects or answers the byte that is due; `TimeInv` that nobody waits longer than
  a mount or a storage call, so that neither SDWAIT nor the link timeout ends.

The hypothesis is `CardIsPrompt`: `MountLimit < SettleLimit`, `MountLimit < WaitLimit`
and `CallLimit < WaitLimit`, a card that mounts within the 3.1 s of SDSETTLE and
answers within the 14.7 s of SDWAIT. The instances of `BridgeCalls` and
`BridgeFaults` satisfy it (2, 3 and 4); `BridgeSlowMount` does not, and violates
`AckedMeansTaken`. A storage error keeps the two sides in step, so `InStepInv` holds for
ever when that is the only fault that happens (`CardFaultsOnly`). Then `WritesInv`, that
the WRITE under way is unsettled and has been made when its status is on the
way, gives the refinement of `SdVolume` step by step: `Call` asks, a storage step or
failure lands, `HostConsumes` fills, succeeds or fails, all else stutters.

### 4.3 FLEX, boot, memory, console, CPU

`FlexInv` adds to the properties what a driver waiting for the SD transport has asked
it for (`DriverWaits`), what RDSSEC waits for (`FmsWaits`), and that a sector answered
Ok is stored, with nothing unsettled that could disturb it (`SectorIsMoved`).
*Boot.* `FilesFit` is the hypothesis on the files: `mkimage.py` asserts that a drive is
not filled, and the file ends below the top of the memory. (That it does not lie on the
boot sector at $0100 is not in it: `FLEX2.SYS` lies from $A100 up, and the model keeps
the code apart from the memory that is loaded.) `BootInv` says that
after p bytes the reader is at p of the stream that `Records` made, in the sector and
at the place where `Packed` put it (`SectorAt`), and in which record and how far
(`ReaderAt`): so no byte is ever taken for a type, an address or a count that was not
packed as one. `StreamFacts` and `PackedFacts` say where each byte of a file is, first in
the stream and then on the volume; `FlattenSeq`, the concatenation of the records, is a
recursive function, so that its value is built and proved unique record by record, by the
smallest number again.

`MachineInv` adds that the image being saved is the SRAM at the end of the run.
`ConsoleInv` numbers the queues: `Passed(c)` is the last byte of client `c` that
`recv()` returned and is not in `input`, and the queues hold consecutive numbers
behind it; nothing of a client that has not been accepted is past the wire
(`UntakenInv`); where `run()` moves a byte there is room for it (`LoopInv`), hence
`ConsoleNeverOverflows`: `write()`'s exception is never thrown.

*CPU.* `CpuTypeOK` is inductive, by a lemma for each kind of instruction, and needs
nothing of a program but that its registers and bytes are some (`TasksAssumption`).
The rest is about programs. `Fetched`, `OneInstruction` and a lemma for each kind of
instruction (`DirectStep`, `IndexedStep`, `StoreByteStep`, `PullStep`, ...) say what an
instruction at an address below 120 does, and lemmas on the operators what its flags
are. A program then has an invariant of two parts: its code is where it was
(`WordBytes`, `ShiftBytes`, ...), and what holds at the instruction PC is at
(`WordPoint`, `ShiftPoint`, ...), as one would annotate it: after ADDA,
`256 * C + A = l + r`. At the halt loop it implies the property. The hypotheses are
that cells 0 to 127 exist (`ProgramCellsExist`) and that the tasks with the program's
name are the program with any operands (`AddsWords`, `DoesLogic`, ...; decimal digits
for the decimal program). Other tasks may be anything. For the call program the
stack may be anywhere, also wrapped around the end of memory, if the eleven cells
it uses exist and do not meet the program, and the seven of SWI do not meet the
vector at $FFFA (`SavesRegisters`): an SWI that overwrites its own vector goes
elsewhere. `CpuPrograms` has tasks of each kind, with stacks at $0F and wrapped at $03.
The theorems are about what the programs have computed when they have ended; that
they end is `ProgramsEnd`, which TLC checks.

### 4.4 What stays with TLC

* Liveness and fairness: the prover has neither, nor ENABLED.
* `ResynchronisesByRetry`, and `ImplementsVolume` and `FaultedStorageNeverSucceeds` under
  resets, stalls and missed edges: out of step, what is left of a call on either
  side has no short description, and payloads that contain requests are a
  counterexample that an instance can leave out and a theorem cannot.
* `ProgramsEnd`, which is liveness.
* The compiler and the interpreter, which use RECURSIVE operators and `Bitwise`.

## 5. Not modelled, and the plan

Not modelled: ROM and tracing of the emulator (no state of their own), the
historical ROMs (third-party, sequential), the Python tools but for the packing
(batch), boards and programmable logic (no program), FLEX's file chains and
commands (historical third-party code).

What would come next: the volume's refinement under an AVR reset, for payloads
without sync bytes; the console's local keyboard mode; a warm start that keeps
`SDHOSTINIT`.

## 6. Running

    tlc -config AnyRequest.cfg SdRequests
    tlc -config BridgeCalls.cfg MCSdBridge          (also BridgeFaults, BridgeSlowMount)
    tlc -config EmuCalls.cfg MCEmuBridge
    tlc -config EmuInterrupted.cfg EmuSdPia
    tlc -config FlexSectors.cfg MCFlexFms
    tlc -config BootLoader.cfg BootLoader
    tlc -config Console.cfg EmuConsole
    tlc -config SramImage.cfg EmuMachine
    tlc -config CpuPrograms.cfg Cpu6800Programs
    tlc -config Stories.cfg MCStories
    tlapm SdBridgeProofs.tla                        (and each other *Proofs.tla)

`PROJECT.json` lists components, runs, hazards, findings and theorems, for every
definition the source lines it models, and for every checked property a
mutation of a definition that breaks it.
