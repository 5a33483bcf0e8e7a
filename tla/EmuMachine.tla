----------------------------- MODULE EmuMachine -----------------------------
(***************************************************************************)
(* The emulator's memory (machine.cpp, bankedMemory.cpp, latch.cpp,        *)
(* memoryIO.h, ram.cpp, rom.cpp) and the life of its process (emu.cpp,     *)
(* main): the SRAM image is read, binaries are loaded through the memory   *)
(* map, the CPU runs, and the SRAM is saved when the run ends, unless the  *)
(* process is killed or a write fails.                                     *)
(*                                                                         *)
(* The map keeps its order and its regions; their sizes are constants.     *)
(***************************************************************************)
EXTENDS Integers, Sequences

CONSTANTS RamSize,   \* 48 KiB
          PageSize,  \* 4 KiB, the size of a window
          Pages,     \* 256
          IoSize,    \* 256: the latches are its bytes 2 and 3
          RomSize,   \* E100 to FFFF
          Data,      \* the values of a byte
          Binaries   \* --load: records of an address and bytes

ASSUME MachineAssumption ==
  /\ {RamSize, PageSize, Pages, RomSize} \subseteq Nat \ {0}
  /\ IoSize \in Nat /\ IoSize > 3
  /\ 0 \in Data /\ Data \subseteq 0 .. 255
  /\ Pages <= 256

RomStart == RamSize + 2 * PageSize + IoSize
IoStart == RamSize + 2 * PageSize
AddressSpace == RomStart + RomSize
Addresses == 0 .. AddressSpace - 1
Window(addr) == (addr - RamSize) \div PageSize

InRam(addr) == addr < RamSize
InWindow(addr) == addr \in RamSize .. IoStart - 1
InRom(addr) == addr >= RomStart
IsLatch(addr, window) == addr = IoStart + 2 + window

Srams == [0 .. Pages * PageSize - 1 -> Data]
Memories == [ram : [0 .. RamSize - 1 -> Data], rom : [0 .. RomSize - 1 -> Data],
             latch : [{0, 1} -> Data], sram : Srams]

\* An image that is missing, or has another size, or is a whole SRAM.
Missing == <<"missing">>
BadSize == <<"bad size">>

ASSUME BinariesAssumption ==
  Binaries \subseteq [address : Addresses, bytes : Seq(Data)]

VARIABLES mem,      \* the machine
          process,  \* where main() is
          image,    \* the file of --sram-image
          written,  \* what <image>.tmp holds of the SRAM so far
          result,   \* how the last process ended
          found,    \* history: the image as the process found it
          left      \* history: the SRAM as run() returned, clear until then

machineVars == <<mem, process, image, written, result, found, left>>

ClearSram == [i \in 0 .. Pages * PageSize - 1 |-> 0]

\* Mutant: a page is taken for a window of the whole store.
PhysicalOfOneWindow(m, addr) ==
  (m.latch[0] * PageSize) + ((addr - RamSize) % PageSize)

\* BankedMemory::memoryAddress()
Physical(m, addr) ==
  (m.latch[Window(addr)] * PageSize) + ((addr - RamSize) % PageSize)

\* Machine::read8(); the other devices of the I/O page are modelled elsewhere.
Read8(m, addr) ==
  CASE InRam(addr)    -> m.ram[addr]
    [] InRom(addr)    -> m.rom[addr - RomStart]
    [] InWindow(addr) -> m.sram[Physical(m, addr)]
    [] OTHER          -> 255

\* Machine::write8(): the ROM is written while loading, the I/O page while not.
Write8(m, addr, value, loading) ==
  CASE InRam(addr)    -> [m EXCEPT !.ram[addr] = value]
    [] InRom(addr)    -> IF loading THEN [m EXCEPT !.rom[addr - RomStart] = value] ELSE m
    [] InWindow(addr) -> [m EXCEPT !.sram[Physical(m, addr)] = value]
    [] \E w \in {0, 1} : IsLatch(addr, w) /\ ~loading ->
         [m EXCEPT !.latch[addr - IoStart - 2] = value]
    [] OTHER -> m

\* load_binary(): the address is a uint16_t and wraps at the end of the map.
LoadBinary(m, binary) ==
  LET loaded[n \in 0 .. Len(binary.bytes)] ==
        IF n = 0 THEN m
        ELSE Write8(loaded[n - 1], (binary.address + n - 1) % AddressSpace,
                    binary.bytes[n], TRUE)
  IN  loaded[Len(binary.bytes)]

MachineTypeOK ==
  /\ mem \in Memories
  /\ \A w \in {0, 1} : mem.latch[w] \in 0 .. Pages - 1
  /\ process \in {"off", "loading", "running", "saving"}
  /\ image \in Srams \cup {Missing, BadSize} /\ found \in Srams \cup {Missing, BadSize}
  /\ written \in 0 .. Pages * PageSize
  /\ result \in {"none", "ok", "error", "killed"}
  /\ left \in Srams

PowerOn(sram) == [ram |-> [i \in 0 .. RamSize - 1 |-> 0],
                  rom |-> [i \in 0 .. RomSize - 1 |-> 0],
                  latch |-> [w \in {0, 1} |-> 0], sram |-> sram]

MachineInit ==
  /\ mem = PowerOn(ClearSram)
  /\ process = "off" /\ result = "none"
  /\ image \in {Missing, BadSize, ClearSram} /\ found = image
  /\ written = 0 /\ left = ClearSram

\* Mutant: the image is only written, never read.
StartsCleared ==
  /\ process = "off"
  /\ image # BadSize
  /\ mem' = PowerOn(ClearSram)
  /\ process' = "loading"
  /\ found' = image /\ left' = ClearSram
  /\ UNCHANGED <<image, written, result>>

\* main() up to the image: a missing one starts with cleared SRAM.
Starts ==
  /\ process = "off"
  /\ image # BadSize
  /\ mem' = PowerOn(IF image = Missing THEN ClearSram ELSE image)
  /\ process' = "loading"
  /\ found' = image /\ left' = ClearSram
  /\ UNCHANGED <<image, written, result>>

RefusesImage ==
  /\ process = "off"
  /\ image = BadSize
  /\ result' = "error"
  /\ found' = image
  /\ UNCHANGED <<mem, process, image, written, left>>

LoadsBinary ==
  /\ process = "loading"
  /\ \E b \in Binaries : mem' = LoadBinary(mem, b)
  /\ UNCHANGED <<process, image, written, result, found, left>>

StartsCpu ==
  /\ process = "loading"
  /\ process' = "running"
  /\ UNCHANGED <<mem, image, written, result, found, left>>

\* A store of the program; the latches are written with pages that exist.
CpuWrites ==
  /\ process = "running"
  /\ \E addr \in Addresses, value \in Data :
       /\ addr \in {IoStart + 2, IoStart + 3} => value < Pages
       /\ mem' = Write8(mem, addr, value, FALSE)
  /\ UNCHANGED <<process, image, written, result, found, left>>

\* run() returned or threw: saveImage() truncates <image>.tmp.
RunEnds ==
  /\ process = "running"
  /\ process' = "saving"
  /\ left' = mem.sram
  /\ written' = 0
  /\ UNCHANGED <<mem, image, result, found>>

SavesBytes ==
  /\ process = "saving"
  /\ written < Pages * PageSize
  /\ \E n \in written + 1 .. Pages * PageSize : written' = n
  /\ UNCHANGED <<mem, process, image, result, found, left>>

\* Opening, writing or closing <image>.tmp, or the rename, failed.
SaveFails ==
  /\ process = "saving"
  /\ process' = "off" /\ result' = "error"
  /\ UNCHANGED <<mem, image, written, found, left>>

\* Mutant: the file is renamed before it was closed successfully.
RenamesEarly ==
  /\ process = "saving"
  /\ image' = IF written = Pages * PageSize THEN mem.sram ELSE BadSize
  /\ process' = "off" /\ result' = "ok"
  /\ UNCHANGED <<mem, written, found, left>>

Renames ==
  /\ process = "saving"
  /\ written = Pages * PageSize
  /\ image' = mem.sram
  /\ process' = "off" /\ result' = "ok"
  /\ UNCHANGED <<mem, written, found, left>>

Killed ==
  /\ process # "off"
  /\ process' = "off" /\ result' = "killed"
  /\ UNCHANGED <<mem, image, written, found, left>>

MachineNext == \/ Starts \/ RefusesImage \/ LoadsBinary \/ StartsCpu \/ CpuWrites
               \/ RunEnds \/ SavesBytes \/ SaveFails \/ Renames \/ Killed

MachineSpec == MachineInit /\ [][MachineNext]_machineVars

-----------------------------------------------------------------------------
\* README.md: "The physical image offset is page * 4096 + window_offset."
ImageOffset(m, addr) ==
  IF addr < RamSize + PageSize
    THEN m.latch[0] * PageSize + (addr - RamSize)
    ELSE m.latch[1] * PageSize + (addr - RamSize - PageSize)

SameCell(m, a, b) ==
  a = b \/ (InWindow(a) /\ InWindow(b) /\ ImageOffset(m, a) = ImageOffset(m, b))

\* In every memory a program can reach, a store changes what the CPU reads at
\* the addresses of that cell, in both windows when they show the same page,
\* and nowhere else; the ROM and the I/O page keep theirs.
StoresAreLocal ==
  \A a \in Addresses, value \in Data : \A b \in Addresses :
    LET m == Write8(mem, a, value, FALSE) IN
      (InRam(a) \/ InWindow(a) \/ InRom(a)) =>
        Read8(m, b) = IF SameCell(mem, a, b) /\ ~InRom(a) THEN value ELSE Read8(mem, b)

\* The image is the one the process found until the SRAM has been saved
\* whole, whatever fails or is killed when, and it is the SRAM of the end of
\* the run when the exit is clean.
ImageIsOldOrNew ==
  image = IF process = "off" /\ result = "ok" THEN left ELSE found

\* Over a clean exit and a new start the SRAM survives, and only the SRAM:
\* latches and RAM are cleared.
SramSurvives ==
  [][process = "off" /\ process' = "loading" /\ result = "ok"
       => mem' = PowerOn(left)]_machineVars

-----------------------------------------------------------------------------
(* An instance for TLC: a ROM that is one byte too long for the map, and a *)
(* byte for a window.                                                      *)
SmallBinaries == {[address |-> RomStart, bytes |-> <<1, 1>>],
                  [address |-> RamSize + PageSize, bytes |-> <<1>>]}
=============================================================================
