-------------------------- MODULE EmuMachineProofs --------------------------
(***************************************************************************)
(* Theorems about the emulator's memory and its image file, for every size *)
(* of the regions, of a page and of the store, and for any binaries: a     *)
(* store changes what it should, the image is the old one or the new one,  *)
(* and SRAM survives a clean exit.                                         *)
(***************************************************************************)
EXTENDS EmuMachine, WellFoundedInduction, TLAPS

-----------------------------------------------------------------------------
(* Addresses.                                                              *)

\* The sizes are positive numbers, and the map is made of them.
LEMMA Sizes ==
  /\ RamSize \in Nat /\ PageSize \in Nat /\ Pages \in Nat /\ RomSize \in Nat /\ IoSize \in Nat
  /\ RamSize > 0 /\ PageSize > 0 /\ Pages > 0 /\ RomSize > 0 /\ IoSize > 3
  /\ IoStart = RamSize + PageSize + PageSize
  /\ RomStart = IoStart + IoSize
  /\ AddressSpace = RomStart + RomSize
  /\ IoStart \in Nat /\ RomStart \in Nat /\ AddressSpace \in Nat /\ AddressSpace > 0
PROOF
  <1>1. /\ RamSize \in Nat /\ PageSize \in Nat /\ Pages \in Nat /\ RomSize \in Nat
        /\ IoSize \in Nat
        /\ RamSize > 0 /\ PageSize > 0 /\ Pages > 0 /\ RomSize > 0 /\ IoSize > 3
    BY MachineAssumption
  <1>2. IoStart = RamSize + PageSize + PageSize /\ RomStart = IoStart + IoSize
    BY <1>1 DEF IoStart, RomStart
  <1>. QED
    BY <1>1, <1>2 DEF AddressSpace

\* Every address is in one region; a store to the I/O page may be to a latch.
LEMMA Regions ==
  ASSUME NEW addr \in Addresses
  PROVE  /\ addr \in Nat
         /\ InRam(addr) => /\ ~InWindow(addr) /\ ~InRom(addr) /\ addr \in 0 .. RamSize - 1
                           /\ addr \notin {IoStart + 2, IoStart + 3}
         /\ InWindow(addr) => /\ ~InRom(addr)
                              /\ addr \notin {IoStart + 2, IoStart + 3}
         /\ InRom(addr) => /\ addr - RomStart \in 0 .. RomSize - 1
                           /\ addr \notin {IoStart + 2, IoStart + 3}
PROOF
  BY Sizes DEF Addresses, InRam, InWindow, InRom

\* What % and \div are in the two windows.
LEMMA DivModOfPage ==
  ASSUME NEW p \in Nat, p > 0, NEW a \in Nat
  PROVE  /\ a < p => a \div p = 0 /\ a % p = a
         /\ p <= a /\ a < p + p => a \div p = 1 /\ a % p = a - p
PROOF
  OBVIOUS

\* The page and the byte that a window address is for.
LEMMA WindowOfAddress ==
  ASSUME NEW addr \in Addresses, InWindow(addr)
  PROVE  /\ Window(addr) = (IF addr < RamSize + PageSize THEN 0 ELSE 1)
         /\ (addr - RamSize) % PageSize
              = (IF addr < RamSize + PageSize THEN addr - RamSize
                                              ELSE addr - RamSize - PageSize)
         /\ (addr - RamSize) % PageSize \in 0 .. PageSize - 1
PROOF
  <1>. DEFINE a == addr - RamSize
  <1>1. addr \in Nat /\ a \in Nat /\ a < PageSize + PageSize
    BY Sizes DEF Addresses, InWindow
  <1>2. addr < RamSize + PageSize <=> a < PageSize
    BY <1>1, Sizes
  <1>3. PageSize \in Nat /\ PageSize > 0
    BY Sizes
  <1>. HIDE DEF a
  <1>4. /\ a < PageSize => a \div PageSize = 0 /\ a % PageSize = a
        /\ ~(a < PageSize) => a \div PageSize = 1 /\ a % PageSize = a - PageSize
    <2>1. PageSize <= a <=> ~(a < PageSize)
      BY <1>1, <1>3
    <2>. QED
      BY <1>1, <1>3, <2>1, DivModOfPage
  <1>. QED
    BY <1>1, <1>2, <1>3, <1>4 DEF a, Window

\* A byte of an existing page is a byte of the store.
LEMMA ByteOfPage ==
  ASSUME NEW page \in 0 .. Pages - 1, NEW byte \in 0 .. PageSize - 1
  PROVE  /\ page * PageSize + byte \in 0 .. Pages * PageSize - 1
         /\ page * PageSize \in Nat
PROOF
  <1>1. page \in Nat /\ byte \in Nat /\ Pages \in Nat /\ PageSize \in Nat
    BY Sizes
  <1>2. page + 1 <= Pages /\ byte + 1 <= PageSize
    BY Sizes
  <1>3. (page + 1) * PageSize <= Pages * PageSize
    BY <1>1, <1>2
  <1>4. (page + 1) * PageSize = page * PageSize + PageSize
    BY <1>1
  <1>5. page * PageSize \in Nat /\ Pages * PageSize \in Nat
    BY <1>1
  <1>. DEFINE a == page * PageSize
              b == Pages * PageSize
  <1>6. a \in Nat /\ b \in Nat /\ a + PageSize <= b
    BY <1>3, <1>4, <1>5
  <1>. HIDE DEF a, b
  <1>7. a + byte \in 0 .. b - 1
    BY <1>1, <1>2, <1>6
  <1>. QED
    BY <1>5, <1>7 DEF a, b

\* A memory whose latches hold pages that exist.
Sound(m) == m \in Memories /\ \A w \in {0, 1} : m.latch[w] \in 0 .. Pages - 1

\* BankedMemory::memoryAddress() is the offset that the README gives, and lies
\* in the store.
LEMMA PhysicalIsImageOffset ==
  ASSUME NEW m, Sound(m), NEW addr \in Addresses, InWindow(addr)
  PROVE  /\ Physical(m, addr) = ImageOffset(m, addr)
         /\ Physical(m, addr) \in 0 .. Pages * PageSize - 1
PROOF
  <1>1. Window(addr) \in {0, 1}
    BY WindowOfAddress
  <1>2. m.latch[Window(addr)] \in 0 .. Pages - 1
    BY <1>1 DEF Sound
  <1>3. (addr - RamSize) % PageSize \in 0 .. PageSize - 1
    BY WindowOfAddress
  <1>4. Physical(m, addr) \in 0 .. Pages * PageSize - 1
    BY <1>2, <1>3, ByteOfPage DEF Physical
  <1>5. CASE addr < RamSize + PageSize
    <2>1. Window(addr) = 0 /\ (addr - RamSize) % PageSize = addr - RamSize
      BY <1>5, WindowOfAddress
    <2>. QED
      BY <1>4, <1>5, <2>1, Zenon DEF Physical, ImageOffset
  <1>6. CASE ~(addr < RamSize + PageSize)
    <2>1. Window(addr) = 1 /\ (addr - RamSize) % PageSize = addr - RamSize - PageSize
      BY <1>6, WindowOfAddress
    <2>. QED
      BY <1>4, <1>6, <2>1, Zenon DEF Physical, ImageOffset
  <1>. QED
    BY <1>4, <1>5, <1>6

-----------------------------------------------------------------------------
(* Stores and loads.                                                       *)

\* Only an address of the I/O page is a latch's.
LEMMA LatchAddresses ==
  ASSUME NEW addr \in Addresses, NEW w \in {0, 1}, IsLatch(addr, w)
  PROVE  /\ addr \in {IoStart + 2, IoStart + 3}
         /\ ~InRam(addr) /\ ~InRom(addr) /\ ~InWindow(addr)
PROOF
  <1>1. addr \in {IoStart + 2, IoStart + 3}
    BY Sizes, Regions DEF IsLatch
  <1>. QED
    BY <1>1, Regions

\* What write8() does to RAM,
LEMMA RamStore ==
  ASSUME NEW m, NEW addr \in Addresses, NEW value, NEW loading \in BOOLEAN, InRam(addr)
  PROVE  Write8(m, addr, value, loading) = [m EXCEPT !.ram[addr] = value]
PROOF
  <1>1. ~InRom(addr) /\ ~InWindow(addr) /\ ~ \E w \in {0, 1} : IsLatch(addr, w) /\ ~loading
    BY Regions, LatchAddresses
  <1>. QED
    BY <1>1 DEF Write8

\* to the ROM,
LEMMA RomStore ==
  ASSUME NEW m, NEW addr \in Addresses, NEW value, NEW loading \in BOOLEAN, InRom(addr)
  PROVE  Write8(m, addr, value, loading)
           = IF loading THEN [m EXCEPT !.rom[addr - RomStart] = value] ELSE m
PROOF
  <1>1. ~InRam(addr) /\ ~InWindow(addr) /\ ~ \E w \in {0, 1} : IsLatch(addr, w) /\ ~loading
    BY Regions, LatchAddresses
  <1>. QED
    BY <1>1 DEF Write8

\* to a window,
LEMMA WindowStore ==
  ASSUME NEW m, NEW addr \in Addresses, NEW value, NEW loading \in BOOLEAN, InWindow(addr)
  PROVE  Write8(m, addr, value, loading) = [m EXCEPT !.sram[Physical(m, addr)] = value]
PROOF
  <1>1. ~InRam(addr) /\ ~InRom(addr) /\ ~ \E w \in {0, 1} : IsLatch(addr, w) /\ ~loading
    BY Regions, LatchAddresses
  <1>. QED
    BY <1>1 DEF Write8

\* and to the I/O page.
LEMMA IoStore ==
  ASSUME NEW m, NEW addr \in Addresses, NEW value, NEW loading \in BOOLEAN,
         ~InRam(addr), ~InRom(addr), ~InWindow(addr)
  PROVE  \/ Write8(m, addr, value, loading) = m
         \/ /\ ~loading /\ addr \in {IoStart + 2, IoStart + 3}
            /\ Write8(m, addr, value, loading)
                 = [m EXCEPT !.latch[addr - IoStart - 2] = value]
PROOF
  <1>1. (\E w \in {0, 1} : IsLatch(addr, w) /\ ~loading) =>
          ~loading /\ addr \in {IoStart + 2, IoStart + 3}
    BY LatchAddresses
  <1>. QED
    BY <1>1 DEF Write8

\* A store keeps the types, when a latch is given a page that exists.
LEMMA Write8KeepsMemory ==
  ASSUME NEW m, Sound(m), NEW addr \in Addresses, NEW value \in Data,
         NEW loading \in BOOLEAN,
         ~loading /\ addr \in {IoStart + 2, IoStart + 3} => value < Pages
  PROVE  Sound(Write8(m, addr, value, loading))
PROOF
  <1>. DEFINE n == Write8(m, addr, value, loading)
  <1>1. CASE InRam(addr)
    <2>1. n = [m EXCEPT !.ram[addr] = value]
      BY <1>1, RamStore
    <2>2. addr \in 0 .. RamSize - 1
      BY <1>1, Regions
    <2>. HIDE DEF n
    <2>3. Sound(n)
      BY <2>1, <2>2 DEF Sound, Memories
    <2>. QED
      BY <2>3 DEF n
  <1>2. CASE InRom(addr)
    <2>1. addr - RomStart \in 0 .. RomSize - 1
      BY <1>2, Regions
    <2>2. n = IF loading THEN [m EXCEPT !.rom[addr - RomStart] = value] ELSE m
      BY <1>2, RomStore
    <2>. HIDE DEF n
    <2>3. Sound(n)
      BY <2>1, <2>2 DEF Sound, Memories
    <2>. QED
      BY <2>3 DEF n
  <1>3. CASE InWindow(addr)
    <2>1. n = [m EXCEPT !.sram[Physical(m, addr)] = value]
      BY <1>3, WindowStore
    <2>2. Physical(m, addr) \in 0 .. Pages * PageSize - 1
      BY <1>3, PhysicalIsImageOffset
    <2>. QED
      BY <2>1, <2>2 DEF Sound, Memories, Srams
  <1>4. CASE ~InRam(addr) /\ ~InRom(addr) /\ ~InWindow(addr)
    <2>1. CASE n = m
      BY <2>1
    <2>2. CASE /\ ~loading /\ addr \in {IoStart + 2, IoStart + 3}
               /\ n = [m EXCEPT !.latch[addr - IoStart - 2] = value]
      <3>1. addr - IoStart - 2 \in {0, 1}
        BY <2>2, Sizes
      <3>2. value \in 0 .. Pages - 1
        BY <2>2, Sizes, MachineAssumption
      <3>. QED
        BY <2>2, <3>1, <3>2 DEF Sound, Memories
    <2>. QED
      BY <1>4, <2>1, <2>2, IoStore
  <1>. QED
    BY <1>1, <1>2, <1>3, <1>4

\* Every nonempty set of naturals has a smallest element.
LEMMA SmallestOf ==
  ASSUME NEW T, T \subseteq Nat, T # {}
  PROVE  \E n \in T : \A m \in T : n <= m
PROOF
  <1>1. PICK n \in T : \A m \in T : <<m, n>> \notin OpToRel(<, Nat)
    BY NatLessThanWellFounded, WFMin
  <1>2. OpToRel(<, Nat) = {pair \in Nat \X Nat : pair[1] < pair[2]}
    BY DEF OpToRel
  <1>3. ASSUME NEW m \in T PROVE n <= m
    <2>1. n \in Nat /\ m \in Nat
      OBVIOUS
    <2>2. ~(m < n)
      BY <1>1, <1>2, <2>1
    <2>. QED
      BY <2>1, <2>2
  <1>. QED
    BY <1>3

\* One byte of load_binary().
LoadsByte(m, b, i) ==
  Write8(m, (b.address + i - 1) % AddressSpace, b.bytes[i], TRUE)

SoundMemories == {m \in Memories : \A w \in {0, 1} : m.latch[w] \in 0 .. Pages - 1}

\* A byte that is loaded keeps the types.
LEMMA LoadsByteKeepsMemory ==
  ASSUME NEW b \in Binaries, NEW i \in 1 .. Len(b.bytes), NEW m \in SoundMemories
  PROVE  LoadsByte(m, b, i) \in SoundMemories
PROOF
  <1>1. b.address \in Addresses /\ b.bytes \in Seq(Data)
    BY BinariesAssumption
  <1>2. b.bytes[i] \in Data
    BY <1>1
  <1>3. b.address + i - 1 \in Int
    BY <1>1, Sizes DEF Addresses
  <1>4. (b.address + i - 1) % AddressSpace \in Addresses
    <2>. DEFINE a == b.address + i - 1
                n == AddressSpace
    <2>1. a \in Int /\ n \in Nat /\ n > 0
      BY <1>3, Sizes
    <2>. HIDE DEF a, n
    <2>2. a % n \in 0 .. n - 1
      BY <2>1
    <2>. QED
      BY <2>2 DEF a, n, Addresses
  <1>5. Sound(m)
    BY DEF Sound, SoundMemories
  <1>6. Sound(LoadsByte(m, b, i))
    BY <1>2, <1>4, <1>5, Write8KeepsMemory DEF LoadsByte
  <1>. QED
    BY <1>6 DEF Sound, SoundMemories

\* The first equations of load_binary(), as a predicate on a function.
LoadsUpTo(f, m, b, n) ==
  /\ f \in [0 .. n -> SoundMemories]
  /\ f[0] = m
  /\ \A i \in 1 .. n : f[i] = LoadsByte(f[i - 1], b, i)

\* There is a function that satisfies them all.
LEMMA LoadExists ==
  ASSUME NEW b \in Binaries, NEW m \in SoundMemories
  PROVE  \E f : LoadsUpTo(f, m, b, Len(b.bytes))
PROOF
  <1>. DEFINE L == Len(b.bytes)
              T == {n \in 0 .. L : ~ \E f : LoadsUpTo(f, m, b, n)}
  <1>0. L \in Nat
    BY BinariesAssumption
  <1>. HIDE DEF L
  <1>1. SUFFICES ASSUME T # {} PROVE FALSE
    <2>1. L \in 0 .. L
      BY <1>0
    <2>. QED
      BY <2>1 DEF L
  <1>2. PICK n \in T : \A k \in T : n <= k
    <2>1. T \subseteq Nat
      BY <1>0
    <2>. QED
      BY <1>1, <2>1, SmallestOf
  <1>. HIDE DEF T
  <1>3. n \in 0 .. L /\ ~ \E f : LoadsUpTo(f, m, b, n)
    BY <1>2 DEF T
  <1>4. n # 0
    <2>1. LoadsUpTo([i \in 0 .. 0 |-> m], m, b, 0)
      BY DEF LoadsUpTo
    <2>. QED
      BY <2>1, <1>3
  <1>5. PICK f : LoadsUpTo(f, m, b, n - 1)
    <2>1. n - 1 \in 0 .. L /\ ~(n <= n - 1)
      BY <1>0, <1>3, <1>4
    <2>2. n - 1 \notin T
      BY <2>1, <1>2
    <2>. QED
      BY <2>1, <2>2 DEF T
  <1>. DEFINE next == LoadsByte(f[n - 1], b, n)
              g == [i \in 0 .. n |-> IF i = n THEN next ELSE f[i]]
  <1>6. n \in Nat /\ n - 1 \in 0 .. n - 1 /\ n \in 1 .. L
    BY <1>0, <1>3, <1>4
  <1>7. next \in SoundMemories
    <2>1. f[n - 1] \in SoundMemories
      BY <1>5, <1>6 DEF LoadsUpTo
    <2>. QED
      BY <1>6, <2>1, LoadsByteKeepsMemory DEF L
  <1>. HIDE DEF next
  <1>8. LoadsUpTo(g, m, b, n)
    <2>1. g \in [0 .. n -> SoundMemories]
      BY <1>5, <1>6, <1>7 DEF LoadsUpTo
    <2>2. g[0] = m
      BY <1>4, <1>5, <1>6 DEF LoadsUpTo
    <2>3. ASSUME NEW i \in 1 .. n PROVE g[i] = LoadsByte(g[i - 1], b, i)
      <3>1. CASE i = n
        BY <3>1, <1>6 DEF next
      <3>2. CASE i # n
        BY <3>2, <1>5, <1>6 DEF LoadsUpTo
      <3>. QED
        BY <3>1, <3>2
    <2>. QED
      BY <2>1, <2>2, <2>3 DEF LoadsUpTo
  <1>. QED
    BY <1>3, <1>8

\* load_binary() keeps the types, wherever the bytes of the file go.
LEMMA LoadKeepsMemory ==
  ASSUME NEW b \in Binaries, NEW m \in SoundMemories
  PROVE  LoadBinary(m, b) \in SoundMemories
PROOF
  <1>. DEFINE L == Len(b.bytes)
              Load(f) == [n \in 0 .. L |-> IF n = 0 THEN m ELSE LoadsByte(f[n - 1], b, n)]
  <1>0. L \in Nat
    BY BinariesAssumption
  <1>1. PICK f : LoadsUpTo(f, m, b, L)
    BY LoadExists
  <1>2. f = Load(f)
    <2>1. f = [n \in 0 .. L |-> f[n]]
      BY <1>1 DEF LoadsUpTo
    <2>2. ASSUME NEW n \in 0 .. L PROVE f[n] = Load(f)[n]
      <3>1. n = 0 \/ n \in 1 .. L
        BY <1>0
      <3>. QED
        BY <3>1, <1>1 DEF LoadsUpTo
    <2>. QED
      BY <2>1, <2>2
  <1>. DEFINE loaded == CHOOSE g : g = Load(g)
  <1>3. LoadBinary(m, b) = loaded[L]
    BY DEF LoadBinary, LoadsByte
  <1>4. loaded = Load(loaded)
    <2>. HIDE DEF Load
    <2>. QED
      BY <1>2, Zenon
  <1>. HIDE DEF loaded, L
  <1>5. loaded[0] = m
    BY <1>0, <1>4
  <1>6. ASSUME NEW n \in 1 .. L PROVE loaded[n] = LoadsByte(loaded[n - 1], b, n)
    <2>1. n \in 0 .. L /\ n # 0
      BY <1>0
    <2>. QED
      BY <2>1, <1>4
  <1>. DEFINE T == {n \in 0 .. L : loaded[n] \notin SoundMemories}
  <1>7. T = {}
    <2>1. SUFFICES ASSUME T # {} PROVE FALSE
      OBVIOUS
    <2>2. PICK n \in T : \A k \in T : n <= k
      <3>1. T \subseteq Nat
        BY <1>0
      <3>. QED
        BY <2>1, <3>1, SmallestOf
    <2>3. n \in 1 .. L /\ n - 1 \in 0 .. L /\ ~(n <= n - 1)
      BY <1>0, <1>5, <2>2
    <2>4. loaded[n - 1] \in SoundMemories
      BY <2>2, <2>3
    <2>5. loaded[n] \in SoundMemories
      BY <1>6, <2>3, <2>4, LoadsByteKeepsMemory DEF L
    <2>. QED
      BY <2>2, <2>5
  <1>. QED
    BY <1>0, <1>3, <1>7

-----------------------------------------------------------------------------
(* The process and its file.                                               *)

\* The image is the one that was found, unless the process ended well: then it
\* is the SRAM of the end of the run, which is what is saved.
FileInv ==
  /\ ImageIsOldOrNew
  /\ process = "saving" => left = mem.sram

MachineInv == MachineTypeOK /\ FileInv

\* A new machine has sound memory.
LEMMA PowerOnIsSound ==
  ASSUME NEW sram \in Srams
  PROVE  PowerOn(sram) \in SoundMemories
PROOF
  <1>1. 0 \in Data /\ 0 \in 0 .. Pages - 1
    BY Sizes, MachineAssumption
  <1>. QED
    BY <1>1 DEF PowerOn, SoundMemories, Memories

\* Cleared SRAM is SRAM.
LEMMA ClearIsSram == ClearSram \in Srams
PROOF
  BY MachineAssumption DEF ClearSram, Srams

\* A file that is missing or has the wrong size is no SRAM.
LEMMA MarksAreNoSrams == Missing \notin Srams /\ BadSize \notin Srams
PROOF
  <1>1. 0 \in 0 .. Pages * PageSize - 1
    <2>1. 0 * PageSize + 0 \in 0 .. Pages * PageSize - 1
      BY Sizes, ByteOfPage
    <2>. QED
      BY <2>1, Sizes
  <1>2. ASSUME NEW x \in Srams PROVE 0 \in DOMAIN x
    BY <1>1 DEF Srams
  <1>3. 0 \notin DOMAIN Missing /\ 0 \notin DOMAIN BadSize
    BY DEF Missing, BadSize
  <1>. QED
    BY <1>2, <1>3

\* The type invariant, with the memory under the name that the lemmas use.
LEMMA TypeOfMemory == MachineTypeOK <=>
  /\ mem \in SoundMemories
  /\ process \in {"off", "loading", "running", "saving"}
  /\ image \in Srams \cup {Missing, BadSize} /\ found \in Srams \cup {Missing, BadSize}
  /\ written \in 0 .. Pages * PageSize
  /\ result \in {"none", "ok", "error", "killed"}
  /\ left \in Srams
PROOF
  BY DEF MachineTypeOK, SoundMemories

\* The SRAM of a memory is a whole SRAM.
LEMMA SramOfMemory ==
  ASSUME NEW m \in SoundMemories
  PROVE  m.sram \in Srams
PROOF
  BY DEF SoundMemories, Memories

LEMMA MachineInvInit == MachineInit => MachineInv
PROOF
  <1>1. SUFFICES ASSUME MachineInit PROVE MachineInv
    OBVIOUS
  <1>2. mem \in SoundMemories
    BY <1>1, ClearIsSram, PowerOnIsSound DEF MachineInit
  <1>3. 0 \in 0 .. Pages * PageSize
    BY Sizes
  <1>4. MachineTypeOK
    BY <1>1, <1>2, <1>3, ClearIsSram, TypeOfMemory DEF MachineInit
  <1>. QED
    BY <1>1, <1>4 DEF MachineInit, MachineInv, FileInv, ImageIsOldOrNew

\* Every step of the process keeps the invariant.
LEMMA MachineInvStep == MachineInv /\ [MachineNext]_machineVars => MachineInv'
PROOF
  <1>. SUFFICES ASSUME MachineInv, [MachineNext]_machineVars PROVE MachineInv'
    OBVIOUS
  <1>0. /\ mem \in SoundMemories
        /\ process \in {"off", "loading", "running", "saving"}
        /\ image \in Srams \cup {Missing, BadSize} /\ found \in Srams \cup {Missing, BadSize}
        /\ written \in 0 .. Pages * PageSize
        /\ result \in {"none", "ok", "error", "killed"}
        /\ left \in Srams
        /\ image = IF process = "off" /\ result = "ok" THEN left ELSE found
        /\ process = "saving" => left = mem.sram
    BY TypeOfMemory DEF MachineInv, FileInv, ImageIsOldOrNew
  <1>. SUFFICES /\ mem' \in SoundMemories
                /\ process' \in {"off", "loading", "running", "saving"}
                /\ image' \in Srams \cup {Missing, BadSize}
                /\ found' \in Srams \cup {Missing, BadSize}
                /\ written' \in 0 .. Pages * PageSize
                /\ result' \in {"none", "ok", "error", "killed"}
                /\ left' \in Srams
                /\ image' = IF process' = "off" /\ result' = "ok" THEN left' ELSE found'
                /\ process' = "saving" => left' = mem'.sram
    BY DEF MachineInv, FileInv, ImageIsOldOrNew, MachineTypeOK, SoundMemories
  <1>1. CASE Starts
    <2>1. image \in Srams \cup {Missing}
      BY <1>0, <1>1 DEF Starts
    <2>2. mem' \in SoundMemories
      BY <1>1, <2>1, ClearIsSram, PowerOnIsSound DEF Starts
    <2>. QED
      BY <1>0, <1>1, <2>2, ClearIsSram DEF Starts
  <1>2. CASE RefusesImage
    BY <1>0, <1>2 DEF RefusesImage
  <1>3. CASE LoadsBinary
    <2>1. mem' \in SoundMemories
      BY <1>0, <1>3, LoadKeepsMemory DEF LoadsBinary
    <2>. QED
      BY <1>0, <1>3, <2>1 DEF LoadsBinary
  <1>4. CASE StartsCpu
    BY <1>0, <1>4 DEF StartsCpu
  <1>5. CASE CpuWrites
    <2>1. PICK addr \in Addresses, value \in Data :
            /\ addr \in {IoStart + 2, IoStart + 3} => value < Pages
            /\ mem' = Write8(mem, addr, value, FALSE)
      BY <1>5 DEF CpuWrites
    <2>2. Sound(mem)
      BY <1>0 DEF Sound, SoundMemories
    <2>3. Sound(Write8(mem, addr, value, FALSE))
      BY <2>1, <2>2, Write8KeepsMemory
    <2>4. mem' \in SoundMemories
      BY <2>1, <2>3 DEF Sound, SoundMemories
    <2>. QED
      BY <1>0, <1>5, <2>4 DEF CpuWrites
  <1>6. CASE RunEnds
    <2>1. 0 \in 0 .. Pages * PageSize
      BY Sizes
    <2>. QED
      BY <1>0, <1>6, <2>1, SramOfMemory DEF RunEnds
  <1>7. CASE SavesBytes
    <2>1. written' \in 0 .. Pages * PageSize
      <3>. DEFINE size == Pages * PageSize
      <3>1. size \in Nat
        BY Sizes
      <3>2. \E n \in written + 1 .. size : written' = n
        BY <1>7 DEF SavesBytes
      <3>3. written \in 0 .. size
        BY <1>0
      <3>. HIDE DEF size
      <3>4. written' \in 0 .. size
        BY <3>1, <3>2, <3>3
      <3>. QED
        BY <3>4 DEF size
    <2>. QED
      BY <1>0, <1>7, <2>1 DEF SavesBytes
  <1>8. CASE SaveFails
    BY <1>0, <1>8 DEF SaveFails
  <1>9. CASE Renames
    BY <1>0, <1>9, SramOfMemory DEF Renames
  <1>10. CASE Killed
    BY <1>0, <1>10 DEF Killed
  <1>11. CASE UNCHANGED machineVars
    BY <1>0, <1>11 DEF machineVars
  <1>. QED
    BY <1>1, <1>2, <1>3, <1>4, <1>5, <1>6, <1>7, <1>8, <1>9, <1>10, <1>11 DEF MachineNext

THEOREM MachineInvHolds == MachineSpec => []MachineInv
PROOF
  BY MachineInvInit, MachineInvStep, PTL DEF MachineSpec

\* Whatever is loaded and stored, the regions keep their sizes and the latches
\* hold pages that exist, so no access of a program leaves the store.
THEOREM MachineTypeCorrect == MachineSpec => []MachineTypeOK
PROOF
  <1>1. MachineInv => MachineTypeOK
    BY DEF MachineInv
  <1>. QED
    BY <1>1, MachineInvHolds, PTL

\* The image is the old one until the new one is whole, however a run ends.
THEOREM ImageCorrect == MachineSpec => []ImageIsOldOrNew
PROOF
  <1>1. MachineInv => ImageIsOldOrNew
    BY DEF MachineInv, FileInv
  <1>. QED
    BY <1>1, MachineInvHolds, PTL

\* What was in the SRAM at a clean exit is there after the next start, and
\* nothing else is.
THEOREM SramCorrect == MachineSpec => SramSurvives
PROOF
  <1>1. MachineInv /\ [MachineNext]_machineVars
          => [process = "off" /\ process' = "loading" /\ result = "ok"
                => mem' = PowerOn(left)]_machineVars
    <2>1. SUFFICES ASSUME MachineInv, MachineNext,
                          process = "off", process' = "loading", result = "ok"
                   PROVE  mem' = PowerOn(left)
      OBVIOUS
    <2>2. Starts
      BY <2>1 DEF MachineNext, Starts, RefusesImage, LoadsBinary, StartsCpu, CpuWrites,
                  RunEnds, SavesBytes, SaveFails, Renames, Killed
    <2>3. image = left /\ left \in Srams
      BY <2>1 DEF MachineInv, FileInv, ImageIsOldOrNew, MachineTypeOK
    <2>4. image # Missing
      BY <2>3, MarksAreNoSrams
    <2>. QED
      BY <2>2, <2>3, <2>4 DEF Starts
  <1>. QED
    BY <1>1, MachineInvHolds, PTL DEF MachineSpec, SramSurvives

-----------------------------------------------------------------------------
(* What a store changes.                                                   *)

\* What is read after a store to RAM,
LEMMA LocalInRam ==
  ASSUME NEW m \in SoundMemories, NEW a \in Addresses, InRam(a),
         NEW value \in Data, NEW b \in Addresses
  PROVE  Read8(Write8(m, a, value, FALSE), b)
           = IF SameCell(m, a, b) THEN value ELSE Read8(m, b)
PROOF
  <1>. DEFINE n == Write8(m, a, value, FALSE)
  <1>1. n = [m EXCEPT !.ram[a] = value]
    <2>1. /\ ~InRom(a) /\ ~InWindow(a)
          /\ ~ \E w \in {0, 1} : IsLatch(a, w) /\ ~FALSE
      BY Regions, LatchAddresses
    <2>. QED
      BY <2>1 DEF Write8
  <1>2. m \in Memories /\ a \in 0 .. RamSize - 1
    BY Regions DEF SoundMemories
  <1>. HIDE DEF n
  <1>3. /\ n.rom = m.rom /\ n.latch = m.latch /\ n.sram = m.sram
        /\ n.ram = [m.ram EXCEPT ![a] = value]
    BY <1>1, <1>2 DEF Memories
  <1>4. SameCell(m, a, b) <=> a = b
    BY Regions DEF SameCell
  <1>5. CASE InRam(b)
    <2>1. b \in 0 .. RamSize - 1
      BY <1>5, Regions
    <2>2. Read8(n, b) = n.ram[b] /\ Read8(m, b) = m.ram[b]
      BY <1>5, Regions DEF Read8
    <2>. QED
      BY <1>2, <1>3, <1>4, <2>1, <2>2 DEF Memories, n
  <1>6. CASE ~InRam(b)
    <2>1. Physical(n, b) = Physical(m, b)
      BY <1>3 DEF Physical
    <2>2. Read8(n, b) = Read8(m, b)
      BY <1>3, <1>6, <2>1 DEF Read8
    <2>. QED
      BY <1>4, <1>6, <2>2 DEF n
  <1>. QED
    BY <1>5, <1>6

\* after one to a window,
LEMMA LocalInWindow ==
  ASSUME NEW m \in SoundMemories, NEW a \in Addresses, InWindow(a),
         NEW value \in Data, NEW b \in Addresses
  PROVE  Read8(Write8(m, a, value, FALSE), b)
           = IF SameCell(m, a, b) THEN value ELSE Read8(m, b)
PROOF
  <1>. DEFINE n == Write8(m, a, value, FALSE)
              cell == Physical(m, a)
  <1>1. n = [m EXCEPT !.sram[cell] = value]
    <2>1. ASSUME NEW loading \in BOOLEAN
          PROVE  Write8(m, a, value, loading) = [m EXCEPT !.sram[cell] = value]
      BY WindowStore
    <2>. QED
      BY <2>1
  <1>2. m \in Memories /\ Sound(m)
    BY DEF SoundMemories, Sound
  <1>3. cell \in 0 .. Pages * PageSize - 1 /\ cell = ImageOffset(m, a)
    BY <1>2, PhysicalIsImageOffset
  <1>. HIDE DEF n, cell
  <1>4. /\ n.rom = m.rom /\ n.latch = m.latch /\ n.ram = m.ram
        /\ n.sram = [m.sram EXCEPT ![cell] = value]
    BY <1>1, <1>2 DEF Memories
  <1>5. CASE InWindow(b)
    <2>1. /\ Physical(m, b) \in 0 .. Pages * PageSize - 1
          /\ Physical(m, b) = ImageOffset(m, b)
      BY <1>2, <1>5, PhysicalIsImageOffset
    <2>2. Physical(n, b) = Physical(m, b)
      BY <1>4 DEF Physical
    <2>3. Read8(n, b) = n.sram[Physical(m, b)] /\ Read8(m, b) = m.sram[Physical(m, b)]
      BY <1>5, <2>2, Regions DEF Read8
    <2>4. SameCell(m, a, b) <=> cell = Physical(m, b)
      BY <1>3, <1>5, <2>1 DEF SameCell
    <2>5. n.sram[Physical(m, b)]
            = IF cell = Physical(m, b) THEN value ELSE m.sram[Physical(m, b)]
      BY <1>2, <1>4, <2>1 DEF Memories, Srams
    <2>. QED
      BY <2>3, <2>4, <2>5 DEF n
  <1>6. CASE ~InWindow(b)
    <2>1. ~SameCell(m, a, b)
      BY <1>6 DEF SameCell
    <2>2. Read8(n, b) = Read8(m, b)
      BY <1>4, <1>6 DEF Read8
    <2>. QED
      BY <2>1, <2>2 DEF n
  <1>. QED
    BY <1>5, <1>6

\* A store of the program changes what is read at its own cell, through both
\* windows when they show one page, and nowhere else; one to the ROM changes
\* nothing.
THEOREM StoresCorrect == MachineSpec => []StoresAreLocal
PROOF
  <1>1. MachineInv => StoresAreLocal
    <2>1. SUFFICES ASSUME MachineInv, NEW a \in Addresses, NEW value \in Data,
                          NEW b \in Addresses, InRam(a) \/ InWindow(a) \/ InRom(a)
                   PROVE  Read8(Write8(mem, a, value, FALSE), b)
                            = IF SameCell(mem, a, b) /\ ~InRom(a) THEN value
                              ELSE Read8(mem, b)
      BY DEF StoresAreLocal
    <2>2. mem \in SoundMemories
      BY <2>1, TypeOfMemory DEF MachineInv
    <2>3. CASE InRam(a)
      BY <2>2, <2>3, LocalInRam, Regions
    <2>4. CASE InWindow(a)
      BY <2>2, <2>4, LocalInWindow, Regions
    <2>5. CASE InRom(a)
      BY <2>5, RomStore
    <2>. QED
      BY <2>1, <2>3, <2>4, <2>5
  <1>. QED
    BY <1>1, MachineInvHolds, PTL
=============================================================================
