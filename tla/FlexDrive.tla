------------------------------ MODULE FlexDrive ------------------------------
(***************************************************************************)
(* The disk driver of FLEX (flex2/platform/ramdisk.asm): two SRAM volumes  *)
(* behind the page latch at $E002 and the SD volume behind its adapter.    *)
(* DRVSEL selects a drive for the READs and WRITEs that follow; READY asks *)
(* about any drive and leaves the selection alone.                         *)
(*                                                                         *)
(* The caller is any program that uses the driver's jump table.  A copy    *)
(* between SRAM and the caller's buffer is one step, except that a reset   *)
(* may tear it.                                                            *)
(***************************************************************************)
EXTENDS SdVolume

CONSTANTS SramTracks,   \* tracks of an SRAM volume: 128, the pages of a half
          SramSectors,  \* sectors of a track: 16, the 256-byte parts of a page
          Sram0, Sram1, SdDrive,  \* their logical numbers (drive_config.py)
          OtherDrives,  \* the numbers of no drive
          InitialSram,  \* the SRAM image
          OfferedRequests,  \* the calls of the driver that programs make
          Garbage       \* what a failing READ may leave in the buffer

Drives == {Sram0, Sram1, SdDrive}
DriveNumbers == Drives \cup OtherDrives
Pages == 0 .. 2 * SramTracks - 1
SramImages == [Pages -> [1 .. SramSectors -> Buffers]]

Requests == [kind : {"select", "check", "read", "write"}, drive : DriveNumbers,
             track : Byte, sector : Byte, data : Buffers]

ASSUME DriveAssumption ==
  /\ SramTracks \in 1 .. 128
  /\ SramSectors \in 1 .. 16
  /\ Sram0 # Sram1 /\ Sram0 # SdDrive /\ Sram1 # SdDrive
  /\ OtherDrives \cap Drives = {}
  /\ InitialSram \in SramImages
  /\ OfferedRequests \subseteq Requests
  /\ Garbage \subseteq Buffers

VARIABLES c68sd,     \* C68SD: the SD volume is selected
          c68base,   \* C68BASE: the first page of the SRAM volume selected
          page,      \* the page latch, write-only for the driver
          sram,      \* the pages
          driver,    \* "idle", or what an SD call is made for
          request,   \* the last call of the driver
          code,      \* B as it returned, or NoResult
          chosen     \* history: the drive of the last DRVSEL that returned Ok

drive == <<c68sd, c68base, page, sram, driver, request, code, chosen>>
driveVars == <<drive, volumeVars>>

DriveTypeOK ==
  /\ VolumeTypeOK
  /\ c68sd \in BOOLEAN
  /\ c68base \in {0, SramTracks}
  /\ page \in Pages
  /\ sram \in SramImages
  /\ driver \in {"idle", "select", "check", "transfer"}
  /\ request \in Requests
  /\ code \in {Ok, FailCode, ChecksumCode, NoResult}
  /\ chosen \in Drives

\* The image FLEX is loaded from has zeros in C68SD and C68BASE.
DriveInit ==
  /\ VolumeInit
  /\ c68sd = FALSE
  /\ c68base = 0
  /\ page = 0
  /\ sram = InitialSram
  /\ driver = "idle"
  /\ request = [kind |-> "check", drive |-> Sram0, track |-> 0, sector |-> 0,
                data |-> ZeroBuffer]
  /\ code = NoResult
  /\ chosen = Sram0

BaseOf(d) == IF d = Sram0 THEN 0 ELSE SramTracks

SramAddress(r) == r.track < SramTracks /\ r.sector \in 1 .. SramSectors

-----------------------------------------------------------------------------
(* The calls that return without the SD transport.                         *)

Returns(c) == driver' = "idle" /\ code' = c

\* C68DRIVE and C68READY of a number that is no drive's.
NoSuchDrive ==
  /\ request'.kind \in {"select", "check"}
  /\ request'.drive \notin Drives
  /\ Returns(FailCode)
  /\ UNCHANGED <<c68sd, c68base, page, sram, chosen, volumeVars>>

SramIsReady ==
  /\ request'.kind = "check"
  /\ request'.drive \in {Sram0, Sram1}
  /\ Returns(Ok)
  /\ UNCHANGED <<c68sd, c68base, page, sram, chosen, volumeVars>>

\* C68SELECTRAM
SelectSram ==
  /\ request'.kind = "select"
  /\ request'.drive \in {Sram0, Sram1}
  /\ c68sd' = FALSE
  /\ c68base' = BaseOf(request'.drive)
  /\ chosen' = request'.drive
  /\ Returns(Ok)
  /\ UNCHANGED <<page, sram, volumeVars>>

\* C68IO: the addresses it refuses.
SramRefuses ==
  /\ request'.kind \in {"read", "write"}
  /\ ~c68sd
  /\ ~SramAddress(request')
  /\ Returns(FailCode)
  /\ UNCHANGED <<c68sd, c68base, page, sram, chosen, volumeVars>>

\* Mutant: ORAA C68BASE is left out.
PageOfOneVolume(r) == r.track

PageOf(r) == c68base + r.track

\* C68LOOP, for a WRITE.
SramStores ==
  /\ request'.kind = "write"
  /\ ~c68sd
  /\ SramAddress(request')
  /\ page' = PageOf(request')
  /\ sram' = [sram EXCEPT ![PageOf(request')][request'.sector] = request'.data]
  /\ Returns(Ok)
  /\ UNCHANGED <<c68sd, c68base, chosen, volumeVars>>

\* Mutant: C68RAMREAD leaves C68WRITEFLAG set.
SramLoadsAsStores ==
  /\ request'.kind = "read"
  /\ ~c68sd
  /\ SramAddress(request')
  /\ page' = PageOf(request')
  /\ sram' = [sram EXCEPT ![PageOf(request')][request'.sector] = request'.data]
  /\ Returns(Ok)
  /\ UNCHANGED <<c68sd, c68base, chosen, volumeVars>>

\* C68LOOP, for a READ.
SramLoads ==
  /\ request'.kind = "read"
  /\ ~c68sd
  /\ SramAddress(request')
  /\ page' = PageOf(request')
  /\ received' = sram[PageOf(request')][request'.sector]
  /\ Returns(Ok)
  /\ UNCHANGED <<c68sd, c68base, sram, chosen, volume, call, outcome, unsettled>>

-----------------------------------------------------------------------------
(* The calls that go through the SD transport.                             *)

SdKind(r) == IF r.kind \in {"read", "write"} THEN r.kind ELSE "ready"

SdCall(r) ==
  IF r.kind \in {"read", "write"}
    THEN [kind |-> r.kind, track |-> r.track, sector |-> r.sector, data |-> r.data]
    ELSE NoCall

\* C68SDREADY, SDREAD and SDWRITE.
AsksSd ==
  /\ CASE request'.kind \in {"select", "check"} ->
            request'.drive = SdDrive /\ driver' = request'.kind
       [] OTHER -> c68sd /\ driver' = "transfer"
  /\ call' = SdCall(request')
  /\ Asks
  /\ UNCHANGED <<c68sd, c68base, page, sram, code, chosen>>

DriveCalls(r) ==
  /\ driver = "idle"
  /\ request' = r
  /\ \/ NoSuchDrive
     \/ SramIsReady
     \/ SelectSram
     \/ SramRefuses
     \/ SramStores
     \/ SramLoads
     \/ AsksSd

\* Mutant: C68DRIVE selects before it asks READY.
SelectsAnyway ==
  /\ driver = "select"
  /\ c68sd' = TRUE
  /\ IF outcome = Ok
       THEN chosen' = SdDrive /\ Returns(Ok)
       ELSE Returns(FailCode) /\ UNCHANGED chosen

\* C68DRIVE, after C68READY: a failure keeps the old selection.
SdSelects ==
  /\ driver = "select"
  /\ IF outcome = Ok
       THEN c68sd' = TRUE /\ chosen' = SdDrive /\ Returns(Ok)
       ELSE Returns(FailCode) /\ UNCHANGED <<c68sd, chosen>>

SdReturns ==
  /\ driver \in {"check", "transfer"}
  /\ Returns(outcome)
  /\ UNCHANGED <<c68sd, chosen>>

DriveAnswers ==
  /\ outcome \notin {Pending, NoResult}
  /\ SdSelects \/ SdReturns
  /\ UNCHANGED <<c68base, page, sram, request, volumeVars>>

\* The SD volume behind a call, or behind the driver's back.
VolumeSteps ==
  /\ \/ \E write \in unsettled, n \in 0 .. SectorBytes : Lands(write, n)
     \/ received' \in Garbage /\ Fills
     \/ Succeeds
     \/ Fails
  /\ UNCHANGED drive

\* The machine is reset and FLEX is loaded again.  A write to SRAM that was
\* under way is torn.
DriveReset ==
  /\ c68sd' = FALSE
  /\ c68base' = 0
  /\ driver' = "idle"
  /\ chosen' = Sram0
  /\ code' = NoResult
  /\ Restarts
  /\ UNCHANGED <<page, request>>

TornStore(r, n) ==
  /\ r.kind = "write"
  /\ ~c68sd
  /\ SramAddress(r)
  /\ sram' = [sram EXCEPT ![PageOf(r)][r.sector] = Mixed(r.data, n, @)]

ResetIdle == DriveReset /\ UNCHANGED sram

ResetInStore(r, n) == driver = "idle" /\ TornStore(r, n) /\ DriveReset

-----------------------------------------------------------------------------

\* What the sector (t, s) of drive d holds.
Stored(d, t, s) ==
  IF d = SdDrive THEN volume[fileOffset(t, s)] ELSE sram[BaseOf(d) + t][s]

\* The selection is always that of the last DRVSEL that returned Ok, or drive
\* SRAM0: not of one that failed, nor of a READY between two transfers.
SelectionIsChosen ==
  /\ c68sd = (chosen = SdDrive)
  /\ ~c68sd => c68base = BaseOf(chosen)

=============================================================================
