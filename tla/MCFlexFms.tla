------------------------------ MODULE MCFlexFms ------------------------------
EXTENDS FlexFms

Pair(first, second) == [n \in 0 .. SectorBytes - 1 |-> IF n = 0 THEN first ELSE second]

BlankVolume == [offset \in Offsets |-> ZeroBuffer]
BlankSram == [p \in Pages |-> [s \in 1 .. SramSectors |-> ZeroBuffer]]

\* Reads and writes of an SRAM volume and of the SD volume, a write of another
\* track and sector of the other SRAM volume, a drive that does not exist, and a
\* sector that exists on the SD volume only.
SectorOf(kind, d, track, sector) ==
  [kind |-> kind, drive |-> d, track |-> track, sector |-> sector, data |-> Pair(1, 2)]

Sectors ==
  { SectorOf(kind, d, 0, 1) : kind \in {"read", "write"}, d \in {Sram0, SdDrive} }
  \cup { SectorOf("write", Sram1, 1, 2), SectorOf("read", 3, 0, 1),
         SectorOf("write", Sram0, 0, 3) }

Spoilt == { Pair(9, 9) }

\* What programs other than FLEX's file management call the driver for.
DriverRequests ==
  { SectorOf("select", Sram1, 0, 1), SectorOf("select", SdDrive, 0, 1),
    SectorOf("check", SdDrive, 0, 1), SectorOf("write", Sram0, 1, 1) }
=============================================================================
