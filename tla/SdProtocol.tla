----------------------------- MODULE SdProtocol -----------------------------
(***************************************************************************)
(* The vocabulary of the PIA / SD bridge protocol, version 2: the geometry *)
(* of the FLEX.DSK image, the status and command bytes, the payload        *)
(* checksum and the address arithmetic (sd_bridge/src/protocol.h).         *)
(*                                                                         *)
(* Geometry is a parameter: the firmware has 128 tracks of 32 sectors of   *)
(* 256 bytes, the model-checked instances have a handful of sectors of one *)
(* to four bytes.  Bytes keep their real values and their width, because   *)
(* the framing and the checksum depend on both.                            *)
(***************************************************************************)
EXTENDS Integers, Sequences

CONSTANTS Tracks,           \* Tracks in protocol.h
          SectorsPerTrack,  \* SectorsPerTrack in protocol.h
          SectorBytes       \* SectorBytes in protocol.h

\* How many values a uint16_t has.
WordSize == 65536

\* Tracks and SectorsPerTrack are uint8_t, SectorBytes is uint16_t, and
\* the largest reply has SectorBytes + 3 bytes counted in a uint16_t.
ASSUME GeometryAssumption ==
  /\ Tracks \in 1 .. 255
  /\ SectorsPerTrack \in 1 .. 255
  /\ SectorBytes \in 1 .. WordSize - 4

Byte == 0 .. 255
Word == 0 .. WordSize - 1

HighByte(w) == w \div 256
LowByte(w) == w % 256

ProtocolVersion == 2
ImageBytes == Tracks * SectorsPerTrack * SectorBytes

\* The two bytes that open every request.
SyncFirst == 165
SyncSecond == 90

\* enum class Status
Ok == 0
NoCard == 1
NoFilesystem == 2
NoImage == 3
BadImage == 4
BadAddress == 5
IoError == 6
BadCommand == 7
BadChecksum == 8

MountStatuses == {Ok, NoCard, NoFilesystem, NoImage, BadImage}
StorageStatuses == MountStatuses \cup {IoError}

\* enum class Command
CommandInfo == 0
CommandStatus == 1
CommandRead == 16
CommandWrite == 17
CommandSync == 18

-----------------------------------------------------------------------------

\* One sector of data, as the 256-byte staging buffers hold it.
Buffers == [0 .. SectorBytes - 1 -> Byte]

\* The first n bytes of one buffer and the rest of another.
Mixed(first, n, rest) ==
  [i \in 0 .. SectorBytes - 1 |-> IF i < n THEN first[i] ELSE rest[i]]

\* An addition in a uint16_t.
Add16(total, value) == (total + value) % WordSize

\* partialSum(data)[n]: the 16-bit sum of the first n bytes.
partialSum(data) ==
  LET sum[n \in 0 .. SectorBytes] ==
        IF n = 0 THEN 0 ELSE Add16(sum[n - 1], data[n - 1])
  IN  sum

sectorChecksum(data) == partialSum(data)[SectorBytes]

validAddress(track, sector) ==
  /\ track < Tracks
  /\ sector >= 1
  /\ sector <= SectorsPerTrack

fileOffset(track, sector) ==
  (track * SectorsPerTrack + (sector - 1)) * SectorBytes

\* The offsets storage may be asked for, and the image's sectors by offset.
Offsets == { fileOffset(track, sector) :
               track \in 0 .. Tracks - 1, sector \in 1 .. SectorsPerTrack }
Images == [Offsets -> Buffers]

\* The answer to INFO: status, version, geometry, size low byte first.
InfoReply == << Ok, ProtocolVersion, Tracks, SectorsPerTrack,
                LowByte(SectorBytes), HighByte(SectorBytes) >>

-----------------------------------------------------------------------------
(***************************************************************************)
(* What FLEX asks of an SD transport and what it is answered: the entries  *)
(* READ, WRITE and READY of the ROM's jump table (roms/mikbug2/sdcard.s)   *)
(* and the code they return in B.                                          *)
(***************************************************************************)

Kinds == {"read", "write", "ready"}
Calls == [kind : Kinds, track : Byte, sector : Byte, data : Buffers]

ZeroBuffer == [n \in 0 .. SectorBytes - 1 |-> 0]

\* A card that holds nothing yet.
BlankImage == [offset \in Offsets |-> ZeroBuffer]

\* What stands for the last call before there was one.
NoCall == [kind |-> "ready", track |-> 0, sector |-> 0, data |-> ZeroBuffer]

\* The address test of SDIO, made before anything is sent.
BadCallAddress(call) ==
  call.kind # "ready" /\ ~validAddress(call.track, call.sector)

\* Marks of `result' that no call returns.
NoResult == 256   \* no call has returned since power-up or the last reset
Pending == 257    \* a call is running

FailCode == 16        \* B=$10
ChecksumCode == 8     \* B=$08

=============================================================================
