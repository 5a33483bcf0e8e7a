----------------------------- MODULE BootLoader -----------------------------
(***************************************************************************)
(* The boot sector of FLEX (flex2/platform/boot.asm): it follows the chain *)
(* of sectors of FLEX2.SYS through the page window of drive 0, copies its  *)
(* binary records to RAM and jumps to its entry; and the image builder     *)
(* that writes that chain (flex2/tools/mkimage.py).                        *)
(*                                                                         *)
(* A step is a byte: GETBYTE with the sector it may have to fetch, and     *)
(* what the record reader does with it.                                    *)
(***************************************************************************)
EXTENDS Integers, SequencesExt

CONSTANTS BootTracks,   \* 128 tracks, a page each
          BootSectors,  \* 16 sectors of a page
          SectorData,   \* 252 bytes of a sector, behind link and number
          RecordMax,    \* 255 bytes of a record
          Files,        \* files that the image builder may pack
          Chains        \* chains that it did not make

\* A file is its bytes, load address and entry.  A chain is the link in the boot
\* sector and the sectors; the link of a sector is a track and a sector number.
Links == (0 .. 255) \X (0 .. 255)
Addresses == (0 .. BootTracks - 1) \X (1 .. BootSectors)

\* How many addresses DEST can hold.
MemorySize == 65536

ASSUME BootAssumption ==
  /\ BootTracks \in 1 .. 128 /\ BootSectors \in 1 .. 16
  /\ SectorData \in Nat \ {0} /\ RecordMax \in 1 .. 255
  /\ \A f \in Files : f.bytes \in Seq(0 .. 255) /\ {f.address, f.entry} \subseteq 0 .. MemorySize - 1
  /\ \A c \in Chains : c.first \in Links /\ DOMAIN c.sectors = Addresses

VARIABLES packed,  \* history: the file that was packed, in a set, if any
          chain,   \* the chain on the volume
          link,    \* LINKT and LINKS
          current, \* the sector PTR points into
          remain,  \* REMAIN
          reader,  \* what the next byte is taken for
          dest,    \* DEST
          count,   \* COUNT
          loaded   \* the RAM that has been written: address to byte

boot == <<packed, chain, link, current, remain, reader, dest, count, loaded>>

Readers == {"type", "high", "low", "count", "copy", "entryHigh", "entryLow",
            "jumped", "error"}

-----------------------------------------------------------------------------
(* The image builder.                                                      *)

Chunks(bytes, size) ==
  [k \in 1 .. (Len(bytes) + size - 1) \div size |->
     SubSeq(bytes, (k - 1) * size + 1, IF k * size < Len(bytes) THEN k * size ELSE Len(bytes))]

BigEndian(word) == <<word \div 256, word % 256>>

\* binary_records
Records(f) ==
  LET parts == Chunks(f.bytes, RecordMax)
      Record(k) == <<2>> \o BigEndian(f.address + (k - 1) * RecordMax)
                         \o <<Len(parts[k])>> \o parts[k]
  IN  FlattenSeq([k \in DOMAIN parts |-> Record(k)]) \o <<22>> \o BigEndian(f.entry)

\* ts
TrackSector(n) == <<n \div BootSectors, (n % BootSectors) + 1>>

\* Mutant: the last sector but one has no link either.
LinkAfterTooFew(k, total) ==
  IF k < total - 1 THEN TrackSector(BootSectors + k) ELSE <<0, 0>>

\* The link of the k-th sector of a file: the file starts behind track 0.
LinkAfter(k, total) == IF k < total THEN TrackSector(BootSectors + k) ELSE <<0, 0>>

Padded(part) == [i \in 1 .. SectorData |-> IF i <= Len(part) THEN part[i] ELSE 0]

\* make_drive, for the one file of a chain.
Packed(f) ==
  LET parts == Chunks(Records(f), SectorData)
      At(address) == { k \in DOMAIN parts : TrackSector(BootSectors + k - 1) = address }
  IN  [ first |-> TrackSector(BootSectors),
        sectors |-> [address \in Addresses |->
          IF At(address) = {}
            THEN [link |-> <<0, 0>>, data |-> Padded(<<>>)]
            ELSE LET k == CHOOSE k \in At(address) : TRUE
                 IN  [link |-> LinkAfter(k, Len(parts)), data |-> Padded(parts[k])]] ]

\* What mkimage.py takes: it refuses a drive that its files fill, and the boot
\* file ends below the top of the memory.
Fits(f) ==
  /\ f.address + Len(f.bytes) <= MemorySize
  /\ BootSectors + Len(Chunks(Records(f), SectorData)) < BootTracks * BootSectors

ASSUME FilesFit == \A f \in Files : Fits(f)

-----------------------------------------------------------------------------
(* The boot sector.                                                        *)

BootInit ==
  /\ \/ \E f \in Files : packed = {f} /\ chain = Packed(f)
     \/ packed = {} /\ chain \in Chains
  /\ link = chain.first
  /\ current = <<0, 1>>
  /\ remain = 0
  /\ reader = "type"
  /\ dest = 0
  /\ count = 0
  /\ loaded = <<>>

Running == reader \notin {"jumped", "error"}

\* Mutant: only the end of the chain is an error.
BootFailsAtEnd ==
  /\ Running
  /\ remain = 0
  /\ link = <<0, 0>>
  /\ reader' = "error"
  /\ UNCHANGED <<packed, chain, link, current, remain, dest, count, loaded>>

\* BOOTERROR: the link ends the chain or names no sector.
BootFails ==
  /\ Running
  /\ remain = 0
  /\ link \notin Addresses
  /\ reader' = "error"
  /\ UNCHANGED <<packed, chain, link, current, remain, dest, count, loaded>>

HasByte == remain > 0 \/ link \in Addresses

\* GETBYTE: the sector of the next byte and the byte.
Source == IF remain = 0 THEN link ELSE current

\* Mutant: LDAA #251.
BytesLeftShort == IF remain = 0 THEN SectorData - 1 ELSE remain

BytesLeft == IF remain = 0 THEN SectorData ELSE remain
NextByte == chain.sectors[Source].data[SectorData - BytesLeft + 1]

TakesByte ==
  /\ current' = Source
  /\ link' = IF remain = 0 THEN chain.sectors[Source].link ELSE link
  /\ remain' = BytesLeft - 1

WithHigh(word, byte) == byte * 256 + (word % 256)
WithLow(word, byte) == (word \div 256) * 256 + byte

\* NEXTREC: other bytes than 2 and $16 are skipped.
ReadsType ==
  /\ reader = "type"
  /\ reader' = CASE NextByte = 2 -> "high" [] NextByte = 22 -> "entryHigh" [] OTHER -> "type"
  /\ UNCHANGED <<dest, count, loaded>>

ReadsHigh ==
  /\ reader \in {"high", "entryHigh"}
  /\ dest' = WithHigh(dest, NextByte)
  /\ reader' = IF reader = "high" THEN "low" ELSE "entryLow"
  /\ UNCHANGED <<count, loaded>>

ReadsLow ==
  /\ reader \in {"low", "entryLow"}
  /\ dest' = WithLow(dest, NextByte)
  /\ reader' = IF reader = "low" THEN "count" ELSE "jumped"
  /\ UNCHANGED <<count, loaded>>


ReadsCount ==
  /\ reader = "count"
  /\ count' = NextByte
  /\ reader' = IF NextByte = 0 THEN "type" ELSE "copy"
  /\ UNCHANGED <<dest, loaded>>

\* COPY
CopiesByte ==
  /\ reader = "copy"
  /\ loaded' = [a \in DOMAIN loaded \cup {dest} |-> IF a = dest THEN NextByte ELSE loaded[a]]
  /\ dest' = (dest + 1) % MemorySize
  /\ count' = (count - 1) % 256
  /\ reader' = IF count' = 0 THEN "type" ELSE "copy"

BootStep ==
  /\ Running
  /\ HasByte
  /\ TakesByte
  /\ ReadsType \/ ReadsHigh \/ ReadsLow \/ ReadsCount \/ CopiesByte
  /\ UNCHANGED <<packed, chain>>

BootNext == BootStep \/ BootFails

BootSpec == BootInit /\ [][BootNext]_boot /\ WF_boot(BootNext)

-----------------------------------------------------------------------------

\* A file that the image builder packed is loaded as it is, whatever its bytes:
\* those that look like record types or links included.
LoadsWhatWasPacked ==
  reader = "jumped" =>
    \A f \in packed :
      /\ dest = f.entry
      /\ DOMAIN loaded = { f.address + i - 1 : i \in DOMAIN f.bytes }
      /\ \A i \in DOMAIN f.bytes : loaded[f.address + i - 1] = f.bytes[i]

\* The n-th link of a chain, or <<0, 0>> once one names no sector.
LinkOf(c, n) ==
  LET linkAfter[k \in 0 .. n] ==
        IF k = 0 THEN c.first
        ELSE LET before == linkAfter[k - 1]
             IN  IF before \in Addresses THEN c.sectors[before].link ELSE <<0, 0>>
  IN  linkAfter[n]

\* A chain that has not ended after as many links as there are sectors names one
\* of them twice and never ends.
EndsSomewhere(c) == LinkOf(c, BootTracks * BootSectors) \notin Addresses

\* A packed file is loaded in the end, and a chain that ends or breaks is never
\* read for ever.
PackedFileBoots == packed # {} ~> reader = "jumped"
BrokenChainStops == EndsSomewhere(chain) ~> ~Running

-----------------------------------------------------------------------------
(* Files and chains for TLC.                                               *)

\* Every file of at most five bytes, among them the two record types and zero.
Payloads == UNION { [1 .. n -> {0, 2, 22}] : n \in 0 .. 5 }

SmallFiles == { [bytes |-> p, address |-> 767, entry |-> 770] : p \in Payloads }

Contents == { <<0, 0, 0>>, <<2, 1, 2>>, <<2, 0, 255>>, <<0, 22, 2>>, <<255, 255, 2>> }

ChainSectors == [link : {<<0, 0>>, <<0, 2>>, <<1, 1>>, <<1, 3>>, <<2, 1>>}, data : Contents]

\* Three of the four sectors have any link and any of some contents: chains that
\* end, that leave the volume, that loop, with records that span sectors.
BrokenChains ==
  { [ first |-> <<1, 1>>,
      sectors |-> [a \in Addresses |->
        CASE a = <<1, 1>> -> one [] a = <<0, 2>> -> two
          [] OTHER -> [link |-> <<0, 0>>, data |-> <<0, 0, 22>>]] ] :
      one \in ChainSectors, two \in ChainSectors }

=============================================================================
