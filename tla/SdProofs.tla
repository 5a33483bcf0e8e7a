------------------------------ MODULE SdProofs ------------------------------
(***************************************************************************)
(* Facts about the protocol, for every geometry, that the proofs about the *)
(* bridge and about the emulator need.                                     *)
(*                                                                         *)
(* Its arithmetic: what the payload checksum is and depends on, and where  *)
(* a sector lies.  The checksum is a recursive function: statements about  *)
(* all of its values are proved by taking the smallest n at which one      *)
(* fails.                                                                  *)
(*                                                                         *)
(* The ROM transport by itself, whatever is at the other end of the wires: *)
(* its bytes are bytes, it stays in its script and its sums are the sums   *)
(* of what it has sent or received.  And the transport in step with the    *)
(* request engine, byte by byte: what the engine makes of every byte the   *)
(* transport sends, and the transport of every byte of the reply.          *)
(***************************************************************************)
EXTENDS SdHost, SdEngine, WellFoundedInduction, TLAPS


\* Every nonempty set of naturals has a smallest element.
LEMMA SmallestNat ==
  ASSUME NEW T, T \subseteq Nat, T # {}
  PROVE  \E n \in T : \A m \in T : n <= m
PROOF
  <1>1. PICK n \in T : \A m \in T : <<m, n>> \notin OpToRel(<, Nat)
    BY NatLessThanWellFounded, WFMin
  <1>2. \A m \in T : n <= m
    <2>1. SUFFICES ASSUME NEW m \in T PROVE n <= m
      OBVIOUS
    <2>2. n \in Nat /\ m \in Nat
      OBVIOUS
    <2>3. OpToRel(<, Nat) = {pair \in Nat \X Nat : pair[1] < pair[2]}
      BY DEF OpToRel
    <2>4. ~(m < n)
      BY <1>1, <2>2, <2>3
    <2>. QED
      BY <2>2, <2>4
  <1>. QED
    BY <1>2

\* The bound of a word is a number.
LEMMA WordSizeIsNat == WordSize \in Nat
PROOF
  BY DEF WordSize

\* What the proofs need of the number 65536.
LEMMA WordSizeFacts ==
  /\ WordSize \in Nat
  /\ WordSize > 4
  /\ WordSize = 256 * 256
PROOF
  BY DEF WordSize

\* A sector and its framing are counted in a uint16_t.
LEMMA SectorBytesFacts ==
  /\ SectorBytes \in Nat
  /\ SectorBytes >= 1
  /\ WordSize \in Nat
  /\ SectorBytes + 4 <= WordSize
PROOF
  <1>1. SectorBytes \in 1 .. WordSize - 4
    BY GeometryAssumption
  <1>2. WordSize \in Nat /\ WordSize > 4
    BY WordSizeFacts
  <1>. QED
    BY <1>1, <1>2

\* A remainder is less than the modulus.
LEMMA Remainder ==
  ASSUME NEW a \in Int, NEW n \in Nat, n > 0
  PROVE  a % n \in 0 .. n - 1
PROOF
  OBVIOUS

\* A 16-bit remainder is a word.
LEMMA WordModulus ==
  ASSUME NEW a \in Int
  PROVE  a % WordSize \in Word
PROOF
  <1>1. WordSize \in Nat /\ WordSize > 0
    BY DEF WordSize
  <1>. QED
    BY Remainder, <1>1 DEF Word

\* Zero is a word.
LEMMA ZeroWord == 0 \in Word
PROOF
  BY WordSizeFacts DEF Word

\* A 16-bit sum is a word.
LEMMA Add16Word ==
  ASSUME NEW a \in Word, NEW b \in Byte
  PROVE  Add16(a, b) \in Word
PROOF
  <1>1. a + b \in Int
    <2>1. WordSize \in Nat
      BY WordSizeFacts
    <2>2. a \in Int /\ b \in Int
      BY <2>1 DEF Word, Byte
    <2>. QED
      BY <2>2
  <1>. QED
    BY <1>1, WordModulus DEF Add16

\* The first equations of partialSum, as a predicate on a function.
SumsUpTo(f, data, n) ==
  /\ f \in [0 .. n -> Word]
  /\ f[0] = 0
  /\ \A i \in 1 .. n : f[i] = Add16(f[i - 1], data[i - 1])

\* There is a function that satisfies the definition of partialSum.
LEMMA SumExists ==
  ASSUME NEW data \in Buffers
  PROVE  \E f : SumsUpTo(f, data, SectorBytes)
PROOF
  <1>. DEFINE T == {n \in 0 .. SectorBytes : ~ \E f : SumsUpTo(f, data, n)}
  <1>1. SUFFICES ASSUME T # {} PROVE FALSE
    <2>1. SectorBytes \in 0 .. SectorBytes
      BY SectorBytesFacts
    <2>. QED
      BY <2>1
  <1>2. PICK n \in T : \A m \in T : n <= m
    <2>1. T \subseteq Nat
      BY SectorBytesFacts
    <2>. QED
      BY <1>1, <2>1, SmallestNat
  <1>. HIDE DEF T
  <1>3. n \in 0 .. SectorBytes /\ ~ \E f : SumsUpTo(f, data, n)
    BY <1>2 DEF T
  <1>4. n # 0
    <2>1. SumsUpTo([i \in 0 .. 0 |-> 0], data, 0)
      BY ZeroWord DEF SumsUpTo
    <2>. QED
      BY <2>1, <1>3
  <1>5. PICK f : SumsUpTo(f, data, n - 1)
    <2>1. n - 1 \in 0 .. SectorBytes /\ ~(n <= n - 1)
      BY <1>3, <1>4, SectorBytesFacts
    <2>2. n - 1 \notin T
      BY <2>1, <1>2
    <2>. QED
      BY <2>1, <2>2 DEF T
  <1>. DEFINE next == Add16(f[n - 1], data[n - 1])
              g == [i \in 0 .. n |-> IF i = n THEN next ELSE f[i]]
  <1>6. n \in Nat /\ n - 1 \in 0 .. n - 1 /\ n - 1 \in 0 .. SectorBytes - 1
    BY <1>3, <1>4, SectorBytesFacts
  <1>7. next \in Word
    <2>1. f[n - 1] \in Word /\ data[n - 1] \in Byte
      BY <1>5, <1>6 DEF SumsUpTo, Buffers
    <2>. QED
      BY <2>1, Add16Word
  <1>. HIDE DEF next
  <1>8. SumsUpTo(g, data, n)
    <2>1. g \in [0 .. n -> Word]
      BY <1>5, <1>6, <1>7 DEF SumsUpTo
    <2>2. g[0] = 0
      BY <1>4, <1>5, <1>6 DEF SumsUpTo
    <2>3. ASSUME NEW i \in 1 .. n PROVE g[i] = Add16(g[i - 1], data[i - 1])
      <3>1. CASE i = n
        BY <3>1, <1>6 DEF next
      <3>2. CASE i # n
        BY <3>2, <1>5, <1>6 DEF SumsUpTo
      <3>. QED
        BY <3>1, <3>2
    <2>. QED
      BY <2>1, <2>2, <2>3 DEF SumsUpTo
  <1>. QED
    BY <1>3, <1>8

\* What the recursive definition says: the empty sum is zero and each byte
\* adds its value to a 16-bit sum.
LEMMA PartialSumEquations ==
  ASSUME NEW data \in Buffers
  PROVE  /\ partialSum(data)[0] = 0
         /\ \A n \in 1 .. SectorBytes :
              partialSum(data)[n] = Add16(partialSum(data)[n - 1], data[n - 1])
PROOF
  <1>. DEFINE Sum(f) == [n \in 0 .. SectorBytes |->
                          IF n = 0 THEN 0 ELSE Add16(f[n - 1], data[n - 1])]
  <1>1. PICK f : SumsUpTo(f, data, SectorBytes)
    BY SumExists
  <1>2. f = Sum(f)
    <2>1. f = [n \in 0 .. SectorBytes |-> f[n]]
      BY <1>1 DEF SumsUpTo
    <2>2. ASSUME NEW n \in 0 .. SectorBytes PROVE f[n] = Sum(f)[n]
      <3>1. n = 0 \/ n \in 1 .. SectorBytes
        BY SectorBytesFacts
      <3>. QED
        BY <3>1, <1>1 DEF SumsUpTo
    <2>. QED
      BY <2>1, <2>2
  <1>3. partialSum(data) = CHOOSE g : g = Sum(g)
    BY DEF partialSum
  <1>4. partialSum(data) = Sum(partialSum(data))
    <2>. HIDE DEF Sum
    <2>. QED
      BY <1>2, <1>3, Zenon
  <1>. DEFINE partial == partialSum(data)
              next(n) == Add16(partial[n - 1], data[n - 1])
  <1>5. partial = [n \in 0 .. SectorBytes |-> IF n = 0 THEN 0 ELSE next(n)]
    BY <1>4, Zenon
  <1>. HIDE DEF partial, next
  <1>6. partial[0] = 0
    <2>1. 0 \in 0 .. SectorBytes
      BY SectorBytesFacts
    <2>. QED
      BY <2>1, <1>5
  <1>7. ASSUME NEW n \in 1 .. SectorBytes
        PROVE  partial[n] = next(n)
    <2>1. n \in 0 .. SectorBytes /\ n # 0
      BY SectorBytesFacts
    <2>. QED
      BY <2>1, <1>5, Zenon
  <1>. QED
    BY <1>6, <1>7, Zenon DEF partial, next

\* A partial sum is a 16-bit word.
LEMMA PartialSumWord ==
  ASSUME NEW data \in Buffers, NEW n \in 0 .. SectorBytes
  PROVE  partialSum(data)[n] \in Word
PROOF
  <1>. DEFINE partial == partialSum(data)
              T == {m \in 0 .. SectorBytes : partial[m] \notin Word}
  <1>1. SUFFICES ASSUME T # {} PROVE FALSE
    OBVIOUS
  <1>2. PICK m \in T : \A k \in T : m <= k
    <2>1. T \subseteq Nat
      BY SectorBytesFacts
    <2>. QED
      BY <1>1, <2>1, SmallestNat
  <1>3. m \in 0 .. SectorBytes /\ partial[m] \notin Word
    BY <1>2
  <1>4. m # 0
    <2>1. partial[0] = 0
      BY PartialSumEquations
    <2>. QED
      BY <2>1, <1>3, ZeroWord
  <1>5. m \in 1 .. SectorBytes /\ m - 1 \in 0 .. SectorBytes - 1
        /\ m - 1 \in 0 .. SectorBytes /\ ~(m <= m - 1)
    BY <1>3, <1>4, SectorBytesFacts
  <1>6. partial[m - 1] \in Word
    BY <1>2, <1>5
  <1>7. data[m - 1] \in Byte
    BY <1>5 DEF Buffers
  <1>8. partial[m] = Add16(partial[m - 1], data[m - 1])
    BY <1>5, PartialSumEquations
  <1>. QED
    BY <1>3, <1>6, <1>7, <1>8, Add16Word

\* The sum of the first n bytes depends on no other byte.
LEMMA PartialSumPrefix ==
  ASSUME NEW one \in Buffers, NEW other \in Buffers, NEW n \in 0 .. SectorBytes,
         \A i \in 0 .. n - 1 : one[i] = other[i]
  PROVE  partialSum(one)[n] = partialSum(other)[n]
PROOF
  <1>. DEFINE T == {m \in 0 .. n : partialSum(one)[m] # partialSum(other)[m]}
  <1>1. SUFFICES ASSUME T # {} PROVE FALSE
    <2>1. n \in 0 .. n
      BY SectorBytesFacts
    <2>. QED
      BY <2>1
  <1>2. PICK m \in T : \A k \in T : m <= k
    <2>1. n \in Nat
      BY SectorBytesFacts
    <2>2. 0 .. n \subseteq Nat
      BY <2>1
    <2>3. T \subseteq Nat
      BY <2>2
    <2>. QED
      BY <1>1, <2>3, SmallestNat
  <1>3. m \in 0 .. n /\ partialSum(one)[m] # partialSum(other)[m]
    BY <1>2
  <1>4. m # 0
    BY <1>3, PartialSumEquations
  <1>5. m \in 1 .. SectorBytes /\ m - 1 \in 0 .. n - 1
        /\ m - 1 \in 0 .. n /\ ~(m <= m - 1)
    BY <1>3, <1>4, SectorBytesFacts
  <1>6. partialSum(one)[m - 1] = partialSum(other)[m - 1]
    BY <1>2, <1>5
  <1>7. one[m - 1] = other[m - 1]
    BY <1>5
  <1>. QED
    BY <1>3, <1>5, <1>6, <1>7, PartialSumEquations

\* The checksum that travels in two bytes is a 16-bit word.
LEMMA SectorChecksumWord ==
  ASSUME NEW data \in Buffers
  PROVE  sectorChecksum(data) \in Word
PROOF
  <1>1. SectorBytes \in 0 .. SectorBytes
    BY SectorBytesFacts
  <1>. QED
    BY <1>1, PartialSumWord DEF sectorChecksum

-----------------------------------------------------------------------------
(* Addresses.                                                              *)

\* A sector's number in the image, and the image's size in sectors.
SectorNumber(track, sector) == track * SectorsPerTrack + (sector - 1)
ImageSectors == Tracks * SectorsPerTrack

\* A valid address is the number of one of the image's sectors.
LEMMA SectorNumberInImage ==
  ASSUME NEW track \in Nat, NEW sector \in Nat, validAddress(track, sector)
  PROVE  /\ SectorNumber(track, sector) \in Nat
         /\ ImageSectors \in Nat
         /\ SectorNumber(track, sector) + 1 <= ImageSectors
PROOF
  <1>. DEFINE S == SectorsPerTrack
  <1>1. S \in Nat /\ Tracks \in Nat /\ S >= 1
    BY GeometryAssumption
  <1>2. track + 1 <= Tracks /\ sector - 1 \in Nat /\ sector <= S
    BY <1>1 DEF validAddress
  <1>. HIDE DEF S
  <1>3. track * S \in Nat /\ Tracks * S \in Nat
    BY <1>1
  <1>4. (track + 1) * S <= Tracks * S
    BY <1>1, <1>2
  <1>5. (track + 1) * S = track * S + S
    BY <1>1
  <1>. DEFINE a == track * S
              b == Tracks * S
  <1>6. a \in Nat /\ b \in Nat /\ a + S <= b
    BY <1>1, <1>3, <1>4, <1>5
  <1>. HIDE DEF a, b
  <1>7. a + (sector - 1) \in Nat /\ a + (sector - 1) + 1 <= b
    BY <1>1, <1>2, <1>6
  <1>. QED
    BY <1>6, <1>7 DEF a, b, S, SectorNumber, ImageSectors

\* SdStorage never refuses an address that the engine found valid: the whole
\* sector lies inside the image, for every geometry.
LEMMA ValidAddressInImage ==
  ASSUME NEW track \in Nat, NEW sector \in Nat, validAddress(track, sector)
  PROVE  /\ fileOffset(track, sector) \in Nat
         /\ fileOffset(track, sector) <= ImageBytes - SectorBytes
PROOF
  <1>. DEFINE n == SectorNumber(track, sector)
              m == ImageSectors
              B == SectorBytes
  <1>1. n \in Nat /\ m \in Nat /\ n + 1 <= m /\ B \in Nat
    BY SectorNumberInImage, SectorBytesFacts
  <1>2. fileOffset(track, sector) = n * B /\ ImageBytes = m * B
    BY DEF fileOffset, SectorNumber, ImageBytes, ImageSectors
  <1>. HIDE DEF n, m, B
  <1>3. n * B \in Nat /\ m * B \in Nat /\ (n + 1) * B <= m * B
    BY <1>1
  <1>4. (n + 1) * B = n * B + B
    BY <1>1
  <1>5. n * B <= m * B - B
    BY <1>1, <1>3, <1>4
  <1>. QED
    BY <1>2, <1>3, <1>5 DEF B

\* Two valid addresses name the same bytes only if they are the same address.
LEMMA SectorsDoNotOverlap ==
  ASSUME NEW track1 \in Nat, NEW sector1 \in Nat, validAddress(track1, sector1),
         NEW track2 \in Nat, NEW sector2 \in Nat, validAddress(track2, sector2),
         fileOffset(track1, sector1) < fileOffset(track2, sector2) + SectorBytes,
         fileOffset(track2, sector2) < fileOffset(track1, sector1) + SectorBytes
  PROVE  track1 = track2 /\ sector1 = sector2
PROOF
  <1>. DEFINE n1 == SectorNumber(track1, sector1)
              n2 == SectorNumber(track2, sector2)
              B == SectorBytes
              S == SectorsPerTrack
  <1>1. n1 \in Nat /\ n2 \in Nat /\ B \in Nat /\ B >= 1 /\ S \in Nat /\ S >= 1
    BY SectorNumberInImage, SectorBytesFacts, GeometryAssumption
  <1>2. fileOffset(track1, sector1) = n1 * B /\ fileOffset(track2, sector2) = n2 * B
    BY DEF fileOffset, SectorNumber
  <1>3. 1 <= sector1 /\ sector1 <= S /\ 1 <= sector2 /\ sector2 <= S
    BY DEF validAddress
  <1>4. n1 = track1 * S + (sector1 - 1) /\ n2 = track2 * S + (sector2 - 1)
    BY DEF SectorNumber
  <1>. HIDE DEF n1, n2, B, S
  <1>5. ~(n1 + 1 <= n2)
    <2>1. SUFFICES ASSUME n1 + 1 <= n2 PROVE FALSE
      OBVIOUS
    <2>2. (n1 + 1) * B <= n2 * B /\ (n1 + 1) * B = n1 * B + B
          /\ n1 * B \in Nat /\ n2 * B \in Nat
      BY <1>1, <2>1
    <2>3. n2 * B < n1 * B + B
      BY <1>2 DEF B
    <2>. QED
      BY <1>1, <2>2, <2>3
  <1>6. ~(n2 + 1 <= n1)
    <2>1. SUFFICES ASSUME n2 + 1 <= n1 PROVE FALSE
      OBVIOUS
    <2>2. (n2 + 1) * B <= n1 * B /\ (n2 + 1) * B = n2 * B + B
          /\ n1 * B \in Nat /\ n2 * B \in Nat
      BY <1>1, <2>1
    <2>3. n1 * B < n2 * B + B
      BY <1>2 DEF B
    <2>. QED
      BY <1>1, <2>2, <2>3
  <1>7. n1 = n2
    BY <1>1, <1>5, <1>6
  <1>8. ~(track1 + 1 <= track2)
    <2>1. SUFFICES ASSUME track1 + 1 <= track2 PROVE FALSE
      OBVIOUS
    <2>2. (track1 + 1) * S <= track2 * S /\ (track1 + 1) * S = track1 * S + S
          /\ track1 * S \in Nat /\ track2 * S \in Nat
      BY <1>1, <2>1
    <2>. QED
      BY <1>1, <1>3, <1>4, <1>7, <2>2
  <1>9. ~(track2 + 1 <= track1)
    <2>1. SUFFICES ASSUME track2 + 1 <= track1 PROVE FALSE
      OBVIOUS
    <2>2. (track2 + 1) * S <= track1 * S /\ (track2 + 1) * S = track2 * S + S
          /\ track1 * S \in Nat /\ track2 * S \in Nat
      BY <1>1, <2>1
    <2>. QED
      BY <1>1, <1>3, <1>4, <1>7, <2>2
  <1>10. track1 = track2
    BY <1>8, <1>9
  <1>. QED
    BY <1>1, <1>3, <1>4, <1>7, <1>10

-----------------------------------------------------------------------------
(***************************************************************************)
(* What every operation of the request engine preserves, for every         *)
(* geometry, byte and storage status: its type, and the agreement of the   *)
(* running checksum with the bytes that have been buffered.                *)
(***************************************************************************)

\* While a payload arrives, `checksum' is the sum of exactly the bytes that
\* were stored.
PayloadIsSummed(e) ==
  e.state = "Payload" =>
    /\ e.command = CommandWrite
    /\ e.received < SectorBytes
    /\ e.checksum = partialSum(e.buffer)[e.received]

\* Behind it, of the whole buffer.
BufferIsSummed(e) ==
  e.state \in {"ChecksumHigh", "ChecksumLow"} =>
    /\ e.command = CommandWrite
    /\ e.checksum = sectorChecksum(e.buffer)

\* The reply byte that is due exists.
ReplyIsDue(e) ==
  e.state = "Response" =>
    /\ e.outAt < e.outSize
    /\ IF e.readReply THEN e.outSize = SectorBytes + 3 ELSE e.outSize \in {1, 6}

EngineInv(e) == PayloadIsSummed(e) /\ BufferIsSummed(e) /\ ReplyIsDue(e)

-----------------------------------------------------------------------------
(* Bytes.                                                                  *)

LEMMA SmallBytes == 0 .. 18 \subseteq Byte
PROOF
  BY DEF Byte

\* The halves of a word are bytes.
LEMMA WordHalves ==
  ASSUME NEW w \in Word
  PROVE  HighByte(w) \in Byte /\ LowByte(w) \in Byte
PROOF
  <1>1. w \in Nat /\ w < 256 * 256
    <2>1. w \in Nat /\ w < WordSize
      BY WordSizeIsNat DEF Word
    <2>2. WordSize = 256 * 256
      BY WordSizeFacts
    <2>. QED
      BY <2>1, <2>2
  <1>2. w \div 256 \in Byte
    BY <1>1 DEF Byte
  <1>3. w % 256 \in Byte
    BY <1>1 DEF Byte
  <1>. QED
    BY <1>2, <1>3 DEF HighByte, LowByte

\* The checksum bytes on the wire are those of one word only.
LEMMA WordOfHalves ==
  ASSUME NEW w \in Word
  PROVE  w = 256 * HighByte(w) + LowByte(w)
PROOF
  <1>1. w \in Nat
    BY WordSizeIsNat DEF Word
  <1>2. w = 256 * (w \div 256) + (w % 256)
    BY <1>1
  <1>. QED
    BY <1>2 DEF HighByte, LowByte

\* Every status is a byte.
LEMMA StatusBytes ==
  StorageStatuses \cup {BadAddress, BadCommand, BadChecksum} \subseteq Byte
PROOF
  BY SmallBytes DEF StorageStatuses, MountStatuses, Ok, NoCard, NoFilesystem,
     NoImage, BadImage, IoError, BadAddress, BadCommand, BadChecksum

\* The INFO reply fits its six bytes.
LEMMA InfoReplyBytes == InfoReply \in [1 .. 6 -> Byte]
PROOF
  <1>1. SectorBytes \in Word /\ Tracks \in Byte /\ SectorsPerTrack \in Byte
    <2>1. SectorBytes \in Word
      BY SectorBytesFacts DEF Word
    <2>. QED
      BY <2>1, GeometryAssumption DEF Byte
  <1>2. LowByte(SectorBytes) \in Byte /\ HighByte(SectorBytes) \in Byte
    BY <1>1, WordHalves
  <1>3. Ok \in Byte /\ ProtocolVersion \in Byte
    BY SmallBytes DEF Ok, ProtocolVersion
  <1>. QED
    BY <1>1, <1>2, <1>3 DEF InfoReply

-----------------------------------------------------------------------------
(* The engine's operations.                                                *)

\* Any status byte may be answered, from any state.
LEMMA AnswerKeepsEngine ==
  ASSUME NEW e \in Engines, NEW status \in Byte
  PROVE  Answer(e, status) \in Engines /\ EngineInv(Answer(e, status))
PROOF
  <1>. DEFINE a == Answer(e, status)
  <1>1. [e.reply EXCEPT ![1] = status] \in [1 .. 6 -> Byte]
    BY DEF Engines
  <1>2. a \in Engines
    <2>1. 0 \in 0 .. SectorBytes + 5 /\ 1 \in {0, 1, 6, SectorBytes + 3}
      BY GeometryAssumption
    <2>. QED
      BY <1>1, <2>1 DEF Answer, Engines, EngineStates
  <1>3. a.state = "Response" /\ a.outAt = 0 /\ a.outSize = 1 /\ a.readReply = FALSE
    BY DEF Answer, Engines
  <1>. QED
    BY <1>2, <1>3 DEF EngineInv, PayloadIsSummed, BufferIsSummed, ReplyIsDue

\* reset() leaves an engine that waits for a request.
LEMMA ResetKeepsEngine ==
  ASSUME NEW e \in Engines
  PROVE  /\ EngineReset(e) \in Engines
         /\ EngineInv(EngineReset(e))
         /\ Receiving(EngineReset(e))
PROOF
  <1>. DEFINE r == EngineReset(e)
  <1>1. 0 \in 0 .. SectorBytes + 5 /\ 0 \in 0 .. SectorBytes
    BY SectorBytesFacts
  <1>2. r \in Engines
    BY <1>1 DEF EngineReset, Engines, EngineStates
  <1>3. r.state = "SyncA"
    BY DEF EngineReset, Engines
  <1>. QED
    BY <1>2, <1>3
       DEF EngineInv, PayloadIsSummed, BufferIsSummed, ReplyIsDue, Receiving

\* The object that static initialization leaves is such an engine, too.
LEMMA InitialEngineIsEngine ==
  InitialEngine \in Engines /\ EngineInv(InitialEngine) /\ Receiving(InitialEngine)
PROOF
  <1>1. 0 \in 0 .. SectorBytes + 5 /\ 0 \in 0 .. SectorBytes
    BY SectorBytesFacts
  <1>2. 0 \in Byte /\ 0 \in Word
    BY SmallBytes, ZeroWord
  <1>3. [n \in 1 .. 6 |-> 0] \in [1 .. 6 -> Byte]
    BY <1>2
  <1>4. [n \in 0 .. SectorBytes - 1 |-> 0] \in Buffers
    BY <1>2 DEF Buffers
  <1>5. InitialEngine \in Engines
    BY <1>1, <1>2, <1>3, <1>4 DEF InitialEngine, Engines, EngineStates
  <1>6. InitialEngine.state = "SyncA"
    BY DEF InitialEngine
  <1>. QED
    BY <1>5, <1>6
       DEF EngineInv, PayloadIsSummed, BufferIsSummed, ReplyIsDue, Receiving

\* The answer to a READ has SectorBytes + 3 bytes and the sum of its sector.
LEMMA ReadReplyKeepsEngine ==
  ASSUME NEW e \in Engines, NEW data \in Buffers
  PROVE  ReadReply(e, data) \in Engines /\ EngineInv(ReadReply(e, data))
PROOF
  <1>. DEFINE a == Answer(e, Ok)
              r == ReadReply(e, data)
  <1>1. a \in Engines
    BY AnswerKeepsEngine, StatusBytes DEF StorageStatuses, MountStatuses
  <1>2. a.state = "Response" /\ a.outAt = 0
    BY DEF Answer, Engines
  <1>3. sectorChecksum(data) \in Word
    BY SectorChecksumWord
  <1>4. r = [a EXCEPT !.buffer = data, !.checksum = sectorChecksum(data),
                      !.readReply = TRUE, !.outSize = SectorBytes + 3]
    BY DEF ReadReply
  <1>. HIDE DEF a, r
  <1>5. r \in Engines
    BY <1>1, <1>3, <1>4 DEF Engines
  <1>6. r.state = "Response" /\ r.outAt = 0 /\ r.readReply = TRUE
        /\ r.outSize = SectorBytes + 3
    BY <1>1, <1>2, <1>4 DEF Engines
  <1>7. EngineInv(r)
    BY <1>6, SectorBytesFacts
       DEF EngineInv, PayloadIsSummed, BufferIsSummed, ReplyIsDue
  <1>. QED
    BY <1>5, <1>7 DEF r

\* Consuming a reply byte moves to the next one, or to the next request.
LEMMA AcknowledgeKeepsEngine ==
  ASSUME NEW e \in Engines, EngineInv(e)
  PROVE  /\ AcknowledgeResponse(e) \in Engines
         /\ EngineInv(AcknowledgeResponse(e))
PROOF
  <1>1. CASE Receiving(e)
    BY <1>1 DEF AcknowledgeResponse
  <1>2. CASE ~Receiving(e) /\ e.outAt + 1 = e.outSize
    BY <1>2, ResetKeepsEngine DEF AcknowledgeResponse
  <1>3. CASE ~Receiving(e) /\ e.outAt + 1 # e.outSize
    <2>. DEFINE a == [e EXCEPT !.outAt = @ + 1]
    <2>1. AcknowledgeResponse(e) = a
      BY <1>3 DEF AcknowledgeResponse
    <2>2. e.state = "Response" /\ e.outAt < e.outSize
      BY <1>3 DEF Receiving, EngineInv, ReplyIsDue
    <2>3. e.outAt \in Nat /\ e.outSize \in Nat /\ e.outSize <= SectorBytes + 5
      BY SectorBytesFacts DEF Engines
    <2>4. e.outAt + 1 < e.outSize /\ e.outAt + 1 \in 0 .. SectorBytes + 5
      BY <1>3, <2>2, <2>3, SectorBytesFacts
    <2>5. a \in Engines
      BY <2>4 DEF Engines
    <2>6. /\ a.state = "Response" /\ a.outAt = e.outAt + 1
          /\ a.outSize = e.outSize /\ a.readReply = e.readReply
      BY <2>2 DEF Engines
    <2>. HIDE DEF a
    <2>7. EngineInv(a)
      BY <2>2, <2>4, <2>6
         DEF EngineInv, PayloadIsSummed, BufferIsSummed, ReplyIsDue
    <2>. QED
      BY <2>1, <2>5, <2>7
  <1>. QED
    BY <1>1, <1>2, <1>3

\* While an engine answers, there is a byte to publish.
LEMMA ResponseByteIsByte ==
  ASSUME NEW e \in Engines, EngineInv(e), ~Receiving(e)
  PROVE  ResponseByte(e) \in Byte
PROOF
  <1>1. /\ e.outAt \in Nat /\ e.outAt < e.outSize
        /\ IF e.readReply THEN e.outSize = SectorBytes + 3 ELSE e.outSize \in {1, 6}
    BY SectorBytesFacts DEF Receiving, EngineInv, ReplyIsDue, Engines
  <1>2. e.reply \in [1 .. 6 -> Byte] /\ e.buffer \in [0 .. SectorBytes - 1 -> Byte]
        /\ e.checksum \in Word /\ e.readReply \in BOOLEAN
    BY DEF Engines, Buffers
  <1>3. CASE ~e.readReply \/ e.outAt = 0
    <2>1. e.outAt + 1 \in 1 .. 6
      BY <1>1, <1>3
    <2>2. /\ ~(e.readReply /\ e.outAt \in 1 .. SectorBytes)
          /\ ~(e.readReply /\ e.outAt = SectorBytes + 1)
          /\ ~(e.readReply /\ e.outAt > SectorBytes + 1)
      BY <1>3, SectorBytesFacts
    <2>3. ResponseByte(e) = e.reply[e.outAt + 1]
      BY <1>3, <2>2, Zenon DEF ResponseByte
    <2>. QED
      BY <1>2, <2>1, <2>3
  <1>4. CASE e.readReply /\ e.outAt \in 1 .. SectorBytes
    <2>1. /\ e.outAt - 1 \in 0 .. SectorBytes - 1 /\ e.outAt # 0
          /\ e.outAt # SectorBytes + 1 /\ ~(e.outAt > SectorBytes + 1)
      BY <1>4, SectorBytesFacts
    <2>2. ResponseByte(e) = e.buffer[e.outAt - 1]
      BY <1>4, <2>1, Zenon DEF ResponseByte
    <2>. QED
      BY <1>2, <2>1, <2>2
  <1>5. CASE e.readReply /\ e.outAt = SectorBytes + 1
    <2>1. /\ e.outAt # 0 /\ e.outAt \notin 1 .. SectorBytes
          /\ ~(e.outAt > SectorBytes + 1)
      BY <1>5, SectorBytesFacts
    <2>2. ResponseByte(e) = HighByte(e.checksum)
      BY <1>5, <2>1, Zenon DEF ResponseByte
    <2>. QED
      BY <1>2, <2>2, WordHalves
  <1>6. CASE e.readReply /\ e.outAt > SectorBytes + 1
    <2>1. e.outAt # 0 /\ e.outAt \notin 1 .. SectorBytes /\ e.outAt # SectorBytes + 1
      BY <1>6, <1>1, SectorBytesFacts
    <2>2. ResponseByte(e) = LowByte(e.checksum)
      BY <1>6, <2>1, Zenon DEF ResponseByte
    <2>. QED
      BY <1>2, <2>2, WordHalves
  <1>7. \/ e.outAt = 0 \/ e.outAt \in 1 .. SectorBytes
        \/ e.outAt = SectorBytes + 1 \/ e.outAt > SectorBytes + 1
    BY <1>1, SectorBytesFacts
  <1>. QED
    BY <1>2, <1>3, <1>4, <1>5, <1>6, <1>7

\* A payload byte is stored behind the others and added to their sum.
LEMMA PayloadByteKeepsEngine ==
  ASSUME NEW e \in Engines, EngineInv(e), e.state = "Payload", NEW value \in Byte
  PROVE  PayloadByte(e, value) \in Engines /\ EngineInv(PayloadByte(e, value))
PROOF
  <1>. DEFINE r == PayloadByte(e, value)
              n == e.received
              buffer == [e.buffer EXCEPT ![n] = value]
              total == Add16(e.checksum, value)
  <1>1. /\ e.command = CommandWrite /\ e.checksum = partialSum(e.buffer)[n]
        /\ n \in 0 .. SectorBytes - 1 /\ n + 1 \in 1 .. SectorBytes
        /\ n \in 0 .. SectorBytes /\ n + 1 \in 0 .. SectorBytes /\ (n + 1) - 1 = n
        /\ (n + 1 # SectorBytes => n + 1 < SectorBytes)
    BY SectorBytesFacts DEF EngineInv, PayloadIsSummed, Engines
  <1>2. buffer \in Buffers /\ buffer[n] = value
        /\ \A i \in 0 .. n - 1 : buffer[i] = e.buffer[i]
    BY <1>1, SectorBytesFacts DEF Engines, Buffers
  <1>3. total \in Word
    BY Add16Word DEF Engines
  <1>4. partialSum(buffer)[n + 1] = total
    <2>. HIDE DEF buffer, n
    <2>0. e.buffer \in Buffers
      BY DEF Engines
    <2>1. partialSum(buffer)[n] = e.checksum
      BY <2>0, <1>1, <1>2, PartialSumPrefix
    <2>2. partialSum(buffer)[n + 1] = Add16(partialSum(buffer)[(n + 1) - 1],
                                            buffer[(n + 1) - 1])
      BY <1>1, <1>2, PartialSumEquations
    <2>. QED
      BY <1>1, <1>2, <2>1, <2>2
  <1>. DEFINE next == IF n + 1 = SectorBytes THEN "ChecksumHigh" ELSE "Payload"
  <1>5. r = [e EXCEPT !.buffer = buffer, !.received = n + 1,
                      !.checksum = total, !.state = next]
    BY DEF PayloadByte
  <1>. HIDE DEF buffer, total, n, next, r
  <1>6. next \in EngineStates
    BY DEF next, EngineStates
  <1>7. r \in Engines
    BY <1>1, <1>2, <1>3, <1>5, <1>6 DEF Engines
  <1>8. r.buffer = buffer /\ r.received = n + 1 /\ r.checksum = total
        /\ r.state = next /\ r.command = e.command
    BY <1>5 DEF Engines
  <1>9. EngineInv(r)
    <2>1. CASE n + 1 = SectorBytes
      <3>1. r.state = "ChecksumHigh"
        BY <2>1, <1>8 DEF next
      <3>2. r.checksum = sectorChecksum(r.buffer)
        BY <2>1, <1>4, <1>8 DEF sectorChecksum
      <3>. QED
        BY <3>1, <3>2, <1>1, <1>8
           DEF EngineInv, PayloadIsSummed, BufferIsSummed, ReplyIsDue
    <2>2. CASE n + 1 # SectorBytes
      <3>1. r.state = "Payload"
        BY <2>2, <1>8 DEF next
      <3>. QED
        BY <2>2, <3>1, <1>1, <1>4, <1>8
           DEF EngineInv, PayloadIsSummed, BufferIsSummed, ReplyIsDue
    <2>. QED
      BY <2>1, <2>2
  <1>. QED
    BY <1>7, <1>9 DEF r

\* A sector call is refused with a status, or goes on with the card mounted.
LEMMA SectorCallKeepsEngine ==
  ASSUME NEW e \in Engines, EngineInv(e), e.state # "Response",
         NEW status \in StorageStatuses
  PROVE  /\ SectorCall(e, status) \in Engines
         /\ EngineInv(SectorCall(e, status))
         /\ SectorCall(e, status).state # "Response" =>
              SectorCall(e, status) = e /\ status = Ok
PROOF
  <1>. DEFINE refusal == StorageRefusal(e.track, e.sector, status)
  <1>1. refusal \in Byte
    BY StatusBytes DEF StorageRefusal, StorageStatuses, MountStatuses
  <1>2. refusal = Ok => status = Ok
    BY DEF StorageRefusal, BadAddress, Ok
  <1>. HIDE DEF refusal
  <1>3. SectorCall(e, status) = IF refusal = Ok THEN e ELSE Answer(e, refusal)
    BY DEF SectorCall, refusal
  <1>4. Answer(e, refusal).state = "Response"
    BY DEF Answer, Engines
  <1>. QED
    BY <1>1, <1>2, <1>3, <1>4, AnswerKeepsEngine

\* The INFO reply.
LEMMA InfoKeepsEngine ==
  ASSUME NEW e \in Engines
  PROVE  LET r == [Answer(e, Ok) EXCEPT !.reply = InfoReply, !.outSize = 6]
         IN  r \in Engines /\ EngineInv(r) /\ r.state = "Response"
PROOF
  <1>. DEFINE a == Answer(e, Ok)
              r == [a EXCEPT !.reply = InfoReply, !.outSize = 6]
  <1>1. a \in Engines
    BY AnswerKeepsEngine, StatusBytes DEF StorageStatuses, MountStatuses
  <1>2. a.state = "Response" /\ a.outAt = 0 /\ a.readReply = FALSE
    BY DEF Answer, Engines
  <1>. HIDE DEF a
  <1>3. r \in Engines
    BY <1>1, InfoReplyBytes DEF Engines
  <1>4. r.state = "Response" /\ r.outAt = 0 /\ r.outSize = 6 /\ r.readReply = FALSE
    BY <1>1, <1>2 DEF Engines
  <1>. HIDE DEF r
  <1>5. EngineInv(r)
    BY <1>4 DEF EngineInv, PayloadIsSummed, BufferIsSummed, ReplyIsDue
  <1>. QED
    BY <1>3, <1>4, <1>5 DEF r, a

\* A WRITE header starts an empty payload with an empty sum.
LEMMA StartPayloadKeepsEngine ==
  ASSUME NEW e \in Engines, e.command = CommandWrite
  PROVE  /\ StartPayload(e) \in Engines
         /\ EngineInv(StartPayload(e))
         /\ StartPayload(e).state = "Payload"
PROOF
  <1>. DEFINE r == StartPayload(e)
  <1>1. 0 \in 0 .. SectorBytes /\ 0 < SectorBytes
    BY SectorBytesFacts
  <1>2. r \in Engines
    BY <1>1, ZeroWord DEF StartPayload, Engines, EngineStates
  <1>3. r.state = "Payload" /\ r.received = 0 /\ r.checksum = 0
        /\ r.command = CommandWrite /\ r.buffer = e.buffer
    BY DEF StartPayload, Engines
  <1>4. partialSum(r.buffer)[r.received] = r.checksum
    <2>1. e.buffer \in Buffers
      BY DEF Engines
    <2>2. partialSum(e.buffer)[0] = 0
      BY <2>1, PartialSumEquations
    <2>. QED
      BY <1>3, <2>2
  <1>. QED
    BY <1>1, <1>2, <1>3, <1>4
       DEF EngineInv, PayloadIsSummed, BufferIsSummed, ReplyIsDue

\* dispatch() answers, starts a payload, or calls a mounted storage; it reads
\* only from a valid address.
LEMMA DispatchKeepsEngine ==
  ASSUME NEW e \in Engines, EngineInv(e), e.state = "Sector",
         NEW status \in StorageStatuses
  PROVE  /\ Dispatch(e, status) \in Engines
         /\ EngineInv(Dispatch(e, status))
         /\ Dispatch(e, status).state \in {"Response", "Payload", "Sector"}
         /\ Dispatch(e, status).state = "Sector" =>
              /\ Dispatch(e, status) = e
              /\ e.command = CommandRead => validAddress(e.track, e.sector)
PROOF
  <1>. DEFINE d == Dispatch(e, status)
              info == [Answer(e, Ok) EXCEPT !.reply = InfoReply, !.outSize = 6]
              zero == e.track = 0 /\ e.sector = 0
  <1>1. status \in Byte /\ BadAddress \in Byte /\ BadCommand \in Byte
    BY StatusBytes
  <1>2. ASSUME NEW s \in Byte, d = Answer(e, s)
        PROVE  d \in Engines /\ EngineInv(d) /\ d.state = "Response"
    <2>1. Answer(e, s).state = "Response"
      BY DEF Answer, Engines
    <2>. QED
      BY <1>2, <2>1, AnswerKeepsEngine
  <1>3. CommandRead # CommandWrite /\ CommandInfo \notin {CommandRead, CommandWrite}
        /\ CommandStatus \notin {CommandRead, CommandWrite, CommandInfo}
        /\ CommandSync \notin {CommandRead, CommandWrite, CommandInfo, CommandStatus}
    BY DEF CommandInfo, CommandStatus, CommandRead, CommandWrite, CommandSync
  <1>4. CASE e.command \notin {CommandRead, CommandWrite} /\ ~zero
    <2>1. d = Answer(e, BadAddress)
      BY <1>3, <1>4, Zenon DEF Dispatch
    <2>. QED
      BY <1>1, <1>2, <2>1
  <1>5. CASE e.command = CommandInfo /\ zero
    <2>1. d = info
      BY <1>3, <1>5, Zenon DEF Dispatch
    <2>. QED
      BY <2>1, InfoKeepsEngine
  <1>6. CASE e.command = CommandStatus /\ zero
    <2>1. d = Answer(e, status)
      BY <1>3, <1>6, Zenon DEF Dispatch
    <2>. QED
      BY <1>1, <1>2, <2>1
  <1>7. CASE e.command = CommandRead /\ ~validAddress(e.track, e.sector)
    <2>1. d = Answer(e, BadAddress)
      BY <1>3, <1>7, Zenon DEF Dispatch
    <2>. QED
      BY <1>1, <1>2, <2>1
  <1>8. CASE e.command = CommandRead /\ validAddress(e.track, e.sector)
    <2>1. d = SectorCall(e, status)
      BY <1>3, <1>8, Zenon DEF Dispatch
    <2>2. d.state \in {"Response", "Sector"}
      <3>1. SectorCall(e, status) = e
            \/ SectorCall(e, status).state = "Response"
        BY SectorCallKeepsEngine
      <3>. QED
        BY <2>1, <3>1
    <2>. QED
      BY <1>8, <2>1, <2>2, SectorCallKeepsEngine
  <1>9. CASE e.command = CommandWrite
    <2>1. d = StartPayload(e)
      BY <1>3, <1>9, Zenon DEF Dispatch
    <2>. QED
      BY <1>9, <2>1, StartPayloadKeepsEngine
  <1>10. CASE e.command = CommandSync /\ zero
    <2>1. d = IF status = Ok THEN e ELSE Answer(e, status)
      BY <1>3, <1>10, Zenon DEF Dispatch
    <2>2. CASE status = Ok
      BY <1>3, <1>10, <2>1, <2>2
    <2>3. CASE status # Ok
      BY <1>1, <1>2, <2>1, <2>3
    <2>. QED
      BY <2>2, <2>3
  <1>11. CASE /\ e.command \notin {CommandRead, CommandWrite, CommandInfo,
                                   CommandStatus, CommandSync}
              /\ zero
    <2>1. d = Answer(e, BadCommand)
      BY <1>3, <1>11, Zenon DEF Dispatch
    <2>. QED
      BY <1>1, <1>2, <2>1
  <1>. QED
    BY <1>4, <1>5, <1>6, <1>7, <1>8, <1>9, <1>10, <1>11, Zenon

\* The end of a payload calls storage only for a valid address and a sum that
\* agrees with the two bytes on the wire.
LEMMA FinishPayloadKeepsEngine ==
  ASSUME NEW e \in Engines, EngineInv(e), e.state = "ChecksumLow", NEW low \in Byte,
         NEW status \in StorageStatuses
  PROVE  LET r == FinishPayload(e, low, status)
         IN  /\ r \in Engines
             /\ EngineInv(r)
             /\ r.state # "Response" =>
                  /\ r = e
                  /\ status = Ok
                  /\ validAddress(e.track, e.sector)
                  /\ e.checksum = 256 * e.checksumHigh + low
PROOF
  <1>. DEFINE r == FinishPayload(e, low, status)
              valid == validAddress(e.track, e.sector)
              agrees == e.checksum = 256 * e.checksumHigh + low
  <1>1. ASSUME NEW s \in Byte, r = Answer(e, s)
        PROVE  r \in Engines /\ EngineInv(r) /\ r.state = "Response"
    <2>1. Answer(e, s).state = "Response"
      BY DEF Answer, Engines
    <2>. QED
      BY <1>1, <2>1, AnswerKeepsEngine
  <1>2. /\ ~valid => r = Answer(e, BadAddress)
        /\ valid /\ ~agrees => r = Answer(e, BadChecksum)
        /\ valid /\ agrees => r = SectorCall(e, status)
    <2>. HIDE DEF valid
    <2>. QED
      BY Zenon DEF FinishPayload, valid
  <1>. HIDE DEF valid, agrees, r
  <1>3. /\ r \in Engines
        /\ EngineInv(r)
        /\ r.state # "Response" => r = e /\ status = Ok /\ valid /\ agrees
    <2>1. r.state # "Response" => valid /\ agrees
      BY <1>1, <1>2, StatusBytes
    <2>2. valid /\ agrees /\ r.state # "Response" => r = e /\ status = Ok
      BY <1>2, SectorCallKeepsEngine
    <2>3. r \in Engines /\ EngineInv(r)
      BY <1>1, <1>2, StatusBytes, SectorCallKeepsEngine
    <2>. QED
      BY <2>1, <2>2, <2>3
  <1>. QED
    BY <1>3 DEF r, valid, agrees

\* The state an engine keeps while it waits in a storage call.
CallIsLegal(e) ==
  /\ e.state \in {"Sector", "ChecksumLow"}
  /\ StorageCall(e) \in {"read", "write"} => validAddress(e.track, e.sector)

\* A WRITE that reaches storage has been verified.
WriteIsVerified(e, value, status) ==
  /\ e.command = CommandWrite
  /\ validAddress(e.track, e.sector)
  /\ status = Ok
  /\ 256 * e.checksumHigh + value = sectorChecksum(e.buffer)

\* Every byte leaves an engine in order, and one that calls storage legally.
LEMMA ReceiveKeepsEngine ==
  ASSUME NEW e \in Engines, EngineInv(e), Receiving(e), NEW value \in Byte,
         NEW status \in StorageStatuses
  PROVE  LET r == Receive(e, value, status)
         IN  /\ r \in Engines
             /\ EngineInv(r)
             /\ CallsStorage(e, value, status) =>
                  /\ CallIsLegal(r)
                  /\ StorageCall(r) = "write" =>
                       r.buffer = e.buffer /\ WriteIsVerified(e, value, status)
PROOF
  <1>. DEFINE r == Receive(e, value, status)
  <1>0. e.state \in EngineStates \ {"Response"}
    BY DEF Engines, Receiving
  <1>1. ASSUME NEW s \in EngineStates \ {"Payload", "Response", "ChecksumHigh", "ChecksumLow"},
               r = [e EXCEPT !.state = s]
        PROVE  r \in Engines /\ EngineInv(r)
    <2>1. r \in Engines /\ r.state = s
      BY <1>1 DEF Engines
    <2>. QED
      BY <2>1 DEF EngineInv, PayloadIsSummed, BufferIsSummed, ReplyIsDue
  <1>2. CASE e.state = "SyncA"
    <2>1. r = IF value = SyncFirst THEN [e EXCEPT !.state = "SyncB"] ELSE e
      BY <1>2 DEF Receive
    <2>2. ~CallsStorage(e, value, status)
      BY <1>2 DEF CallsStorage
    <2>. QED
      BY <1>1, <2>1, <2>2 DEF EngineStates
  <1>3. CASE e.state = "SyncB"
    <2>1. \E s \in {"Opcode", "SyncB", "SyncA"} : r = [e EXCEPT !.state = s]
      BY <1>3 DEF Receive
    <2>2. ~CallsStorage(e, value, status)
      BY <1>3 DEF CallsStorage
    <2>. QED
      BY <1>1, <2>1, <2>2 DEF EngineStates
  <1>4. CASE e.state \in {"Opcode", "Track", "ChecksumHigh"}
    <2>1. ~CallsStorage(e, value, status)
      BY <1>4 DEF CallsStorage
    <2>2. r \in Engines
      BY <1>4 DEF Receive, Engines, EngineStates
    <2>3. CASE e.state = "ChecksumHigh"
      <3>1. r.state = "ChecksumLow" /\ r.command = e.command
            /\ r.checksum = e.checksum /\ r.buffer = e.buffer
        BY <2>3 DEF Receive, Engines
      <3>. QED
        BY <2>1, <2>2, <2>3, <3>1
           DEF EngineInv, PayloadIsSummed, BufferIsSummed, ReplyIsDue
    <2>4. CASE e.state # "ChecksumHigh"
      <3>1. r.state \in {"Track", "Sector"}
        BY <1>4, <2>4 DEF Receive, Engines
      <3>. QED
        BY <2>1, <2>2, <3>1
           DEF EngineInv, PayloadIsSummed, BufferIsSummed, ReplyIsDue
    <2>. QED
      BY <2>3, <2>4
  <1>5. CASE e.state = "Sector"
    <2>. DEFINE h == [e EXCEPT !.sector = value]
    <2>1. h \in Engines /\ h.state = "Sector" /\ h.command = e.command
      BY <1>5 DEF Engines
    <2>. HIDE DEF h
    <2>2. EngineInv(h)
      BY <2>1 DEF EngineInv, PayloadIsSummed, BufferIsSummed, ReplyIsDue
    <2>3. r = Dispatch(h, status)
      BY <1>5 DEF Receive, h
    <2>. HIDE DEF r
    <2>4. /\ r \in Engines /\ EngineInv(r)
          /\ r.state = "Sector" =>
               r = h /\ (h.command = CommandRead => validAddress(h.track, h.sector))
      BY <2>1, <2>2, <2>3, DispatchKeepsEngine
    <2>5. ASSUME CallsStorage(e, value, status)
          PROVE  CallIsLegal(r) /\ StorageCall(r) # "write"
      <3>1. r.state = "Sector"
        BY <1>5, <2>5 DEF CallsStorage, r
      <3>. QED
        BY <2>1, <2>4, <3>1 DEF CallIsLegal, StorageCall
    <2>. QED
      BY <2>4, <2>5 DEF r
  <1>6. CASE e.state = "Payload"
    <2>1. r = PayloadByte(e, value)
      BY <1>6 DEF Receive
    <2>2. ~CallsStorage(e, value, status)
      BY <1>6 DEF CallsStorage
    <2>. QED
      BY <1>6, <2>1, <2>2, PayloadByteKeepsEngine
  <1>7. CASE e.state = "ChecksumLow"
    <2>1. r = FinishPayload(e, value, status)
      BY <1>7 DEF Receive
    <2>. HIDE DEF r
    <2>2. /\ r \in Engines /\ EngineInv(r)
          /\ r.state # "Response" =>
               /\ r = e /\ status = Ok /\ validAddress(e.track, e.sector)
               /\ e.checksum = 256 * e.checksumHigh + value
      BY <1>7, <2>1, FinishPayloadKeepsEngine
    <2>3. e.command = CommandWrite /\ e.checksum = sectorChecksum(e.buffer)
      BY <1>7 DEF EngineInv, BufferIsSummed
    <2>4. ASSUME CallsStorage(e, value, status)
          PROVE  /\ CallIsLegal(r) /\ r.buffer = e.buffer
                 /\ WriteIsVerified(e, value, status)
      <3>1. r.state = "ChecksumLow"
        BY <1>7, <2>4 DEF CallsStorage, r
      <3>. QED
        BY <2>2, <2>3, <3>1 DEF CallIsLegal, WriteIsVerified
    <2>. QED
      BY <2>2, <2>4 DEF r
  <1>. QED
    BY <1>0, <1>2, <1>3, <1>4, <1>5, <1>6, <1>7 DEF EngineStates

-----------------------------------------------------------------------------
(* The script.                                                             *)

WritePhases == {"payload", "sumHigh", "sumLow", "writeStatus"}
ReadPhases == {"readStatus", "data", "dataHigh", "dataLow"}

Putting == hostPc \in {"put", "strobing", "waitAck"}
Getting == hostPc \in {"waitReady", "consuming"}
Talking == Putting \/ Getting

\* The bytes of a phase.
LastIndex(p) ==
  CASE p \in HeaderPhases -> 4
    [] p \in {"payload", "data"} -> SectorBytes - 1
    [] p \in {"infoReply", "infoDrain"} -> 5
    [] OTHER -> 0

\* The phases of a call in which its kind is not any.
Fits(call, p) ==
  /\ p \in WritePhases => call.kind = "write"
  /\ p \in ReadPhases => call.kind = "read"
  /\ p = "command" => call.kind # "ready"

\* Where in its script a call is that puts and gets bytes.
ScriptInv ==
  Talking =>
    /\ ~BadCallAddress(op)
    /\ Putting => phase \in PutPhases
    /\ Getting => phase \in GetPhases
    /\ index \in 0 .. LastIndex(phase)
    /\ Fits(op, phase)

\* SDSUM is the sum of what has been sent, or received, of the sector.
SumInv ==
  Talking =>
    /\ phase \in {"command", "readStatus"} => sum = 0
    /\ phase = "payload" =>
         sum = partialSum(op.data)[IF hostPc = "put" THEN index ELSE index + 1]
    /\ phase \in {"sumHigh", "sumLow"} => sum = sectorChecksum(op.data)
    /\ phase = "data" => sum = partialSum(sdBuffer)[index]
    /\ phase \in {"dataHigh", "dataLow"} => sum = sectorChecksum(sdBuffer)

HostInv ==
  /\ HostTypeOK
  /\ hostPc = "idle" <=> result # Pending
  /\ ScriptInv
  /\ SumInv

-----------------------------------------------------------------------------
(* Facts about the script.                                                 *)

LEMMA Codes ==
  /\ Ok = 0 /\ FailCode = 16 /\ ChecksumCode = 8 /\ NoResult = 256 /\ Pending = 257
  /\ Ok \in Byte
PROOF
  BY DEF Ok, FailCode, ChecksumCode, NoResult, Pending, Byte

\* The two strobe lines.
LEMMA LineSets ==
  /\ "receive" # "consume"
  /\ Lines \ {"receive"} = {"consume"} /\ Lines \ {"consume"} = {"receive"}
  /\ {"consume"} \cup {"receive"} = Lines /\ {"receive"} \cup {"consume"} = Lines
  /\ Lines \cap {"consume"} = {"consume"} /\ Lines \cap {"receive"} = {"receive"}
  /\ Lines \ {} = Lines
  /\ Lines # {"consume"} /\ Lines # {"receive"} /\ {"receive"} # {"consume"}
  /\ "receive" \in Lines /\ "consume" \in Lines
  /\ "receive" \notin {"consume"} /\ "consume" \notin {"receive"}
PROOF
  BY DEF Lines

\* Remainders of what is at most once too large.
LEMMA SmallRemainders ==
  ASSUME NEW n \in Nat
  PROVE  /\ n < 256 => n % 256 = n
         /\ n = 256 => n % 256 = 0
         /\ n < 65536 => n % 65536 = n
         /\ n >= 65536 /\ n < 131072 => n % 65536 = n - 65536
PROOF
  OBVIOUS

\* A word that is the sum of a high byte and of two low bytes, and such a sum by bytes.
IsSum(word, high, low) == high < 256 /\ low < 511 /\ word = 256 * high + low
ByBytes(high, low) ==
  IF low < 256 THEN 256 * high + low ELSE 256 * ((high + 1) % 256) + (low - 256)

\* Adding by bytes is adding by words, which wrap.
LEMMA SumByBytes ==
  ASSUME NEW high \in Nat, NEW low \in Nat, NEW word \in Nat, IsSum(word, high, low)
  PROVE  word % WordSize = ByBytes(high, low)
PROOF
  <1>. USE DEF IsSum
  <1>1. CASE low < 256
    BY <1>1, SmallRemainders DEF WordSize, ByBytes
  <1>2. CASE low >= 256 /\ high < 255
    <2>1. PICK next \in Nat : next = high + 1
      OBVIOUS
    <2>2. next % 256 = next
      BY <1>2, <2>1, SmallRemainders
    <2>3. word < 65536
      BY <1>2
    <2>4. word % WordSize = word
      BY <2>3, SmallRemainders DEF WordSize
    <2>5. word = 256 * next + (low - 256)
      BY <2>1
    <2>. QED
      BY <1>2, <2>1, <2>2, <2>4, <2>5 DEF ByBytes
  <1>3. CASE low >= 256 /\ high = 255
    <2>1. PICK next \in Nat : next = high + 1 /\ next = 256
      BY <1>3
    <2>2. next % 256 = 0
      BY <2>1, SmallRemainders
    <2>3. word >= 65536 /\ word < 131072
      BY <1>3
    <2>4. word % WordSize = word - 65536
      BY <2>3, SmallRemainders DEF WordSize
    <2>5. word - 65536 = 256 * 0 + (low - 256)
      BY <1>3
    <2>. QED
      BY <1>3, <2>1, <2>2, <2>4, <2>5 DEF ByBytes
  <1>. QED
    BY <1>1, <1>2, <1>3

\* SDADD carries from one byte to the other what the engine adds as a word.
LEMMA SdAddIsAdd16 ==
  ASSUME NEW total \in Word, NEW value \in Byte
  PROVE  SdAdd(total, value) = Add16(total, value)
PROOF
  <1>1. PICK high \in Nat : high = HighByte(total) /\ high < 256
    BY WordHalves DEF Byte
  <1>2. PICK low \in Nat : low = LowByte(total) + value /\ low < 511
    BY WordHalves DEF Byte
  <1>3. PICK word \in Nat : word = total + value /\ word = 256 * high + low
    BY <1>1, <1>2, WordHalves, WordOfHalves DEF Byte
  <1>4. SdAdd(total, value) = ByBytes(HighByte(total), LowByte(total) + value)
    BY Zenon DEF SdAdd, ByBytes
  <1>5. Add16(total, value) = word % WordSize
    BY <1>3, Zenon DEF Add16
  <1>6. IsSum(word, high, low)
    BY <1>1, <1>2, <1>3 DEF IsSum
  <1>7. word % WordSize = ByBytes(high, low)
    BY <1>6, SumByBytes, Zenon
  <1>. QED
    BY <1>1, <1>2, <1>4, <1>5, <1>7, Zenon

\* The header that is sent for a call in a phase.
CommandOf(call, p) ==
  CASE p = "info" -> CommandInfo
    [] p = "mount" -> CommandStatus
    [] OTHER -> IF call.kind = "write" THEN CommandWrite ELSE CommandRead
TrackOf(call, p) == IF p = "command" THEN call.track ELSE 0
SectorOf(call, p) == IF p = "command" THEN call.sector ELSE 0

\* The byte of a phase, for a sum of the payload.
ByteOf(call, p, i, total) ==
  CASE p \in HeaderPhases /\ i = 0 -> SyncFirst
    [] p \in HeaderPhases /\ i = 1 -> SyncSecond
    [] p \in HeaderPhases /\ i = 2 -> CommandOf(call, p)
    [] p \in HeaderPhases /\ i = 3 -> TrackOf(call, p)
    [] p \in HeaderPhases /\ i = 4 -> SectorOf(call, p)
    [] p = "payload" -> call.data[i]
    [] p = "sumHigh" -> HighByte(total)
    [] p = "sumLow" -> LowByte(total)

\* The transport puts these bytes.
LEMMA OutgoingByteIs ==
  ASSUME HostTypeOK, phase \in PutPhases, index \in 0 .. LastIndex(phase)
  PROVE  /\ OutgoingByte = ByteOf(op, phase, index, sum)
         /\ OutgoingByte \in Byte
PROOF
  <1>1. op \in Calls /\ sum \in Word /\ op.data \in Buffers
        /\ op.track \in Byte /\ op.sector \in Byte
    BY DEF HostTypeOK, Calls
  <1>2. CASE phase \in HeaderPhases
    <2>1. index \in 0 .. 4
      BY <1>2 DEF LastIndex, HeaderPhases
    <2>2. Header = <<SyncFirst, SyncSecond, CommandOf(op, phase), TrackOf(op, phase),
                     SectorOf(op, phase)>>
      BY <1>2 DEF Header, CommandOf, TrackOf, SectorOf, HeaderPhases
    <2>3. OutgoingByte = Header[index + 1]
      BY <1>2 DEF OutgoingByte, HeaderPhases
    <2>4. index = 0 \/ index = 1 \/ index = 2 \/ index = 3 \/ index = 4
      BY <2>1
    <2>5. OutgoingByte = ByteOf(op, phase, index, sum)
      BY <1>2, <2>2, <2>3, <2>4 DEF ByteOf, HeaderPhases
    <2>6. CommandOf(op, phase) \in Byte
      BY DEF CommandOf, CommandInfo, CommandStatus, CommandRead, CommandWrite, Byte
    <2>7. TrackOf(op, phase) \in Byte /\ SectorOf(op, phase) \in Byte
      BY <1>1 DEF TrackOf, SectorOf, Byte
    <2>8. SyncFirst \in Byte /\ SyncSecond \in Byte
      BY DEF SyncFirst, SyncSecond, Byte
    <2>. QED
      BY <2>2, <2>3, <2>4, <2>5, <2>6, <2>7, <2>8
  <1>3. CASE phase = "payload"
    <2>1. index \in 0 .. SectorBytes - 1
      BY <1>3 DEF LastIndex, HeaderPhases
    <2>2. op.data[index] \in Byte
      BY <1>1, <2>1 DEF Buffers
    <2>. QED
      BY <1>3, <2>2 DEF OutgoingByte, ByteOf, HeaderPhases
  <1>4. CASE phase \in {"sumHigh", "sumLow"}
    <2>1. HighByte(sum) \in Byte /\ LowByte(sum) \in Byte
      BY <1>1, WordHalves
    <2>. QED
      BY <1>4, <2>1 DEF OutgoingByte, ByteOf, HeaderPhases
  <1>. QED
    BY <1>2, <1>3, <1>4 DEF PutPhases, HeaderPhases

\* Where the transport puts or gets the byte after the one it has put.
PutNext(call, p, i) ==
  CASE p \in HeaderPhases /\ i < 4 -> [phase |-> p, index |-> i + 1]
    [] p = "info" /\ i = 4 -> [phase |-> "infoReply", index |-> 0]
    [] p = "mount" /\ i = 4 -> [phase |-> "mountReply", index |-> 0]
    [] p = "command" /\ i = 4 ->
         [phase |-> IF call.kind = "write" THEN "payload" ELSE "readStatus", index |-> 0]
    [] p = "payload" -> IF i + 1 < SectorBytes
                          THEN [phase |-> "payload", index |-> i + 1]
                          ELSE [phase |-> "sumHigh", index |-> 0]
    [] p = "sumHigh" -> [phase |-> "sumLow", index |-> 0]
    [] p = "sumLow" -> [phase |-> "writeStatus", index |-> 0]

LEMMA AfterPutGoes ==
  ASSUME HostTypeOK, phase \in PutPhases, index \in 0 .. LastIndex(phase), AfterPut
  PROVE  LET n == PutNext(op, phase, index)
         IN  Goto(n.phase, n.index)
PROOF
  <1>1. CASE phase \in HeaderPhases
    <2>1. index \in 0 .. 4
      BY <1>1 DEF LastIndex, HeaderPhases
    <2>2. CASE index < 4
      <3>1. PutNext(op, phase, index) = [phase |-> phase, index |-> index + 1]
        BY <1>1, <2>2 DEF PutNext, HeaderPhases
      <3>2. Goto(phase, index + 1)
        <4>1. /\ phase \in HeaderPhases /\ index < 4
              /\ ~(phase = "info" /\ index = 4) /\ ~(phase = "mount" /\ index = 4)
              /\ ~(phase = "command" /\ index = 4)
              /\ ~(phase = "payload") /\ ~(phase = "sumHigh") /\ ~(phase = "sumLow")
          BY <1>1, <2>1, <2>2 DEF HeaderPhases
        <4>. QED
          BY <4>1, Zenon DEF AfterPut
      <3>. QED
        BY <3>1, <3>2
    <2>3. CASE index = 4
      <3>. DEFINE q == CASE phase = "info" -> "infoReply"
                         [] phase = "mount" -> "mountReply"
                         [] OTHER -> IF op.kind = "write" THEN "payload" ELSE "readStatus"
      <3>1. PutNext(op, phase, index) = [phase |-> q, index |-> 0]
        BY <1>1, <2>3 DEF PutNext, HeaderPhases
      <3>2. Goto(q, 0)
        <4>1. CASE phase = "info"
          <5>1. /\ ~(phase \in HeaderPhases /\ index < 4) /\ phase = "info" /\ index = 4
                /\ ~(phase = "mount" /\ index = 4) /\ ~(phase = "command" /\ index = 4)
                /\ ~(phase = "payload") /\ ~(phase = "sumHigh") /\ ~(phase = "sumLow")
            BY <2>3, <4>1
          <5>2. Goto("infoReply", 0)
            BY <5>1, Zenon DEF AfterPut
          <5>. QED
            BY <4>1, <5>2
        <4>2. CASE phase = "mount"
          <5>1. /\ ~(phase \in HeaderPhases /\ index < 4) /\ ~(phase = "info" /\ index = 4)
                /\ phase = "mount" /\ index = 4 /\ ~(phase = "command" /\ index = 4)
                /\ ~(phase = "payload") /\ ~(phase = "sumHigh") /\ ~(phase = "sumLow")
            BY <2>3, <4>2
          <5>2. Goto("mountReply", 0)
            BY <5>1, Zenon DEF AfterPut
          <5>. QED
            BY <4>2, <5>2
        <4>3. CASE phase = "command"
          <5>1. /\ ~(phase \in HeaderPhases /\ index < 4) /\ ~(phase = "info" /\ index = 4)
                /\ ~(phase = "mount" /\ index = 4) /\ phase = "command" /\ index = 4
                /\ ~(phase = "payload") /\ ~(phase = "sumHigh") /\ ~(phase = "sumLow")
            BY <2>3, <4>3
          <5>2. IF op.kind = "write" THEN Goto("payload", 0) ELSE Goto("readStatus", 0)
            BY <5>1, Zenon DEF AfterPut
          <5>. QED
            BY <4>3, <5>2
        <4>. QED
          BY <1>1, <4>1, <4>2, <4>3 DEF HeaderPhases
      <3>. HIDE DEF q
      <3>. QED
        BY <3>1, <3>2
    <2>. QED
      BY <2>1, <2>2, <2>3
  <1>2. CASE phase \in {"payload", "sumHigh", "sumLow"}
    BY <1>2 DEF AfterPut, PutNext, HeaderPhases
  <1>. QED
    BY <1>1, <1>2 DEF PutPhases, HeaderPhases

\* That place is one of the script.
LEMMA PutNextFits ==
  ASSUME NEW call, NEW p \in PutPhases, NEW i \in 0 .. LastIndex(p), Fits(call, p),
         call.kind \in Kinds
  PROVE  LET n == PutNext(call, p, i)
         IN  /\ n.phase \in PutPhases \cup GetPhases
             /\ n.index \in 0 .. LastIndex(n.phase)
             /\ Fits(call, n.phase)
PROOF
  <1>0. SectorBytes \in Nat /\ SectorBytes >= 1
    BY SectorBytesFacts
  <1>1. CASE p \in HeaderPhases
    <2>1. i \in 0 .. 4
      BY <1>1 DEF LastIndex, HeaderPhases
    <2>2. CASE i < 4
      <3>1. PutNext(call, p, i) = [phase |-> p, index |-> i + 1]
        BY <1>1, <2>2 DEF PutNext, HeaderPhases
      <3>. QED
        BY <1>1, <2>1, <2>2, <3>1 DEF LastIndex, HeaderPhases
    <2>3. CASE i = 4
      <3>1. PutNext(call, p, i) = [phase |-> CASE p = "info" -> "infoReply"
                                               [] p = "mount" -> "mountReply"
                                               [] OTHER -> IF call.kind = "write"
                                                             THEN "payload" ELSE "readStatus",
                                   index |-> 0]
        BY <1>1, <2>3 DEF PutNext, HeaderPhases
      <3>. QED
        BY <1>0, <1>1, <2>3, <3>1
           DEF LastIndex, HeaderPhases, PutPhases, GetPhases, Fits, WritePhases,
               ReadPhases, Kinds
    <2>. QED
      BY <2>1, <2>2, <2>3
  <1>2. CASE p = "payload"
    <2>1. i \in 0 .. SectorBytes - 1
      BY <1>2 DEF LastIndex, HeaderPhases
    <2>2. CASE i + 1 < SectorBytes
      <3>1. PutNext(call, p, i) = [phase |-> "payload", index |-> i + 1]
        BY <1>2, <2>2 DEF PutNext, HeaderPhases
      <3>. QED
        BY <1>0, <1>2, <2>1, <2>2, <3>1 DEF LastIndex, HeaderPhases
    <2>3. CASE ~(i + 1 < SectorBytes)
      <3>1. PutNext(call, p, i) = [phase |-> "sumHigh", index |-> 0]
        BY <1>2, <2>3 DEF PutNext, HeaderPhases
      <3>. QED
        BY <1>2, <3>1 DEF LastIndex, HeaderPhases, PutPhases, Fits, WritePhases, ReadPhases
    <2>. QED
      BY <2>2, <2>3
  <1>3. CASE p \in {"sumHigh", "sumLow"}
    <2>1. PutNext(call, p, i) = [phase |-> IF p = "sumHigh" THEN "sumLow" ELSE "writeStatus",
                                 index |-> 0]
      BY <1>3 DEF PutNext, HeaderPhases
    <2>. QED
      BY <1>3, <2>1
         DEF LastIndex, HeaderPhases, PutPhases, GetPhases, Fits, WritePhases, ReadPhases
  <1>. QED
    BY <1>1, <1>2, <1>3 DEF PutPhases, HeaderPhases

\* What the transport does with a byte of a reply.
LEMMA AfterGetGoes ==
  ASSUME phase \in GetPhases, AfterGet
  PROVE  /\ phase \in {"infoReply", "infoDrain"} =>
              IF phase = "infoReply" /\ byte = SdInfo[index + 1]
                THEN IF index < 5 THEN Goto("infoReply", index + 1) ELSE Goto("mount", 0)
                ELSE IF index < 5 THEN Goto("infoDrain", index + 1) ELSE Return(FailCode)
         /\ phase = "mountReply" =>
              IF byte # Ok THEN Return(FailCode)
              ELSE IF op.kind = "ready" THEN Return(Ok) ELSE Goto("command", 0)
         /\ phase = "readStatus" =>
              IF byte = Ok THEN Goto("data", 0) ELSE Return(FailCode)
         /\ phase = "data" =>
              IF index + 1 < SectorBytes THEN Goto("data", index + 1) ELSE Goto("dataHigh", 0)
         /\ phase = "dataHigh" => Goto("dataLow", 0)
         /\ phase = "dataLow" =>
              IF byte = LowByte(sum) /\ remoteHigh = HighByte(sum)
                THEN Return(Ok) ELSE Return(ChecksumCode)
         /\ phase = "writeStatus" => Return(IF byte = Ok THEN Ok ELSE FailCode)
PROOF
  <1>1. CASE phase \in {"infoReply", "infoDrain"}
    <2>1. /\ ~(phase = "mountReply") /\ ~(phase = "readStatus") /\ ~(phase = "data")
          /\ ~(phase = "dataHigh") /\ ~(phase = "dataLow") /\ ~(phase = "writeStatus")
      BY <1>1
    <2>2. InfoByte
      BY <1>1, <2>1, Zenon DEF AfterGet
    <2>3. IF phase = "infoReply" /\ byte = SdInfo[index + 1]
            THEN IF index < 5 THEN Goto("infoReply", index + 1) ELSE Goto("mount", 0)
            ELSE IF index < 5 THEN Goto("infoDrain", index + 1) ELSE Return(FailCode)
      BY <2>2, Zenon DEF InfoByte
    <2>. QED
      BY <2>1, <2>3, Zenon
  <1>2. CASE phase = "mountReply"
    <2>1. /\ ~(phase \in {"infoReply", "infoDrain"}) /\ ~(phase = "readStatus")
          /\ ~(phase = "data") /\ ~(phase = "dataHigh") /\ ~(phase = "dataLow")
          /\ ~(phase = "writeStatus")
      BY <1>2
    <2>2. MountByte
      BY <1>2, <2>1, Zenon DEF AfterGet
    <2>3. IF byte # Ok THEN Return(FailCode)
          ELSE IF op.kind = "ready" THEN Return(Ok) ELSE Goto("command", 0)
      BY <2>2, Zenon DEF MountByte
    <2>. QED
      BY <2>1, <2>3, Zenon
  <1>3. CASE phase = "readStatus"
    <2>1. /\ ~(phase \in {"infoReply", "infoDrain"}) /\ ~(phase = "mountReply")
          /\ ~(phase = "data") /\ ~(phase = "dataHigh") /\ ~(phase = "dataLow")
          /\ ~(phase = "writeStatus")
      BY <1>3
    <2>. QED
      BY <1>3, <2>1, Zenon DEF AfterGet
  <1>4. CASE phase = "data"
    <2>1. /\ ~(phase \in {"infoReply", "infoDrain"}) /\ ~(phase = "mountReply")
          /\ ~(phase = "readStatus") /\ ~(phase = "dataHigh") /\ ~(phase = "dataLow")
          /\ ~(phase = "writeStatus")
      BY <1>4
    <2>. QED
      BY <1>4, <2>1, Zenon DEF AfterGet
  <1>5. CASE phase = "dataHigh"
    <2>1. /\ ~(phase \in {"infoReply", "infoDrain"}) /\ ~(phase = "mountReply")
          /\ ~(phase = "readStatus") /\ ~(phase = "data") /\ ~(phase = "dataLow")
          /\ ~(phase = "writeStatus")
      BY <1>5
    <2>. QED
      BY <1>5, <2>1, Zenon DEF AfterGet
  <1>6. CASE phase = "dataLow"
    <2>1. /\ ~(phase \in {"infoReply", "infoDrain"}) /\ ~(phase = "mountReply")
          /\ ~(phase = "readStatus") /\ ~(phase = "data") /\ ~(phase = "dataHigh")
          /\ ~(phase = "writeStatus")
      BY <1>6
    <2>2. ChecksumByte
      BY <1>6, <2>1, Zenon DEF AfterGet
    <2>. QED
      BY <1>6, <2>1, <2>2, Zenon DEF ChecksumByte
  <1>7. CASE phase = "writeStatus"
    <2>1. /\ ~(phase \in {"infoReply", "infoDrain"}) /\ ~(phase = "mountReply")
          /\ ~(phase = "readStatus") /\ ~(phase = "data") /\ ~(phase = "dataHigh")
          /\ ~(phase = "dataLow")
      BY <1>7
    <2>2. WriteStatusByte
      BY <1>7, <2>1, Zenon DEF AfterGet
    <2>. QED
      BY <1>7, <2>1, <2>2, Zenon DEF WriteStatusByte
  <1>. QED
    BY <1>1, <1>2, <1>3, <1>4, <1>5, <1>6, <1>7 DEF GetPhases

\* What the byte does to the transport's data.
LEMMA StoresByteIs ==
  ASSUME HostTypeOK, StoresByte
  PROVE  /\ sdBuffer' = IF phase = "data" THEN [sdBuffer EXCEPT ![index] = byte] ELSE sdBuffer
         /\ remoteHigh' = IF phase = "dataHigh" THEN byte ELSE remoteHigh
         /\ sum' = IF phase = "mountReply" /\ byte = Ok /\ op.kind # "ready" THEN 0
                   ELSE IF phase = "data" THEN Add16(sum, byte) ELSE sum
PROOF
  <1>1. phase = "data" => ~(phase = "mountReply")
    OBVIOUS
  <1>2. SdAdd(sum, byte) = Add16(sum, byte)
    BY SdAddIsAdd16 DEF HostTypeOK
  <1>. QED
    BY <1>1, <1>2 DEF StoresByte

-----------------------------------------------------------------------------
(* The invariant of the transport.                                         *)

LEMMA InitHostInv == InitHost => HostInv
PROOF
  <1>. SUFFICES ASSUME InitHost PROVE HostInv
    OBVIOUS
  <1>1. 0 \in Byte /\ 0 \in Word /\ ZeroBuffer \in Buffers
    BY SmallBytes, ZeroWord DEF ZeroBuffer, Buffers
  <1>2. NoCall \in Calls
    BY <1>1 DEF NoCall, Calls, Kinds
  <1>3. 0 \in 0 .. WaitLimit + SettleLimit /\ 0 \in 0 .. SectorBytes + 5
    BY HostAssumption, SectorBytesFacts
  <1>4. HostTypeOK
    BY <1>1, <1>2, <1>3 DEF InitHost, HostTypeOK, PutPhases
  <1>. QED
    BY <1>4, Codes DEF InitHost, HostInv, ScriptInv, SumInv, Talking, Putting, Getting

\* Going to a place of the script.
LEMMA GotoKeepsTypes ==
  ASSUME HostTypeOK, NEW p \in PutPhases \cup GetPhases, NEW i \in 0 .. LastIndex(p),
         Goto(p, i)
  PROVE  /\ hostPc' \in {"put", "waitReady"}
         /\ hostPc' = "put" <=> phase' \in PutPhases
         /\ hostPc' = "waitReady" <=> phase' \in GetPhases
         /\ phase' = p /\ index' = i /\ result' = result
         /\ phase' \in PutPhases \cup GetPhases
         /\ index' \in 0 .. SectorBytes + 5
         /\ timer' \in 0 .. WaitLimit + SettleLimit
PROOF
  <1>1. SectorBytes \in Nat /\ SectorBytes >= 1
    BY SectorBytesFacts
  <1>2. i \in 0 .. SectorBytes + 5
    BY <1>1 DEF LastIndex, HeaderPhases
  <1>3. 0 \in 0 .. WaitLimit + SettleLimit
    BY HostAssumption
  <1>. QED
    BY <1>2, <1>3 DEF Goto, PutPhases, GetPhases

LEMMA ReturnKeepsTypes ==
  ASSUME HostTypeOK, NEW code \in {Ok, FailCode, ChecksumCode}, Return(code)
  PROVE  /\ hostPc' = "idle" /\ result' = code /\ result' # Pending
         /\ phase' = phase /\ index' = index
         /\ result' \in {Ok, FailCode, ChecksumCode, NoResult, Pending}
         /\ timer' \in 0 .. WaitLimit + SettleLimit
PROOF
  <1>1. 0 \in 0 .. WaitLimit + SettleLimit
    BY HostAssumption
  <1>. QED
    BY <1>1, Codes DEF Return

\* A call is refused, starts its script, or configures the PIA first.
LEMMA HostCallsGoes ==
  ASSUME NEW call, HostCalls(call)
  PROVE  \/ /\ hostInit /\ BadCallAddress(call)
            /\ result' = FailCode
            /\ UNCHANGED <<hostPc, phase, index>>
         \/ /\ hostInit /\ initialized /\ ~BadCallAddress(call)
            /\ hostPc' = "put" /\ phase' = "info" /\ index' = 0 /\ result' = Pending
         \/ /\ ~hostInit \/ (~BadCallAddress(call) /\ ~initialized)
            /\ hostPc' = "configure" /\ result' = Pending
            /\ UNCHANGED <<phase, index>>
PROOF
  <1>. DEFINE bad == hostInit /\ BadCallAddress(call)
              starts == hostInit /\ ~BadCallAddress(call) /\ initialized
  <1>1. CASE bad
    <2>1. ~starts
      BY <1>1
    <2>. QED
      BY <1>1, <2>1, Zenon DEF HostCalls
  <1>2. CASE starts
    <2>1. ~bad
      BY <1>2
    <2>. QED
      BY <1>2, <2>1, Zenon DEF HostCalls
  <1>3. CASE ~bad /\ ~starts
    BY <1>3, Zenon DEF HostCalls
  <1>. QED
    BY <1>1, <1>2, <1>3

LEMMA HostCallsKeepsInv ==
  ASSUME HostInv, NEW call \in Calls, HostCalls(call)
  PROVE  HostInv'
PROOF
  <1>1. HostTypeOK /\ hostPc = "idle"
    BY DEF HostInv, HostCalls
  <1>2. /\ op' = call /\ initialized' \in BOOLEAN /\ timer' = 0
        /\ UNCHANGED <<sum, byte, remoteHigh, sdBuffer, hostInit, configured>>
    BY <1>1 DEF HostCalls, HostTypeOK
  <1>3. 0 \in 0 .. WaitLimit + SettleLimit /\ 0 \in 0 .. SectorBytes + 5
        /\ 0 \in 0 .. LastIndex("info")
    BY HostAssumption, SectorBytesFacts DEF LastIndex, HeaderPhases
  <1>4. CASE /\ hostInit /\ BadCallAddress(call)
             /\ result' = FailCode
             /\ UNCHANGED <<hostPc, phase, index>>
    BY <1>1, <1>2, <1>3, <1>4, Codes
       DEF HostInv, HostTypeOK, ScriptInv, SumInv, Talking, Putting, Getting
  <1>5. CASE /\ ~BadCallAddress(call)
             /\ hostPc' = "put" /\ phase' = "info" /\ index' = 0 /\ result' = Pending
    <2>1. HostTypeOK'
      BY <1>1, <1>2, <1>3, <1>5 DEF HostTypeOK, PutPhases
    <2>2. ScriptInv' /\ SumInv'
      BY <1>2, <1>3, <1>5
         DEF ScriptInv, SumInv, Talking, Putting, Getting, PutPhases, Fits, WritePhases,
             ReadPhases
    <2>. QED
      BY <1>5, <2>1, <2>2 DEF HostInv
  <1>6. CASE /\ hostPc' = "configure" /\ result' = Pending
             /\ UNCHANGED <<phase, index>>
    BY <1>1, <1>2, <1>3, <1>6
       DEF HostInv, HostTypeOK, ScriptInv, SumInv, Talking, Putting, Getting
  <1>. QED
    BY <1>4, <1>5, <1>6, HostCallsGoes

\* The steps that put nothing and get nothing.
LEMMA SettlingKeepsInv ==
  ASSUME HostInv,
         \/ \E glitch \in SUBSET Lines : HostConfigures(glitch)
         \/ HostEndsStartupStrobe \/ HostSettles \/ HostTimesOut \/ HostReset
  PROVE  HostInv'
PROOF
  <1>1. HostTypeOK
    BY DEF HostInv
  <1>2. ASSUME NEW glitch \in SUBSET Lines, HostConfigures(glitch) PROVE HostInv'
    BY <1>1, <1>2
       DEF HostConfigures, HostInv, HostTypeOK, ScriptInv, SumInv, Talking, Putting, Getting
  <1>3. CASE HostEndsStartupStrobe
    BY <1>1, <1>3
       DEF HostEndsStartupStrobe, host, HostInv, HostTypeOK, ScriptInv, SumInv, Talking,
           Putting, Getting
  <1>4. CASE HostSettles
    <2>1. /\ hostPc = "settle" /\ initialized' = TRUE /\ hostInit' = TRUE
          /\ UNCHANGED <<op, sum, byte, remoteHigh, sdBuffer, configured>>
          /\ IF BadCallAddress(op) THEN Return(FailCode) ELSE Goto("info", 0)
      BY <1>4 DEF HostSettles
    <2>2. CASE BadCallAddress(op)
      <3>1. /\ hostPc' = "idle" /\ result' # Pending /\ phase' = phase /\ index' = index
            /\ result' \in {Ok, FailCode, ChecksumCode, NoResult, Pending}
            /\ timer' \in 0 .. WaitLimit + SettleLimit
        BY <1>1, <2>1, <2>2, ReturnKeepsTypes
      <3>. QED
        BY <1>1, <2>1, <3>1
           DEF HostInv, HostTypeOK, ScriptInv, SumInv, Talking, Putting, Getting
    <2>3. CASE ~BadCallAddress(op)
      <3>1. "info" \in PutPhases \cup GetPhases /\ 0 \in 0 .. LastIndex("info")
        BY DEF PutPhases, LastIndex, HeaderPhases
      <3>2. Goto("info", 0)
        BY <2>1, <2>3
      <3>3. /\ hostPc' = "put" /\ phase' = "info" /\ index' = 0 /\ result' = result
            /\ index' \in 0 .. SectorBytes + 5
            /\ timer' \in 0 .. WaitLimit + SettleLimit
        BY <1>1, <3>1, <3>2, GotoKeepsTypes DEF PutPhases
      <3>4. HostTypeOK'
        BY <1>1, <2>1, <3>3 DEF HostTypeOK, PutPhases
      <3>5. ScriptInv' /\ SumInv'
        BY <2>1, <2>3, <3>1, <3>3
           DEF ScriptInv, SumInv, Talking, Putting, Getting, PutPhases, Fits, WritePhases,
               ReadPhases, BadCallAddress
      <3>. QED
        BY <2>1, <3>3, <3>4, <3>5 DEF HostInv
    <2>. QED
      BY <2>2, <2>3
  <1>5. CASE HostTimesOut
    <2>1. Return(FailCode) /\ initialized' = FALSE
      BY <1>5 DEF HostTimesOut, Timeout
    <2>2. /\ hostPc' = "idle" /\ result' # Pending /\ phase' = phase /\ index' = index
          /\ result' \in {Ok, FailCode, ChecksumCode, NoResult, Pending}
          /\ timer' \in 0 .. WaitLimit + SettleLimit
      BY <1>1, <2>1, ReturnKeepsTypes
    <2>. QED
      BY <1>1, <1>5, <2>1, <2>2
         DEF HostTimesOut, HostInv, HostTypeOK, ScriptInv, SumInv, Talking, Putting, Getting
  <1>6. CASE HostReset
    <2>1. 0 \in 0 .. WaitLimit + SettleLimit
      BY HostAssumption
    <2>2. /\ hostPc' = "idle" /\ hostInit' = FALSE /\ configured' = FALSE
          /\ result' = NoResult /\ timer' = 0
          /\ UNCHANGED <<phase, index, op, sum, byte, remoteHigh, sdBuffer, initialized>>
      BY <1>6 DEF HostReset
    <2>3. HostTypeOK'
      BY <1>1, <2>1, <2>2 DEF HostTypeOK
    <2>. QED
      BY <2>2, <2>3, Codes DEF HostInv, ScriptInv, SumInv, Talking, Putting, Getting
  <1>. QED
    BY <1>2, <1>3, <1>4, <1>5, <1>6

\* SDPUT.
LEMMA PuttingKeepsInv ==
  ASSUME HostInv, HostStrobes \/ HostReleases \/ HostAcked
  PROVE  HostInv'
PROOF
  <1>1. HostTypeOK /\ ScriptInv /\ SumInv /\ op \in Calls /\ sum \in Word
        /\ op.data \in Buffers
    BY DEF HostInv, HostTypeOK, Calls
  <1>2. /\ hostPc \in {"put", "strobing", "waitAck"} /\ phase \in PutPhases
        /\ index \in 0 .. LastIndex(phase) /\ ~BadCallAddress(op) /\ Fits(op, phase)
        /\ result = Pending
    BY DEF HostInv, ScriptInv, HostStrobes, HostReleases, HostAcked, Talking, Putting
  <1>3. SectorBytes \in Nat /\ SectorBytes >= 1
    BY SectorBytesFacts
  <1>4. CASE HostStrobes
    <2>1. /\ hostPc = "put" /\ hostPc' = "strobing"
          /\ sum' = IF phase = "payload" THEN Add16(sum, OutgoingByte) ELSE sum
          /\ UNCHANGED <<phase, index, op, byte, remoteHigh, sdBuffer, timer, initialized,
                         hostInit, configured, result>>
      <3>1. OutgoingByte \in Byte
        BY <1>1, <1>2, OutgoingByteIs
      <3>. QED
        BY <1>1, <1>4, <3>1, SdAddIsAdd16 DEF HostStrobes
    <2>2. OutgoingByte \in Byte
      BY <1>1, <1>2, OutgoingByteIs
    <2>3. sum' \in Word
      BY <1>1, <2>1, <2>2, Add16Word
    <2>4. HostTypeOK'
      BY <1>1, <2>1, <2>3 DEF HostTypeOK
    <2>5. phase = "payload" => sum' = partialSum(op.data)[index + 1]
      <3>1. SUFFICES ASSUME phase = "payload" PROVE sum' = partialSum(op.data)[index + 1]
        OBVIOUS
      <3>2. index \in 0 .. SectorBytes - 1
        BY <1>2, <3>1 DEF LastIndex, HeaderPhases
      <3>3. OutgoingByte = op.data[index]
        BY <3>1 DEF OutgoingByte, HeaderPhases
      <3>4. sum = partialSum(op.data)[index]
        BY <1>1, <2>1, <3>1 DEF SumInv, Talking, Putting
      <3>5. index + 1 \in 1 .. SectorBytes /\ (index + 1) - 1 = index
        BY <1>3, <3>2
      <3>6. partialSum(op.data)[index + 1]
              = Add16(partialSum(op.data)[(index + 1) - 1], op.data[(index + 1) - 1])
        BY <1>1, <3>5, PartialSumEquations
      <3>. QED
        BY <2>1, <3>1, <3>3, <3>4, <3>5, <3>6
    <2>6. ScriptInv'
      BY <1>2, <2>1 DEF ScriptInv, Talking, Putting, Getting
    <2>7. SumInv'
      BY <1>1, <1>2, <2>1, <2>5
         DEF SumInv, Talking, Putting, Getting, PutPhases
    <2>. QED
      BY <1>2, <2>1, <2>4, <2>6, <2>7 DEF HostInv
  <1>5. CASE HostReleases
    <2>1. /\ hostPc = "strobing" /\ hostPc' = "waitAck" /\ timer' = 0
          /\ UNCHANGED <<phase, index, op, sum, byte, remoteHigh, sdBuffer, initialized,
                         hostInit, configured, result>>
      BY <1>5 DEF HostReleases
    <2>2. 0 \in 0 .. WaitLimit + SettleLimit
      BY HostAssumption
    <2>3. HostTypeOK'
      BY <1>1, <2>1, <2>2 DEF HostTypeOK
    <2>. QED
      BY <1>1, <1>2, <2>1, <2>3
         DEF HostInv, ScriptInv, SumInv, Talking, Putting, Getting
  <1>6. CASE HostAcked
    <2>. DEFINE n == PutNext(op, phase, index)
    <2>1. /\ hostPc = "waitAck" /\ AfterPut
          /\ UNCHANGED <<op, sum, byte, remoteHigh, sdBuffer, initialized, hostInit, configured>>
      BY <1>6 DEF HostAcked
    <2>2. /\ n.phase \in PutPhases \cup GetPhases
          /\ n.index \in 0 .. LastIndex(n.phase)
          /\ Fits(op, n.phase)
      BY <1>1, <1>2, PutNextFits DEF Calls
    <2>3. Goto(n.phase, n.index)
      BY <1>1, <1>2, <2>1, AfterPutGoes
    <2>. HIDE DEF n
    <2>4. /\ hostPc' \in {"put", "waitReady"}
          /\ hostPc' = "put" <=> phase' \in PutPhases
          /\ hostPc' = "waitReady" <=> phase' \in GetPhases
          /\ phase' = n.phase /\ index' = n.index /\ result' = result
          /\ phase' \in PutPhases \cup GetPhases
          /\ index' \in 0 .. SectorBytes + 5
          /\ timer' \in 0 .. WaitLimit + SettleLimit
      BY <1>1, <2>2, <2>3, GotoKeepsTypes
    <2>5. HostTypeOK'
      BY <1>1, <2>1, <2>4 DEF HostTypeOK
    <2>6. ScriptInv'
      BY <1>2, <2>1, <2>2, <2>4 DEF ScriptInv, Talking, Putting, Getting
    <2>7. SumInv'
      <3>1. CASE phase \in HeaderPhases /\ index < 4
        <4>1. n = [phase |-> phase, index |-> index + 1]
          BY <3>1 DEF n, PutNext, HeaderPhases
        <4>. QED
          BY <1>1, <1>2, <2>1, <2>4, <3>1, <4>1
             DEF SumInv, Talking, Putting, Getting, HeaderPhases
      <3>2. CASE phase \in {"info", "mount"} /\ index = 4
        <4>1. n.phase \in {"infoReply", "mountReply"}
          BY <3>2 DEF n, PutNext, HeaderPhases
        <4>. QED
          BY <2>4, <4>1 DEF SumInv
      <3>3. CASE phase = "command" /\ index = 4
        <4>1. /\ n.phase \in {"payload", "readStatus"} /\ n.index = 0
          BY <3>3 DEF n, PutNext, HeaderPhases
        <4>2. sum = 0
          BY <1>1, <2>1, <3>3 DEF SumInv, Talking, Putting
        <4>3. partialSum(op.data)[0] = 0
          BY <1>1, PartialSumEquations
        <4>4. phase' = "payload" => hostPc' = "put"
          BY <2>4 DEF PutPhases
        <4>. QED
          BY <2>1, <2>4, <4>1, <4>2, <4>3, <4>4 DEF SumInv
      <3>4. CASE phase = "payload"
        <4>1. sum = partialSum(op.data)[index + 1]
          BY <1>1, <2>1, <3>4 DEF SumInv, Talking, Putting
        <4>2. index \in 0 .. SectorBytes - 1
          BY <1>2, <3>4 DEF LastIndex, HeaderPhases
        <4>3. CASE index + 1 < SectorBytes
          <5>1. n = [phase |-> "payload", index |-> index + 1]
            BY <3>4, <4>3 DEF n, PutNext, HeaderPhases
          <5>2. hostPc' = "put"
            BY <2>4, <5>1 DEF PutPhases
          <5>. QED
            BY <2>1, <2>4, <4>1, <5>1, <5>2 DEF SumInv
        <4>4. CASE ~(index + 1 < SectorBytes)
          <5>1. n = [phase |-> "sumHigh", index |-> 0]
            BY <3>4, <4>4 DEF n, PutNext, HeaderPhases
          <5>2. index + 1 = SectorBytes
            BY <1>3, <4>2, <4>4
          <5>. QED
            BY <2>1, <2>4, <4>1, <5>1, <5>2 DEF SumInv, sectorChecksum
        <4>. QED
          BY <4>3, <4>4
      <3>5. CASE phase \in {"sumHigh", "sumLow"}
        <4>1. n.phase \in {"sumLow", "writeStatus"}
          BY <3>5 DEF n, PutNext, HeaderPhases
        <4>2. sum = sectorChecksum(op.data)
          BY <1>1, <2>1, <3>5 DEF SumInv, Talking, Putting
        <4>. QED
          BY <2>1, <2>4, <4>1, <4>2 DEF SumInv
      <3>6. phase \in HeaderPhases => index \in 0 .. 4
        BY <1>2 DEF LastIndex, HeaderPhases
      <3>. QED
        BY <1>2, <3>1, <3>2, <3>3, <3>4, <3>5, <3>6 DEF PutPhases, HeaderPhases
    <2>. QED
      BY <1>2, <2>4, <2>5, <2>6, <2>7 DEF HostInv
  <1>. QED
    BY <1>4, <1>5, <1>6

\* SDGET.
LEMMA GettingKeepsInv ==
  ASSUME HostInv, toHost \in Byte, HostGets \/ HostConsumes
  PROVE  HostInv'
PROOF
  <1>1. HostTypeOK /\ ScriptInv /\ SumInv /\ op \in Calls /\ sum \in Word
        /\ byte \in Byte /\ sdBuffer \in Buffers /\ remoteHigh \in Byte
    BY DEF HostInv, HostTypeOK
  <1>2. /\ hostPc \in {"waitReady", "consuming"} /\ phase \in GetPhases
        /\ index \in 0 .. LastIndex(phase) /\ ~BadCallAddress(op) /\ Fits(op, phase)
        /\ result = Pending
    BY DEF HostInv, ScriptInv, HostGets, HostConsumes, Talking, Getting
  <1>3. SectorBytes \in Nat /\ SectorBytes >= 1
    BY SectorBytesFacts
  <1>4. CASE HostGets
    <2>1. /\ hostPc = "waitReady" /\ hostPc' = "consuming" /\ byte' = toHost
          /\ UNCHANGED <<phase, index, op, sum, remoteHigh, sdBuffer, timer, initialized,
                         hostInit, configured, result>>
      BY <1>4 DEF HostGets
    <2>2. HostTypeOK'
      BY <1>1, <2>1 DEF HostTypeOK
    <2>. QED
      BY <1>1, <1>2, <2>1, <2>2
         DEF HostInv, ScriptInv, SumInv, Talking, Putting, Getting, GetPhases
  <1>5. CASE HostConsumes
    <2>1. /\ hostPc = "consuming" /\ StoresByte /\ AfterGet
          /\ UNCHANGED <<op, byte, initialized, hostInit, configured>>
      BY <1>5 DEF HostConsumes
    <2>2. /\ sdBuffer' = IF phase = "data" THEN [sdBuffer EXCEPT ![index] = byte] ELSE sdBuffer
          /\ remoteHigh' = IF phase = "dataHigh" THEN byte ELSE remoteHigh
          /\ sum' = IF phase = "mountReply" /\ byte = Ok /\ op.kind # "ready" THEN 0
                    ELSE IF phase = "data" THEN Add16(sum, byte) ELSE sum
      BY <1>1, <2>1, StoresByteIs
    <2>3. sdBuffer' \in Buffers /\ remoteHigh' \in Byte /\ sum' \in Word
      BY <1>1, <2>2, Add16Word, ZeroWord DEF Buffers
    <2>4. ASSUME NEW code \in {Ok, FailCode, ChecksumCode}, Return(code)
          PROVE  HostInv'
      <3>1. /\ hostPc' = "idle" /\ result' # Pending /\ phase' = phase /\ index' = index
            /\ result' \in {Ok, FailCode, ChecksumCode, NoResult, Pending}
            /\ timer' \in 0 .. WaitLimit + SettleLimit
        BY <1>1, <2>4, ReturnKeepsTypes
      <3>2. HostTypeOK'
        BY <1>1, <2>1, <2>3, <3>1 DEF HostTypeOK
      <3>. QED
        BY <3>1, <3>2 DEF HostInv, ScriptInv, SumInv, Talking, Putting, Getting
    <2>5. ASSUME NEW p \in PutPhases \cup GetPhases, NEW i \in 0 .. LastIndex(p), Goto(p, i),
                 Fits(op, p), p \notin {"payload", "sumHigh", "sumLow"},
                 p \in {"command", "readStatus"} => sum' = 0,
                 p = "data" => sum' = partialSum(sdBuffer')[i],
                 p \in {"dataHigh", "dataLow"} => sum' = sectorChecksum(sdBuffer')
          PROVE  HostInv'
      <3>1. /\ hostPc' \in {"put", "waitReady"}
            /\ hostPc' = "put" <=> phase' \in PutPhases
            /\ hostPc' = "waitReady" <=> phase' \in GetPhases
            /\ phase' = p /\ index' = i /\ result' = result
            /\ phase' \in PutPhases \cup GetPhases
            /\ index' \in 0 .. SectorBytes + 5
            /\ timer' \in 0 .. WaitLimit + SettleLimit
        BY <1>1, <2>5, GotoKeepsTypes
      <3>2. HostTypeOK'
        BY <1>1, <2>1, <2>3, <3>1 DEF HostTypeOK
      <3>3. ScriptInv'
        BY <1>2, <2>1, <2>5, <3>1 DEF ScriptInv, Talking, Putting, Getting
      <3>4. SumInv'
        BY <2>5, <3>1 DEF SumInv
      <3>. QED
        BY <1>2, <3>1, <3>2, <3>3, <3>4 DEF HostInv
    <2>a. {"infoReply", "infoDrain", "mount", "command", "data", "dataHigh", "dataLow"}
            \subseteq PutPhases \cup GetPhases
      BY DEF PutPhases, GetPhases
    <2>b. /\ LastIndex("infoReply") = 5 /\ LastIndex("infoDrain") = 5
          /\ LastIndex("mount") = 4 /\ LastIndex("command") = 4
          /\ LastIndex("data") = SectorBytes - 1
          /\ LastIndex("dataHigh") = 0 /\ LastIndex("dataLow") = 0
      BY DEF LastIndex, HeaderPhases
    <2>6. CASE phase \in {"infoReply", "infoDrain"}
      <3>1. IF phase = "infoReply" /\ byte = SdInfo[index + 1]
              THEN IF index < 5 THEN Goto("infoReply", index + 1) ELSE Goto("mount", 0)
              ELSE IF index < 5 THEN Goto("infoDrain", index + 1) ELSE Return(FailCode)
        BY <1>2, <2>1, <2>6, AfterGetGoes
      <3>2. \/ index < 5 /\ Goto("infoReply", index + 1)
            \/ index < 5 /\ Goto("infoDrain", index + 1)
            \/ Goto("mount", 0)
            \/ Return(FailCode)
        BY <3>1, Zenon
      <3>3. index \in 0 .. 5
        BY <1>2, <2>6, <2>b
      <3>4. CASE index < 5 /\ Goto("infoReply", index + 1)
        <4>1. index + 1 \in 0 .. LastIndex("infoReply") /\ Fits(op, "infoReply")
          BY <2>b, <3>3, <3>4 DEF Fits, WritePhases, ReadPhases
        <4>. QED
          BY <2>5, <2>a, <3>4, <4>1
      <3>5. CASE index < 5 /\ Goto("infoDrain", index + 1)
        <4>1. index + 1 \in 0 .. LastIndex("infoDrain") /\ Fits(op, "infoDrain")
          BY <2>b, <3>3, <3>5 DEF Fits, WritePhases, ReadPhases
        <4>. QED
          BY <2>5, <2>a, <3>5, <4>1
      <3>6. CASE Goto("mount", 0)
        <4>1. 0 \in 0 .. LastIndex("mount") /\ Fits(op, "mount")
          BY <2>b DEF Fits, WritePhases, ReadPhases
        <4>. QED
          BY <2>5, <2>a, <3>6, <4>1
      <3>. QED
        BY <2>4, <3>2, <3>4, <3>5, <3>6
    <2>7. CASE phase = "mountReply"
      <3>1. IF byte # Ok THEN Return(FailCode)
            ELSE IF op.kind = "ready" THEN Return(Ok) ELSE Goto("command", 0)
        BY <1>2, <2>1, <2>7, AfterGetGoes
      <3>2. \/ Return(FailCode) \/ Return(Ok)
            \/ byte = Ok /\ op.kind # "ready" /\ Goto("command", 0)
        BY <3>1, Zenon
      <3>3. CASE byte = Ok /\ op.kind # "ready" /\ Goto("command", 0)
        <4>1. sum' = 0
          BY <2>2, <2>7, <3>3
        <4>2. 0 \in 0 .. LastIndex("command") /\ Fits(op, "command")
          BY <2>b, <3>3 DEF Fits, WritePhases, ReadPhases
        <4>. QED
          BY <2>5, <2>a, <3>3, <4>1, <4>2
      <3>. QED
        BY <2>4, <3>2, <3>3
    <2>8. CASE phase = "readStatus"
      <3>1. IF byte = Ok THEN Goto("data", 0) ELSE Return(FailCode)
        BY <1>2, <2>1, <2>8, AfterGetGoes
      <3>2. CASE Goto("data", 0)
        <4>1. sum' = 0 /\ sdBuffer' = sdBuffer
          BY <1>1, <2>1, <2>2, <2>8 DEF SumInv, Talking, Getting
        <4>2. partialSum(sdBuffer)[0] = 0
          BY <1>1, PartialSumEquations
        <4>3. 0 \in 0 .. LastIndex("data") /\ Fits(op, "data")
          BY <1>2, <1>3, <2>8, <2>b DEF Fits, WritePhases, ReadPhases
        <4>. QED
          BY <2>5, <2>a, <3>2, <4>1, <4>2, <4>3
      <3>. QED
        BY <2>4, <3>1, <3>2
    <2>9. CASE phase = "data"
      <3>1. index \in 0 .. SectorBytes - 1
        BY <1>2, <2>9, <2>b
      <3>2. sum = partialSum(sdBuffer)[index]
        BY <1>1, <2>1, <2>9 DEF SumInv, Talking, Getting
      <3>3. sdBuffer' = [sdBuffer EXCEPT ![index] = byte] /\ sum' = Add16(sum, byte)
        BY <2>2, <2>9
      <3>4. sdBuffer'[index] = byte /\ \A k \in 0 .. index - 1 : sdBuffer[k] = sdBuffer'[k]
        BY <1>1, <3>1, <3>3 DEF Buffers
      <3>5. index \in 0 .. SectorBytes /\ index + 1 \in 1 .. SectorBytes
            /\ (index + 1) - 1 = index
        BY <1>3, <3>1
      <3>6. partialSum(sdBuffer)[index] = partialSum(sdBuffer')[index]
        BY <1>1, <2>3, <3>4, <3>5, PartialSumPrefix
      <3>7. partialSum(sdBuffer')[index + 1]
              = Add16(partialSum(sdBuffer')[(index + 1) - 1], sdBuffer'[(index + 1) - 1])
        BY <2>3, <3>5, PartialSumEquations
      <3>8. sum' = partialSum(sdBuffer')[index + 1]
        BY <3>2, <3>3, <3>4, <3>5, <3>6, <3>7
      <3>9. Fits(op, "data") /\ Fits(op, "dataHigh")
        BY <1>2, <2>9 DEF Fits, WritePhases, ReadPhases
      <3>10. IF index + 1 < SectorBytes THEN Goto("data", index + 1) ELSE Goto("dataHigh", 0)
        BY <1>2, <2>1, <2>9, AfterGetGoes
      <3>11. CASE index + 1 < SectorBytes
        <4>1. index + 1 \in 0 .. LastIndex("data") /\ Goto("data", index + 1)
          BY <1>3, <2>b, <3>1, <3>10, <3>11
        <4>. QED
          BY <2>5, <2>a, <3>8, <3>9, <4>1
      <3>12. CASE ~(index + 1 < SectorBytes)
        <4>1. index + 1 = SectorBytes /\ Goto("dataHigh", 0)
          BY <1>3, <3>1, <3>10, <3>12
        <4>2. sum' = sectorChecksum(sdBuffer') /\ 0 \in 0 .. LastIndex("dataHigh")
          BY <2>b, <3>8, <4>1 DEF sectorChecksum
        <4>. QED
          BY <2>5, <2>a, <3>9, <4>1, <4>2
      <3>. QED
        BY <3>11, <3>12
    <2>10. CASE phase = "dataHigh"
      <3>1. Goto("dataLow", 0)
        BY <1>2, <2>1, <2>10, AfterGetGoes
      <3>2. sum' = sectorChecksum(sdBuffer')
        BY <1>1, <2>1, <2>2, <2>10 DEF SumInv, Talking, Getting
      <3>3. 0 \in 0 .. LastIndex("dataLow") /\ Fits(op, "dataLow")
        BY <1>2, <2>10, <2>b DEF Fits, WritePhases, ReadPhases
      <3>. QED
        BY <2>5, <2>a, <3>1, <3>2, <3>3
    <2>11. CASE phase \in {"dataLow", "writeStatus"}
      <3>1. Return(Ok) \/ Return(FailCode) \/ Return(ChecksumCode)
        BY <1>2, <2>1, <2>11, AfterGetGoes
      <3>. QED
        BY <2>4, <3>1
    <2>. QED
      BY <1>2, <2>6, <2>7, <2>8, <2>9, <2>10, <2>11 DEF GetPhases
  <1>. QED
    BY <1>4, <1>5

-----------------------------------------------------------------------------
(***************************************************************************)
(* The dialogue.  `Expects' and `Answers' say in which state an engine is  *)
(* that is in step with a transport at the byte i of the phase p of the    *)
(* call c, with the storage status st and the card's sectors d.            *)
(***************************************************************************)

OffsetOf(c) == fileOffset(c.track, c.sector)

HeaderStates == <<"SyncA", "SyncB", "Opcode", "Track", "Sector">>

\* The engine waits for the byte that the transport puts.
Expects(c, p, i, e, st) ==
  /\ p \in HeaderPhases => e.state = HeaderStates[i + 1]
  /\ p = "payload" => e.state = "Payload"
  /\ p = "sumHigh" => e.state = "ChecksumHigh"
  /\ p = "sumLow" => e.state = "ChecksumLow"
  /\ p \in HeaderPhases /\ i >= 3 => e.command = CommandOf(c, p)
  /\ p \in HeaderPhases /\ i >= 4 => e.track = TrackOf(c, p)
  /\ p \in {"payload", "sumHigh", "sumLow"} => e.track = c.track /\ e.sector = c.sector
  /\ p = "payload" => e.received = i /\ \A k \in 0 .. i - 1 : e.buffer[k] = c.data[k]
  /\ p \in {"sumHigh", "sumLow"} => e.buffer = c.data
  /\ p = "sumLow" => e.checksumHigh = HighByte(sectorChecksum(c.data))
  /\ p \in {"command", "payload", "sumHigh", "sumLow"} => st = Ok

\* The reply is a status alone.
StatusReply(e, s) ==
  /\ e.readReply = FALSE
  /\ e.outSize = 1
  /\ e.outAt = 0
  /\ e.reply[1] = s

\* The engine has come to the byte n of a sector's reply.
SectorReply(e, n, data) ==
  /\ e.readReply = TRUE
  /\ e.outSize = SectorBytes + 3
  /\ e.outAt = n
  /\ e.reply[1] = Ok
  /\ e.buffer = data
  /\ e.checksum = sectorChecksum(data)

\* The engine holds the byte that the transport gets.
Answers(c, p, i, buf, high, e, st, d) ==
  /\ e.state = "Response"
  /\ p # "infoDrain"
  /\ p = "infoReply" =>
       e.readReply = FALSE /\ e.outSize = 6 /\ e.outAt = i /\ e.reply = InfoReply
  /\ p \in {"mountReply", "writeStatus"} => StatusReply(e, st)
  /\ p = "readStatus" => IF st = Ok THEN SectorReply(e, 0, d[OffsetOf(c)])
                                    ELSE StatusReply(e, st)
  /\ p \in {"data", "dataHigh", "dataLow"} => st = Ok
  /\ p = "data" => SectorReply(e, i + 1, d[OffsetOf(c)])
                   /\ \A k \in 0 .. i - 1 : buf[k] = d[OffsetOf(c)][k]
  /\ p = "dataHigh" => SectorReply(e, SectorBytes + 1, d[OffsetOf(c)])
  /\ p = "dataLow" => SectorReply(e, SectorBytes + 2, d[OffsetOf(c)])
                      /\ high = HighByte(sectorChecksum(d[OffsetOf(c)]))
  /\ p \in {"dataHigh", "dataLow"} => buf = d[OffsetOf(c)]

-----------------------------------------------------------------------------
(* What the engine makes of the transport's bytes.                         *)

\* No two commands are the same byte.
LEMMA CommandsDiffer ==
  /\ CommandRead # CommandWrite /\ CommandInfo \notin {CommandRead, CommandWrite}
  /\ CommandStatus \notin {CommandRead, CommandWrite, CommandInfo}
  /\ CommandSync \notin {CommandRead, CommandWrite, CommandInfo, CommandStatus}
PROOF
  BY DEF CommandInfo, CommandStatus, CommandRead, CommandWrite, CommandSync

\* The bytes of a header, and the states in which an engine takes them.
LEMMA HeaderBytes ==
  ASSUME NEW c, NEW p \in HeaderPhases, NEW total
  PROVE  /\ ByteOf(c, p, 0, total) = SyncFirst /\ HeaderStates[1] = "SyncA"
         /\ ByteOf(c, p, 1, total) = SyncSecond /\ HeaderStates[2] = "SyncB"
         /\ ByteOf(c, p, 2, total) = CommandOf(c, p) /\ HeaderStates[3] = "Opcode"
         /\ ByteOf(c, p, 3, total) = TrackOf(c, p) /\ HeaderStates[4] = "Track"
         /\ ByteOf(c, p, 4, total) = SectorOf(c, p) /\ HeaderStates[5] = "Sector"
PROOF
  <1>1. p \in HeaderPhases /\ p # "payload" /\ p # "sumHigh" /\ p # "sumLow"
    BY DEF HeaderPhases
  <1>2. /\ ByteOf(c, p, 0, total) = SyncFirst
        /\ ByteOf(c, p, 1, total) = SyncSecond
        /\ ByteOf(c, p, 2, total) = CommandOf(c, p)
        /\ ByteOf(c, p, 3, total) = TrackOf(c, p)
        /\ ByteOf(c, p, 4, total) = SectorOf(c, p)
    BY <1>1 DEF ByteOf
  <1>3. /\ HeaderStates[1] = "SyncA" /\ HeaderStates[2] = "SyncB"
        /\ HeaderStates[3] = "Opcode" /\ HeaderStates[4] = "Track"
        /\ HeaderStates[5] = "Sector"
    BY DEF HeaderStates
  <1>. QED
    BY <1>2, <1>3

\* The bytes of a header but the last.
LEMMA HeaderByteTaken ==
  ASSUME NEW e \in Engines, NEW c, NEW p \in HeaderPhases, NEW i \in 0 .. 3,
         NEW st, NEW total, Expects(c, p, i, e, st)
  PROVE  LET v == ByteOf(c, p, i, total)
             r == Receive(e, v, st)
         IN  Expects(c, p, i + 1, r, st) /\ ~CallsStorage(e, v, st)
PROOF
  <1>. DEFINE v == ByteOf(c, p, i, total)
              r == Receive(e, v, st)
  <1>1. e.state = HeaderStates[i + 1] /\ (p = "command" => st = Ok)
        /\ (i = 3 => e.command = CommandOf(c, p))
    BY DEF Expects
  <1>2. CASE i = 0
    <2>1. v = SyncFirst /\ e.state = "SyncA"
      BY <1>1, <1>2, HeaderBytes
    <2>2. r = [e EXCEPT !.state = "SyncB"]
      BY <2>1 DEF Receive
    <2>3. r.state = "SyncB"
      BY <2>2 DEF Engines
    <2>. HIDE DEF r
    <2>. QED
      BY <1>1, <1>2, <2>1, <2>3 DEF Expects, HeaderStates, HeaderPhases, CallsStorage, r
  <1>3. CASE i = 1
    <2>1. v = SyncSecond /\ e.state = "SyncB"
      BY <1>1, <1>3, HeaderBytes
    <2>2. r = [e EXCEPT !.state = "Opcode"]
      <3>1. SyncSecond # SyncFirst
        BY DEF SyncFirst, SyncSecond
      <3>2. (CASE v = SyncSecond -> "Opcode" [] v = SyncFirst -> "SyncB"
               [] OTHER -> "SyncA") = "Opcode"
        BY <2>1, <3>1
      <3>. HIDE DEF v
      <3>3. r = [e EXCEPT !.state = CASE v = SyncSecond -> "Opcode"
                                      [] v = SyncFirst -> "SyncB"
                                      [] OTHER -> "SyncA"]
        BY <2>1 DEF Receive
      <3>. QED
        BY <3>2, <3>3, Zenon
    <2>3. r.state = "Opcode"
      BY <2>2 DEF Engines
    <2>. HIDE DEF r
    <2>. QED
      BY <1>1, <1>3, <2>1, <2>3 DEF Expects, HeaderStates, HeaderPhases, CallsStorage, r
  <1>4. CASE i = 2
    <2>1. v = CommandOf(c, p) /\ e.state = "Opcode"
      BY <1>1, <1>4, HeaderBytes
    <2>2. r = [e EXCEPT !.command = v, !.state = "Track"]
      BY <2>1 DEF Receive
    <2>3. r.state = "Track" /\ r.command = v
      BY <2>2 DEF Engines
    <2>. HIDE DEF r
    <2>. QED
      BY <1>1, <1>4, <2>1, <2>3 DEF Expects, HeaderStates, HeaderPhases, CallsStorage, r
  <1>5. CASE i = 3
    <2>1. v = TrackOf(c, p) /\ e.state = "Track"
      BY <1>1, <1>5, HeaderBytes
    <2>2. r = [e EXCEPT !.track = v, !.state = "Sector"]
      BY <2>1 DEF Receive
    <2>3. r.state = "Sector" /\ r.track = v /\ r.command = e.command
      BY <2>2 DEF Engines
    <2>. HIDE DEF r
    <2>. QED
      BY <1>1, <1>5, <2>1, <2>3 DEF Expects, HeaderStates, HeaderPhases, CallsStorage, r
  <1>. QED
    BY <1>2, <1>3, <1>4, <1>5

\* The last byte of INFO and of STATUS.
LEMMA QuestionTaken ==
  ASSUME NEW e \in Engines, NEW c, NEW p \in {"info", "mount"},
         NEW st, NEW total, NEW buf, NEW high, NEW d, Expects(c, p, 4, e, st)
  PROVE  LET v == ByteOf(c, p, 4, total)
             r == Receive(e, v, st)
         IN  /\ ~CallsStorage(e, v, st)
             /\ p = "info" => Answers(c, "infoReply", 0, buf, high, r, st, d)
             /\ p = "mount" => Answers(c, "mountReply", 0, buf, high, r, st, d)
PROOF
  <1>. DEFINE v == ByteOf(c, p, 4, total)
              r == Receive(e, v, st)
              h == [e EXCEPT !.sector = v]
  <1>1. e.state = "Sector" /\ e.command = CommandOf(c, p) /\ e.track = 0 /\ v = 0
    BY DEF Expects, HeaderStates, HeaderPhases, ByteOf, TrackOf, SectorOf
  <1>2. /\ h \in Engines /\ h.state = "Sector" /\ h.command = e.command
        /\ h.track = 0 /\ h.sector = 0
    BY <1>1 DEF Engines, Byte
  <1>3. r = Dispatch(h, st)
    BY <1>1 DEF Receive
  <1>. HIDE DEF h
  <1>4. Answer(h, st).state = "Response" /\ StatusReply(Answer(h, st), st)
    BY <1>2 DEF Answer, StatusReply, Engines
  <1>5. CASE p = "info"
    <2>1. h.command = CommandInfo
      BY <1>1, <1>2, <1>5 DEF CommandOf
    <2>2. r = [Answer(h, Ok) EXCEPT !.reply = InfoReply, !.outSize = 6]
      <3>1. Dispatch(h, st) = [Answer(h, Ok) EXCEPT !.reply = InfoReply, !.outSize = 6]
        BY <1>2, <2>1, CommandsDiffer, Zenon DEF Dispatch
      <3>. QED
        BY <1>3, <3>1
    <2>3. /\ r.state = "Response" /\ r.readReply = FALSE /\ r.outSize = 6 /\ r.outAt = 0
          /\ r.reply = InfoReply
      BY <1>2, <2>2 DEF Answer, Engines
    <2>. HIDE DEF r
    <2>. QED
      BY <1>1, <1>5, <2>3 DEF Answers, CallsStorage, r
  <1>6. CASE p = "mount"
    <2>1. h.command = CommandStatus
      BY <1>1, <1>2, <1>6 DEF CommandOf
    <2>2. r = Answer(h, st)
      <3>1. Dispatch(h, st) = Answer(h, st)
        BY <1>2, <2>1, CommandsDiffer, Zenon DEF Dispatch
      <3>. QED
        BY <1>3, <3>1
    <2>3. r.state = "Response" /\ StatusReply(r, st)
      BY <1>4, <2>2
    <2>. HIDE DEF r
    <2>. QED
      BY <1>1, <1>6, <2>3 DEF Answers, CallsStorage, r
  <1>. QED
    BY <1>5, <1>6

\* A valid address is not refused by a storage that is Ok.
LEMMA NoRefusal ==
  ASSUME NEW track \in Byte, NEW sector \in Byte, validAddress(track, sector)
  PROVE  StorageRefusal(track, sector, Ok) = Ok
PROOF
  <1>. DEFINE offset == fileOffset(track, sector)
              room == ImageBytes - SectorBytes
  <1>1. track \in Nat /\ sector \in Nat
    BY DEF Byte
  <1>2. offset \in Nat /\ offset <= room
    BY <1>1, ValidAddressInImage
  <1>3. ImageBytes \in Int /\ SectorBytes \in Int
    <2>1. Tracks \in Nat /\ SectorsPerTrack \in Nat /\ SectorBytes \in Nat
      BY GeometryAssumption, SectorBytesFacts
    <2>2. Tracks * SectorsPerTrack \in Nat
      BY <2>1
    <2>3. (Tracks * SectorsPerTrack) * SectorBytes \in Nat
      BY <2>1, <2>2
    <2>. QED
      BY <2>1, <2>3 DEF ImageBytes
  <1>4. room \in Int
    BY <1>3
  <1>. HIDE DEF offset, room
  <1>5. ~(offset > room)
    BY <1>2, <1>4
  <1>. QED
    BY <1>5 DEF StorageRefusal, offset, room

\* The last byte of a transfer's header.
LEMMA CommandTaken ==
  ASSUME NEW e \in Engines, NEW c \in Calls, ~BadCallAddress(c), c.kind # "ready",
         NEW st, NEW total, Expects(c, "command", 4, e, st)
  PROVE  LET v == ByteOf(c, "command", 4, total)
             r == Receive(e, v, st)
         IN  /\ c.kind = "write" =>
                  Expects(c, "payload", 0, r, st) /\ ~CallsStorage(e, v, st)
             /\ c.kind = "read" =>
                  /\ CallsStorage(e, v, st)
                  /\ StorageCall(r) = "read"
                  /\ r \in Engines /\ r.track = c.track /\ r.sector = c.sector
PROOF
  <1>. DEFINE v == ByteOf(c, "command", 4, total)
              r == Receive(e, v, st)
              h == [e EXCEPT !.sector = v]
  <1>1. /\ e.state = "Sector" /\ e.command = CommandOf(c, "command") /\ e.track = c.track
        /\ v = c.sector /\ st = Ok
    BY DEF Expects, HeaderStates, HeaderPhases, ByteOf, TrackOf, SectorOf
  <1>2. c.track \in Byte /\ c.sector \in Byte /\ c.kind \in Kinds
    BY DEF Calls
  <1>3. /\ h \in Engines /\ h.state = "Sector" /\ h.command = e.command
        /\ h.track = c.track /\ h.sector = c.sector
    BY <1>1, <1>2 DEF Engines
  <1>4. r = Dispatch(h, st)
    BY <1>1 DEF Receive
  <1>5. validAddress(c.track, c.sector)
    BY DEF BadCallAddress
  <1>. HIDE DEF h
  <1>6. CASE c.kind = "write"
    <2>1. h.command = CommandWrite
      BY <1>1, <1>3, <1>6 DEF CommandOf
    <2>2. r = StartPayload(h)
      <3>1. Dispatch(h, st) = StartPayload(h)
        BY <2>1, CommandsDiffer, Zenon DEF Dispatch
      <3>. QED
        BY <1>4, <3>1
    <2>3. /\ r.state = "Payload" /\ r.received = 0 /\ r.track = c.track
          /\ r.sector = c.sector
      BY <1>3, <2>2 DEF StartPayload, Engines
    <2>. HIDE DEF r
    <2>. QED
      BY <1>1, <1>6, <2>3 DEF Expects, HeaderPhases, CallsStorage, r
  <1>7. CASE c.kind = "read"
    <2>1. h.command = CommandRead
      BY <1>1, <1>3, <1>7 DEF CommandOf
    <2>2. r = SectorCall(h, st)
      <3>1. Dispatch(h, st) = SectorCall(h, st)
        BY <1>3, <1>5, <2>1, CommandsDiffer, Zenon DEF Dispatch
      <3>. QED
        BY <1>4, <3>1
    <2>3. StorageRefusal(h.track, h.sector, st) = Ok
      BY <1>1, <1>2, <1>3, <1>5, NoRefusal
    <2>4. r = h
      BY <2>2, <2>3 DEF SectorCall
    <2>. HIDE DEF r
    <2>. QED
      BY <1>1, <1>3, <1>7, <2>1, <2>4 DEF CallsStorage, StorageCall, r
  <1>. QED
    BY <1>2, <1>6, <1>7 DEF Kinds

\* The payload, byte by byte.
LEMMA PayloadByteTaken ==
  ASSUME NEW e \in Engines, NEW c \in Calls, NEW i \in 0 .. SectorBytes - 1,
         NEW st, NEW total, Expects(c, "payload", i, e, st)
  PROVE  LET v == ByteOf(c, "payload", i, total)
             r == Receive(e, v, st)
             n == PutNext(c, "payload", i)
         IN  Expects(c, n.phase, n.index, r, st) /\ ~CallsStorage(e, v, st)
PROOF
  <1>. DEFINE v == ByteOf(c, "payload", i, total)
              r == Receive(e, v, st)
              n == PutNext(c, "payload", i)
              buffer == [e.buffer EXCEPT ![i] = v]
  <1>1. /\ e.state = "Payload" /\ e.received = i /\ st = Ok
        /\ e.track = c.track /\ e.sector = c.sector
        /\ \A k \in 0 .. i - 1 : e.buffer[k] = c.data[k]
    BY DEF Expects
  <1>2. v = c.data[i] /\ v \in Byte /\ c.data \in Buffers
    BY DEF ByteOf, HeaderPhases, Calls, Buffers
  <1>3. e.buffer \in Buffers /\ SectorBytes \in Nat
    BY SectorBytesFacts DEF Engines
  <1>4. buffer \in Buffers /\ \A k \in 0 .. i : buffer[k] = c.data[k]
    <2>. HIDE DEF v
    <2>1. buffer \in Buffers
      BY <1>2, <1>3 DEF Buffers
    <2>2. ASSUME NEW k \in 0 .. i PROVE buffer[k] = c.data[k]
      <3>1. k \in 0 .. SectorBytes - 1 /\ (k # i => k \in 0 .. i - 1)
        BY <1>3
      <3>. QED
        BY <1>1, <1>2, <1>3, <3>1 DEF Buffers
    <2>. QED
      BY <2>1, <2>2
  <1>5. r = PayloadByte(e, v)
    BY <1>1 DEF Receive
  <1>. HIDE DEF v
  <1>6. /\ r.buffer = buffer /\ r.received = i + 1
        /\ r.track = c.track /\ r.sector = c.sector
        /\ r.state = IF i + 1 = SectorBytes THEN "ChecksumHigh" ELSE "Payload"
    <2>1. PayloadByte(e, v).buffer = buffer
      BY <1>1, <1>2, <1>3 DEF PayloadByte, Engines
    <2>2. /\ PayloadByte(e, v).received = i + 1
          /\ PayloadByte(e, v).track = c.track /\ PayloadByte(e, v).sector = c.sector
          /\ PayloadByte(e, v).state = IF i + 1 = SectorBytes THEN "ChecksumHigh" ELSE "Payload"
      BY <1>1 DEF PayloadByte, Engines
    <2>. QED
      BY <1>5, <2>1, <2>2
  <1>7. ~CallsStorage(e, v, st)
    BY <1>1 DEF CallsStorage
  <1>. HIDE DEF r, buffer
  <1>8. CASE i + 1 < SectorBytes
    <2>1. n = [phase |-> "payload", index |-> i + 1] /\ i + 1 # SectorBytes
      BY <1>8, <1>3 DEF PutNext, HeaderPhases
    <2>2. (i + 1) - 1 = i
      BY <1>3
    <2>. QED
      BY <1>1, <1>4, <1>6, <1>7, <2>1, <2>2 DEF Expects, HeaderPhases, r, v
  <1>9. CASE ~(i + 1 < SectorBytes)
    <2>1. n = [phase |-> "sumHigh", index |-> 0]
      BY <1>9 DEF PutNext, HeaderPhases
    <2>2. i + 1 = SectorBytes /\ 0 .. i = 0 .. SectorBytes - 1
      BY <1>3, <1>9
    <2>3. buffer = c.data
      BY <1>2, <1>4, <2>2 DEF Buffers
    <2>. QED
      BY <1>1, <1>6, <1>7, <2>1, <2>2, <2>3 DEF Expects, HeaderPhases, r, v
  <1>. QED
    BY <1>8, <1>9

\* The high byte of the checksum.
LEMMA SumHighTaken ==
  ASSUME NEW e \in Engines, NEW c \in Calls, NEW st, Expects(c, "sumHigh", 0, e, st)
  PROVE  LET v == ByteOf(c, "sumHigh", 0, sectorChecksum(c.data))
             r == Receive(e, v, st)
         IN  Expects(c, "sumLow", 0, r, st) /\ ~CallsStorage(e, v, st)
PROOF
  <1>. DEFINE v == ByteOf(c, "sumHigh", 0, sectorChecksum(c.data))
              r == Receive(e, v, st)
  <1>1. /\ e.state = "ChecksumHigh" /\ e.buffer = c.data /\ st = Ok
        /\ e.track = c.track /\ e.sector = c.sector
    BY DEF Expects
  <1>2. v = HighByte(sectorChecksum(c.data))
    BY DEF ByteOf, HeaderPhases
  <1>3. r = [e EXCEPT !.checksumHigh = v, !.state = "ChecksumLow"]
    BY <1>1 DEF Receive
  <1>4. /\ r.state = "ChecksumLow" /\ r.checksumHigh = v /\ r.buffer = c.data
        /\ r.track = c.track /\ r.sector = c.sector
    BY <1>1, <1>3 DEF Engines
  <1>. HIDE DEF r
  <1>. QED
    BY <1>1, <1>2, <1>4 DEF Expects, HeaderPhases, CallsStorage, r

\* The low byte of the checksum completes the WRITE, which storage then makes.
LEMMA SumLowTaken ==
  ASSUME NEW e \in Engines, EngineInv(e), NEW c \in Calls, ~BadCallAddress(c),
         c.kind = "write", NEW st, Expects(c, "sumLow", 0, e, st)
  PROVE  LET v == ByteOf(c, "sumLow", 0, sectorChecksum(c.data))
             r == Receive(e, v, st)
         IN  /\ CallsStorage(e, v, st)
             /\ StorageCall(r) = "write"
             /\ r \in Engines /\ r.track = c.track /\ r.sector = c.sector
             /\ r.buffer = c.data
PROOF
  <1>. DEFINE v == ByteOf(c, "sumLow", 0, sectorChecksum(c.data))
              r == Receive(e, v, st)
  <1>1. /\ e.state = "ChecksumLow" /\ e.buffer = c.data /\ st = Ok
        /\ e.track = c.track /\ e.sector = c.sector
        /\ e.checksumHigh = HighByte(sectorChecksum(c.data))
    BY DEF Expects
  <1>2. v = LowByte(sectorChecksum(c.data))
    BY DEF ByteOf, HeaderPhases
  <1>3. c.track \in Byte /\ c.sector \in Byte /\ c.data \in Buffers
    BY DEF Calls
  <1>4. validAddress(c.track, c.sector)
    BY DEF BadCallAddress
  <1>5. e.checksum = 256 * e.checksumHigh + v
    <2>1. e.checksum = sectorChecksum(c.data)
      BY <1>1 DEF EngineInv, BufferIsSummed
    <2>. QED
      BY <1>1, <1>2, <1>3, <2>1, SectorChecksumWord, WordOfHalves
  <1>6. r = FinishPayload(e, v, st)
    BY <1>1 DEF Receive
  <1>7. StorageRefusal(e.track, e.sector, st) = Ok
    BY <1>1, <1>3, <1>4, NoRefusal
  <1>8. FinishPayload(e, v, st) = e
    <2>. HIDE DEF v
    <2>1. FinishPayload(e, v, st) = SectorCall(e, st)
      BY <1>1, <1>4, <1>5, Zenon DEF FinishPayload
    <2>. QED
      BY <1>7, <2>1 DEF SectorCall
  <1>9. r = e
    BY <1>6, <1>8
  <1>. HIDE DEF r
  <1>. QED
    BY <1>1, <1>9 DEF CallsStorage, StorageCall, r

\* Every byte the transport puts is the one the engine waits for: the engine
\* follows it to its next place in the script, or calls storage for the very
\* sector, and with the very data, of the transport's call.
LEMMA RequestByteTaken ==
  ASSUME NEW e \in Engines, EngineInv(e), NEW c \in Calls, ~BadCallAddress(c),
         NEW p \in PutPhases, NEW i \in 0 .. LastIndex(p), Fits(c, p),
         NEW st, Expects(c, p, i, e, st),
         NEW total, p \in {"sumHigh", "sumLow"} => total = sectorChecksum(c.data),
         NEW buf, NEW high, NEW d
  PROVE  LET v == ByteOf(c, p, i, total)
             r == Receive(e, v, st)
             n == PutNext(c, p, i)
         IN  /\ CallsStorage(e, v, st) =>
                  /\ st = Ok
                  /\ r \in Engines /\ r.track = c.track /\ r.sector = c.sector
                  /\ \/ /\ n.phase = "readStatus"
                        /\ StorageCall(r) = "read"
                     \/ /\ n.phase = "writeStatus"
                        /\ StorageCall(r) = "write"
                        /\ r.buffer = c.data
             /\ ~CallsStorage(e, v, st) =>
                  /\ n.phase # "writeStatus"
                  /\ n.phase \in PutPhases => Expects(c, n.phase, n.index, r, st)
                  /\ n.phase \in GetPhases =>
                       Answers(c, n.phase, n.index, buf, high, r, st, d)
PROOF
  <1>. DEFINE v == ByteOf(c, p, i, total)
              r == Receive(e, v, st)
              n == PutNext(c, p, i)
  <1>0. PutPhases \cap GetPhases = {}
    BY DEF PutPhases, GetPhases
  <1>1. CASE p \in HeaderPhases
    <2>1. i \in 0 .. 4
      BY <1>1 DEF LastIndex, HeaderPhases
    <2>2. CASE i < 4
      <3>1. n = [phase |-> p, index |-> i + 1]
        BY <1>1, <2>2 DEF PutNext, HeaderPhases
      <3>2. i \in 0 .. 3
        BY <2>1, <2>2
      <3>3. Expects(c, p, i + 1, r, st) /\ ~CallsStorage(e, v, st)
        BY <1>1, <3>2, HeaderByteTaken
      <3>4. p \in PutPhases /\ p # "writeStatus"
        BY <1>1 DEF HeaderPhases
      <3>. HIDE DEF r, v, n
      <3>. QED
        BY <1>0, <3>1, <3>3, <3>4 DEF r, v, n
    <2>3. CASE i = 4 /\ p = "info"
      <3>1. n = [phase |-> "infoReply", index |-> 0]
        BY <2>3 DEF PutNext, HeaderPhases
      <3>2. /\ ~CallsStorage(e, v, st)
            /\ Answers(c, "infoReply", 0, buf, high, r, st, d)
        BY <2>3, QuestionTaken
      <3>. HIDE DEF r, v, n
      <3>. QED
        BY <3>1, <3>2 DEF PutPhases, r, v, n
    <2>4. CASE i = 4 /\ p = "mount"
      <3>1. n = [phase |-> "mountReply", index |-> 0]
        BY <2>4 DEF PutNext, HeaderPhases
      <3>2. /\ ~CallsStorage(e, v, st)
            /\ Answers(c, "mountReply", 0, buf, high, r, st, d)
        BY <2>4, QuestionTaken
      <3>. HIDE DEF r, v, n
      <3>. QED
        BY <3>1, <3>2 DEF PutPhases, r, v, n
    <2>5. CASE i = 4 /\ p = "command"
      <3>1. c.kind \in {"read", "write"}
        BY <2>5 DEF Fits, Calls, Kinds
      <3>2. n = [phase |-> IF c.kind = "write" THEN "payload" ELSE "readStatus", index |-> 0]
        BY <2>5 DEF PutNext, HeaderPhases
      <3>3. st = Ok
        BY <2>5 DEF Expects
      <3>4. /\ c.kind = "write" => Expects(c, "payload", 0, r, st) /\ ~CallsStorage(e, v, st)
            /\ c.kind = "read" =>
                 /\ CallsStorage(e, v, st)
                 /\ StorageCall(r) = "read"
                 /\ r \in Engines /\ r.track = c.track /\ r.sector = c.sector
        BY <2>5, <3>1, CommandTaken
      <3>. HIDE DEF r, v, n
      <3>. QED
        BY <1>0, <3>1, <3>2, <3>3, <3>4 DEF PutPhases, r, v, n
    <2>. QED
      BY <1>1, <2>1, <2>2, <2>3, <2>4, <2>5 DEF HeaderPhases
  <1>2. CASE p = "payload"
    <2>1. i \in 0 .. SectorBytes - 1
      BY <1>2 DEF LastIndex, HeaderPhases
    <2>2. n.phase \in {"payload", "sumHigh"}
      BY <1>2 DEF PutNext, HeaderPhases
    <2>3. Expects(c, n.phase, n.index, r, st) /\ ~CallsStorage(e, v, st)
      BY <1>2, <2>1, PayloadByteTaken
    <2>4. n.phase \in PutPhases /\ n.phase # "writeStatus"
      BY <2>2 DEF PutPhases
    <2>. HIDE DEF r, v, n
    <2>. QED
      BY <1>0, <2>3, <2>4 DEF r, v, n
  <1>3. CASE p = "sumHigh"
    <2>1. i = 0 /\ total = sectorChecksum(c.data)
      BY <1>3 DEF LastIndex, HeaderPhases
    <2>2. n = [phase |-> "sumLow", index |-> 0]
      BY <1>3 DEF PutNext, HeaderPhases
    <2>3. Expects(c, "sumLow", 0, r, st) /\ ~CallsStorage(e, v, st)
      BY <1>3, <2>1, SumHighTaken
    <2>4. "sumLow" \in PutPhases
      BY DEF PutPhases
    <2>. HIDE DEF r, v, n
    <2>. QED
      BY <1>0, <2>2, <2>3, <2>4 DEF r, v, n
  <1>4. CASE p = "sumLow"
    <2>1. i = 0 /\ total = sectorChecksum(c.data) /\ c.kind = "write" /\ st = Ok
      BY <1>4 DEF LastIndex, HeaderPhases, Fits, WritePhases, Expects
    <2>2. n = [phase |-> "writeStatus", index |-> 0]
      BY <1>4 DEF PutNext, HeaderPhases
    <2>3. /\ CallsStorage(e, v, st)
          /\ StorageCall(r) = "write"
          /\ r \in Engines /\ r.track = c.track /\ r.sector = c.sector
          /\ r.buffer = c.data
      BY <1>4, <2>1, SumLowTaken
    <2>. HIDE DEF r, v, n
    <2>. QED
      BY <2>1, <2>2, <2>3 DEF r, v, n
  <1>. QED
    BY <1>1, <1>2, <1>3, <1>4 DEF PutPhases, HeaderPhases

\* An engine that expects a byte is not presenting one.
LEMMA ExpectingReceives ==
  ASSUME NEW e, NEW c, NEW p \in PutPhases, NEW i \in 0 .. LastIndex(p), NEW st,
         Expects(c, p, i, e, st)
  PROVE  Receiving(e)
PROOF
  <1>1. CASE p \in HeaderPhases
    <2>1. i \in 0 .. 4
      BY <1>1 DEF LastIndex, HeaderPhases
    <2>2. e.state = HeaderStates[i + 1]
      BY <1>1 DEF Expects
    <2>3. i + 1 = 1 \/ i + 1 = 2 \/ i + 1 = 3 \/ i + 1 = 4 \/ i + 1 = 5
      BY <2>1
    <2>4. e.state \in {"SyncA", "SyncB", "Opcode", "Track", "Sector"}
      BY <1>1, <2>2, <2>3, HeaderBytes
    <2>. QED
      BY <2>4 DEF Receiving
  <1>2. CASE p \notin HeaderPhases
    BY <1>2 DEF Expects, Receiving, PutPhases, HeaderPhases
  <1>. QED
    BY <1>1, <1>2

-----------------------------------------------------------------------------
(* What the transport makes of the engine's bytes.                         *)

\* The byte that is presented is the one that the transport's place calls for.
LEMMA ResponseByteIs ==
  ASSUME NEW e \in Engines, NEW c, NEW p \in GetPhases, NEW i \in 0 .. LastIndex(p),
         NEW buf, NEW high, NEW st, NEW d, Answers(c, p, i, buf, high, e, st, d)
  PROVE  LET v == ResponseByte(e)
         IN  /\ p = "infoReply" => v = SdInfo[i + 1]
             /\ p \in {"mountReply", "readStatus", "writeStatus"} => v = st
             /\ p = "data" => v = d[OffsetOf(c)][i]
             /\ p = "dataHigh" => v = HighByte(sectorChecksum(d[OffsetOf(c)]))
             /\ p = "dataLow" => v = LowByte(sectorChecksum(d[OffsetOf(c)]))
PROOF
  <1>. DEFINE v == ResponseByte(e)
  <1>0. SectorBytes \in Nat /\ SectorBytes >= 1
    BY SectorBytesFacts
  <1>1. CASE p = "infoReply"
    <2>1. i \in 0 .. 5
      BY <1>1 DEF LastIndex, HeaderPhases
    <2>2. e.readReply = FALSE /\ e.outAt = i /\ e.reply = InfoReply
      BY <1>1 DEF Answers
    <2>3. v = e.reply[e.outAt + 1]
      BY <2>2 DEF ResponseByte
    <2>4. SdInfo[i + 1] = InfoReply[i + 1]
      <3>1. SectorBytes % 256 = LowByte(SectorBytes) /\ SectorBytes \div 256 = HighByte(SectorBytes)
        BY DEF LowByte, HighByte
      <3>2. SdInfo = InfoReply
        BY <3>1 DEF SdInfo, InfoReply, Ok, ProtocolVersion
      <3>. QED
        BY <3>2
    <2>. QED
      BY <1>1, <2>2, <2>3, <2>4
  <1>2. CASE p \in {"mountReply", "readStatus", "writeStatus"}
    <2>1. e.outAt = 0 /\ e.reply[1] = st
      BY <1>2 DEF Answers, StatusReply, SectorReply
    <2>2. v = e.reply[e.outAt + 1]
      <3>1. /\ e.outAt \notin 1 .. SectorBytes /\ e.outAt # SectorBytes + 1
            /\ ~(e.outAt > SectorBytes + 1)
        BY <1>0, <2>1
      <3>. QED
        BY <2>1, <3>1 DEF ResponseByte
    <2>3. v = st
      BY <2>1, <2>2
    <2>. QED
      BY <1>2, <2>3
  <1>3. CASE p = "data"
    <2>1. i \in 0 .. SectorBytes - 1
      BY <1>3 DEF LastIndex, HeaderPhases
    <2>2. e.readReply = TRUE /\ e.outAt = i + 1 /\ e.buffer = d[OffsetOf(c)]
      BY <1>3 DEF Answers, SectorReply
    <2>3. e.outAt \in 1 .. SectorBytes /\ e.outAt # 0 /\ e.outAt - 1 = i
          /\ ~(e.outAt = SectorBytes + 1) /\ ~(e.outAt > SectorBytes + 1)
      BY <1>0, <2>1, <2>2
    <2>4. v = e.buffer[e.outAt - 1]
      BY <2>2, <2>3 DEF ResponseByte
    <2>. QED
      BY <1>3, <2>2, <2>3, <2>4
  <1>4. CASE p = "dataHigh"
    <2>1. e.readReply = TRUE /\ e.outAt = SectorBytes + 1
          /\ e.checksum = sectorChecksum(d[OffsetOf(c)])
      BY <1>4 DEF Answers, SectorReply
    <2>2. e.outAt # 0 /\ e.outAt \notin 1 .. SectorBytes /\ ~(e.outAt > SectorBytes + 1)
      BY <1>0, <2>1
    <2>3. v = HighByte(e.checksum)
      BY <2>1, <2>2 DEF ResponseByte
    <2>. QED
      BY <1>4, <2>1, <2>3
  <1>5. CASE p = "dataLow"
    <2>1. e.readReply = TRUE /\ e.outAt = SectorBytes + 2
          /\ e.checksum = sectorChecksum(d[OffsetOf(c)])
      BY <1>5 DEF Answers, SectorReply
    <2>2. e.outAt # 0 /\ e.outAt \notin 1 .. SectorBytes /\ e.outAt > SectorBytes + 1
          /\ e.outAt # SectorBytes + 1
      BY <1>0, <2>1
    <2>3. v = LowByte(e.checksum)
      BY <2>1, <2>2 DEF ResponseByte
    <2>. QED
      BY <1>5, <2>1, <2>3
  <1>. HIDE DEF v
  <1>. QED
    BY <1>1, <1>2, <1>3, <1>4, <1>5 DEF v

\* An acknowledged byte gives way to the next, the last one to a new request.
LEMMA AcknowledgedIs ==
  ASSUME NEW e \in Engines, NEW c, NEW p \in GetPhases, NEW i \in 0 .. LastIndex(p),
         NEW buf \in Buffers, NEW high, NEW st, NEW d,
         p \in ReadPhases => d[OffsetOf(c)] \in Buffers,
         Answers(c, p, i, buf, high, e, st, d)
  PROVE  LET a == AcknowledgeResponse(e)
             data == d[OffsetOf(c)]
             next == [buf EXCEPT ![i] = data[i]]
         IN  /\ p = "infoReply" =>
                  IF i < 5 THEN Answers(c, "infoReply", i + 1, buf, high, a, st, d)
                           ELSE a.state = "SyncA"
             /\ p \in {"mountReply", "writeStatus", "dataLow"} => a.state = "SyncA"
             /\ p = "readStatus" =>
                  IF st = Ok THEN Answers(c, "data", 0, buf, high, a, st, d)
                             ELSE a.state = "SyncA"
             /\ p = "data" =>
                  IF i + 1 < SectorBytes
                    THEN Answers(c, "data", i + 1, next, high, a, st, d)
                    ELSE Answers(c, "dataHigh", 0, next, high, a, st, d)
             /\ p = "dataHigh" =>
                  Answers(c, "dataLow", 0, buf, HighByte(sectorChecksum(data)), a, st, d)
PROOF
  <1>. DEFINE a == AcknowledgeResponse(e)
              data == d[OffsetOf(c)]
              next == [buf EXCEPT ![i] = data[i]]
  <1>0. SectorBytes \in Nat /\ SectorBytes >= 1
    BY SectorBytesFacts
  <1>1. ~Receiving(e) /\ e.state = "Response"
    BY DEF Answers, Receiving
  <1>2. ASSUME e.outAt + 1 = e.outSize PROVE a.state = "SyncA"
    <2>1. a = EngineReset(e)
      BY <1>1, <1>2 DEF AcknowledgeResponse
    <2>. QED
      BY <2>1 DEF EngineReset, Engines
  <1>3. ASSUME e.outAt + 1 # e.outSize
        PROVE  /\ a.state = "Response" /\ a.outAt = e.outAt + 1
               /\ a.readReply = e.readReply /\ a.outSize = e.outSize
               /\ a.reply = e.reply /\ a.buffer = e.buffer /\ a.checksum = e.checksum
    <2>1. a = [e EXCEPT !.outAt = @ + 1]
      BY <1>1, <1>3 DEF AcknowledgeResponse
    <2>. QED
      BY <1>1, <2>1 DEF Engines
  <1>4. ASSUME NEW n \in 0 .. SectorBytes + 1, SectorReply(e, n, data)
        PROVE  a.state = "Response" /\ SectorReply(a, n + 1, data)
    <2>1. e.outAt + 1 # e.outSize
      BY <1>0, <1>4 DEF SectorReply
    <2>. QED
      BY <1>3, <1>4, <2>1 DEF SectorReply
  <1>. HIDE DEF a, data
  <1>5. CASE p = "infoReply"
    <2>1. i \in 0 .. 5
      BY <1>5 DEF LastIndex, HeaderPhases
    <2>2. e.readReply = FALSE /\ e.outSize = 6 /\ e.outAt = i /\ e.reply = InfoReply
      BY <1>5 DEF Answers
    <2>3. CASE i < 5
      <3>1. e.outAt + 1 # e.outSize
        BY <2>1, <2>2, <2>3
      <3>. QED
        BY <1>3, <1>5, <2>2, <2>3, <3>1 DEF Answers, a
    <2>4. CASE ~(i < 5)
      <3>1. e.outAt + 1 = e.outSize
        BY <2>1, <2>2, <2>4
      <3>. QED
        BY <1>2, <1>5, <2>4, <3>1 DEF a
    <2>. QED
      BY <2>3, <2>4
  <1>6. CASE p \in {"mountReply", "writeStatus"}
    <2>1. e.outAt + 1 = e.outSize
      BY <1>6 DEF Answers, StatusReply
    <2>. QED
      BY <1>2, <1>6, <2>1 DEF a
  <1>7. CASE p = "dataLow"
    <2>1. e.outAt + 1 = e.outSize
      BY <1>0, <1>7 DEF Answers, SectorReply
    <2>. QED
      BY <1>2, <1>7, <2>1 DEF a
  <1>8. CASE p = "readStatus"
    <2>1. CASE st = Ok
      <3>1. SectorReply(e, 0, data) /\ 0 \in 0 .. SectorBytes + 1
        BY <1>0, <1>8, <2>1 DEF Answers, data
      <3>2. a.state = "Response" /\ SectorReply(a, 0 + 1, data)
        BY <1>4, <3>1
      <3>3. Answers(c, "data", 0, buf, high, a, st, d)
        BY <2>1, <3>2 DEF Answers, data
      <3>. QED
        BY <1>8, <2>1, <3>3 DEF a
    <2>2. CASE st # Ok
      <3>1. e.outAt + 1 = e.outSize
        BY <1>8, <2>2 DEF Answers, StatusReply
      <3>. QED
        BY <1>2, <1>8, <2>2, <3>1 DEF a
    <2>. QED
      BY <2>1, <2>2
  <1>9. CASE p = "data"
    <2>1. i \in 0 .. SectorBytes - 1
      BY <1>9 DEF LastIndex, HeaderPhases
    <2>2. /\ SectorReply(e, i + 1, data) /\ st = Ok
          /\ \A k \in 0 .. i - 1 : buf[k] = data[k]
      BY <1>9 DEF Answers, data
    <2>3. i + 1 \in 0 .. SectorBytes + 1 /\ (i + 1) - 1 = i
      BY <1>0, <2>1
    <2>4. a.state = "Response" /\ SectorReply(a, (i + 1) + 1, data)
      BY <1>4, <2>2, <2>3
    <2>5. data \in Buffers
      BY <1>9 DEF data, ReadPhases
    <2>6. next \in Buffers /\ \A k \in 0 .. i : next[k] = data[k]
      <3>1. next \in Buffers
        BY <2>1, <2>5 DEF Buffers
      <3>2. ASSUME NEW k \in 0 .. i PROVE next[k] = data[k]
        <4>1. k \in 0 .. SectorBytes - 1 /\ (k # i => k \in 0 .. i - 1)
          BY <1>0, <2>1
        <4>. QED
          BY <2>2, <4>1 DEF Buffers
      <3>. QED
        BY <3>1, <3>2
    <2>. HIDE DEF next
    <2>7. CASE i + 1 < SectorBytes
      <3>1. Answers(c, "data", i + 1, next, high, a, st, d)
        BY <2>2, <2>3, <2>4, <2>6 DEF Answers, data
      <3>. QED
        BY <1>9, <2>7, <3>1 DEF a, next, data
    <2>8. CASE ~(i + 1 < SectorBytes)
      <3>1. i + 1 = SectorBytes /\ 0 .. i = 0 .. SectorBytes - 1
        BY <1>0, <2>1, <2>8
      <3>2. next = data
        BY <2>5, <2>6, <3>1 DEF Buffers
      <3>3. Answers(c, "dataHigh", 0, next, high, a, st, d)
        BY <2>2, <2>4, <3>1, <3>2 DEF Answers, data
      <3>. QED
        BY <1>9, <2>8, <3>3 DEF a, next, data
    <2>. QED
      BY <2>7, <2>8
  <1>10. CASE p = "dataHigh"
    <2>1. SectorReply(e, SectorBytes + 1, data) /\ st = Ok /\ buf = data
      BY <1>10 DEF Answers, data
    <2>2. SectorBytes + 1 \in 0 .. SectorBytes + 1 /\ (SectorBytes + 1) + 1 = SectorBytes + 2
      BY <1>0
    <2>3. a.state = "Response" /\ SectorReply(a, (SectorBytes + 1) + 1, data)
      BY <1>4, <2>1, <2>2
    <2>4. Answers(c, "dataLow", 0, buf, HighByte(sectorChecksum(data)), a, st, d)
      BY <2>1, <2>2, <2>3 DEF Answers, data
    <2>. QED
      BY <1>10, <2>4 DEF a, data
  <1>11. p # "infoDrain"
    BY DEF Answers
  <1>. HIDE DEF next
  <1>. QED
    BY <1>5, <1>6, <1>7, <1>8, <1>9, <1>10, <1>11 DEF GetPhases, a, data, next

\* A transfer's sector lies in the image.
LEMMA CallInImage ==
  ASSUME NEW c \in Calls, ~BadCallAddress(c), c.kind # "ready"
  PROVE  OffsetOf(c) \in Offsets
PROOF
  <1>1. validAddress(c.track, c.sector)
    BY DEF BadCallAddress
  <1>2. c.track \in Nat /\ c.sector \in Nat
    BY DEF Calls, Byte
  <1>3. c.track \in 0 .. Tracks - 1 /\ c.sector \in 1 .. SectorsPerTrack
    BY <1>1, <1>2, GeometryAssumption DEF validAddress
  <1>. QED
    BY <1>3 DEF OffsetOf, Offsets

\* An engine that has been reset expects the first byte of any header.
LEMMA ResetExpectsHeader ==
  ASSUME NEW a, a.state = "SyncA", NEW c, NEW p \in HeaderPhases, NEW st,
         p = "command" => st = Ok
  PROVE  Expects(c, p, 0, a, st)
PROOF
  BY HeaderBytes DEF Expects, HeaderPhases, HeaderStates

\* The transport uses the byte that the engine presented, and raises CB2.  It
\* is at its next place in the script when the engine has seen that, or its
\* call has returned the very result.
LEMMA ReplyByteUsed ==
  ASSUME HostInv, HostConsumes, NEW e \in Engines, NEW st, NEW d \in Images,
         Answers(op, phase, index, sdBuffer, remoteHigh, e, st, d), byte = ResponseByte(e)
  PROVE  LET a == AcknowledgeResponse(e)
         IN  \/ /\ hostPc' \in {"put", "waitReady"} /\ result' = result
                /\ phase # "writeStatus" /\ phase' # "writeStatus"
                /\ hostPc' = "put" =>
                     phase' \in PutPhases /\ Expects(op, phase', index', a, st)
                /\ hostPc' = "waitReady" =>
                     /\ phase' \in GetPhases
                     /\ Answers(op, phase', index', sdBuffer', remoteHigh', a, st, d)
                /\ sdBuffer' # sdBuffer => op.kind = "read"
             \/ /\ hostPc' = "idle" /\ a.state = "SyncA"
                /\ result' = IF st = Ok THEN Ok ELSE FailCode
                /\ sdBuffer' = sdBuffer
                /\ op.kind = "write" /\ st = Ok => phase = "writeStatus"
                /\ op.kind = "read" /\ st = Ok => sdBuffer = d[OffsetOf(op)]
PROOF
  <1>. DEFINE a == AcknowledgeResponse(e)
              data == d[OffsetOf(op)]
              Goes == /\ hostPc' \in {"put", "waitReady"} /\ result' = result
                      /\ phase # "writeStatus" /\ phase' # "writeStatus"
                      /\ hostPc' = "put" =>
                           phase' \in PutPhases /\ Expects(op, phase', index', a, st)
                      /\ hostPc' = "waitReady" =>
                           /\ phase' \in GetPhases
                           /\ Answers(op, phase', index', sdBuffer', remoteHigh', a, st, d)
                      /\ sdBuffer' # sdBuffer => op.kind = "read"
              Returns == /\ hostPc' = "idle" /\ a.state = "SyncA"
                         /\ result' = IF st = Ok THEN Ok ELSE FailCode
                         /\ sdBuffer' = sdBuffer
                         /\ op.kind = "write" /\ st = Ok => phase = "writeStatus"
                         /\ op.kind = "read" /\ st = Ok => sdBuffer = d[OffsetOf(op)]
  <1>1. /\ HostTypeOK /\ op \in Calls /\ op.kind \in Kinds /\ sdBuffer \in Buffers
        /\ hostPc = "consuming" /\ StoresByte /\ AfterGet
    BY DEF HostInv, HostTypeOK, Calls, HostConsumes
  <1>2. /\ phase \in GetPhases /\ index \in 0 .. LastIndex(phase) /\ ~BadCallAddress(op)
        /\ Fits(op, phase)
    BY <1>1 DEF HostInv, ScriptInv, Talking, Getting
  <1>3. phase \in ReadPhases => op.kind = "read" /\ data \in Buffers
    <2>1. ASSUME phase \in ReadPhases PROVE op.kind = "read" /\ OffsetOf(op) \in Offsets
      BY <1>1, <1>2, <2>1, CallInImage DEF Fits
    <2>. QED
      BY <2>1 DEF Images
  <1>4. /\ sdBuffer' = IF phase = "data" THEN [sdBuffer EXCEPT ![index] = byte] ELSE sdBuffer
        /\ remoteHigh' = IF phase = "dataHigh" THEN byte ELSE remoteHigh
    BY <1>1, StoresByteIs
  <1>5. /\ phase = "infoReply" => byte = SdInfo[index + 1]
        /\ phase \in {"mountReply", "readStatus", "writeStatus"} => byte = st
        /\ phase = "data" => byte = data[index]
        /\ phase = "dataHigh" => byte = HighByte(sectorChecksum(data))
        /\ phase = "dataLow" => byte = LowByte(sectorChecksum(data))
    BY <1>2, ResponseByteIs, SMTT(60)
  <1>6. /\ phase = "infoReply" =>
             IF index < 5 THEN Answers(op, "infoReply", index + 1, sdBuffer, remoteHigh, a, st, d)
                          ELSE a.state = "SyncA"
        /\ phase \in {"mountReply", "writeStatus", "dataLow"} => a.state = "SyncA"
        /\ phase = "readStatus" =>
             IF st = Ok THEN Answers(op, "data", 0, sdBuffer, remoteHigh, a, st, d)
                        ELSE a.state = "SyncA"
        /\ phase = "data" =>
             IF index + 1 < SectorBytes
               THEN Answers(op, "data", index + 1, [sdBuffer EXCEPT ![index] = data[index]],
                            remoteHigh, a, st, d)
               ELSE Answers(op, "dataHigh", 0, [sdBuffer EXCEPT ![index] = data[index]],
                            remoteHigh, a, st, d)
        /\ phase = "dataHigh" =>
             Answers(op, "dataLow", 0, sdBuffer, HighByte(sectorChecksum(data)), a, st, d)
    BY <1>1, <1>2, <1>3, AcknowledgedIs
  <1>. SUFFICES Goes \/ Returns
    BY Zenon
  <1>. HIDE DEF a, data
  <1>7. ASSUME NEW p \in GetPhases, NEW i \in 0 .. LastIndex(p), Goto(p, i),
               p # "writeStatus", phase # "writeStatus",
               Answers(op, p, i, sdBuffer', remoteHigh', a, st, d),
               sdBuffer' # sdBuffer => op.kind = "read"
        PROVE  Goes
    <2>1. p \in PutPhases \cup GetPhases /\ p \notin PutPhases
      BY DEF PutPhases, GetPhases
    <2>2. hostPc' \in {"put", "waitReady"} /\ result' = result /\ phase' = p /\ index' = i
          /\ (hostPc' = "put" <=> phase' \in PutPhases)
      BY <1>1, <1>7, <2>1, GotoKeepsTypes
    <2>. QED
      BY <1>7, <2>1, <2>2
  <1>8. ASSUME NEW p \in HeaderPhases, Goto(p, 0), phase # "writeStatus",
               a.state = "SyncA", p = "command" => st = Ok, sdBuffer' = sdBuffer
        PROVE  Goes
    <2>1. p \in PutPhases \cup GetPhases /\ p \in PutPhases /\ p \notin GetPhases
          /\ 0 \in 0 .. LastIndex(p)
      BY DEF PutPhases, GetPhases, HeaderPhases, LastIndex
    <2>2. hostPc' \in {"put", "waitReady"} /\ result' = result /\ phase' = p /\ index' = 0
          /\ (hostPc' = "waitReady" <=> phase' \in GetPhases)
      BY <1>1, <1>8, <2>1, GotoKeepsTypes
    <2>3. Expects(op, p, 0, a, st)
      BY <1>8, ResetExpectsHeader
    <2>4. phase' # "writeStatus"
      BY <2>1, <2>2 DEF PutPhases
    <2>. QED
      BY <1>8, <2>1, <2>2, <2>3, <2>4
  <1>9. ASSUME NEW code \in {Ok, FailCode, ChecksumCode}, Return(code),
               code = IF st = Ok THEN Ok ELSE FailCode, a.state = "SyncA",
               sdBuffer' = sdBuffer,
               op.kind = "write" /\ st = Ok => phase = "writeStatus",
               op.kind = "read" /\ st = Ok => sdBuffer = data
        PROVE  Returns
    <2>1. hostPc' = "idle" /\ result' = code
      BY <1>1, <1>9, ReturnKeepsTypes
    <2>. QED
      BY <1>9, <2>1 DEF data
  <1>10. CASE phase = "infoReply"
    <2>1. IF index < 5 THEN Goto("infoReply", index + 1) ELSE Goto("mount", 0)
      BY <1>1, <1>2, <1>5, <1>10, AfterGetGoes, Zenon
    <2>2. index \in 0 .. 5 /\ LastIndex("infoReply") = 5
      BY <1>2, <1>10 DEF LastIndex, HeaderPhases
    <2>3. sdBuffer' = sdBuffer /\ remoteHigh' = remoteHigh
      BY <1>4, <1>10
    <2>4. CASE index < 5
      <3>1. index + 1 \in 0 .. LastIndex("infoReply") /\ "infoReply" \in GetPhases
        BY <2>2, <2>4 DEF GetPhases
      <3>. QED
        BY <1>6, <1>7, <1>10, <2>1, <2>3, <2>4, <3>1
    <2>5. CASE ~(index < 5)
      <3>1. "mount" \in HeaderPhases
        BY DEF HeaderPhases
      <3>. QED
        BY <1>6, <1>8, <1>10, <2>1, <2>3, <2>5, <3>1
    <2>. QED
      BY <2>4, <2>5
  <1>11. CASE phase = "mountReply"
    <2>1. IF st # Ok THEN Return(FailCode)
          ELSE IF op.kind = "ready" THEN Return(Ok) ELSE Goto("command", 0)
      BY <1>1, <1>2, <1>5, <1>11, AfterGetGoes, Zenon
    <2>2. sdBuffer' = sdBuffer /\ a.state = "SyncA"
      BY <1>4, <1>6, <1>11
    <2>3. CASE st = Ok /\ op.kind # "ready"
      <3>1. "command" \in HeaderPhases
        BY DEF HeaderPhases
      <3>. QED
        BY <1>8, <1>11, <2>1, <2>2, <2>3, <3>1
    <2>4. CASE st # Ok \/ op.kind = "ready"
      BY <1>9, <1>11, <2>1, <2>2, <2>4
    <2>. QED
      BY <2>3, <2>4
  <1>12. CASE phase = "readStatus"
    <2>1. IF st = Ok THEN Goto("data", 0) ELSE Return(FailCode)
      BY <1>1, <1>2, <1>5, <1>12, AfterGetGoes, Zenon
    <2>2. sdBuffer' = sdBuffer /\ remoteHigh' = remoteHigh
      BY <1>4, <1>12
    <2>3. CASE st = Ok
      <3>1. "data" \in GetPhases /\ 0 \in 0 .. LastIndex("data")
        BY SectorBytesFacts DEF GetPhases, LastIndex, HeaderPhases
      <3>. QED
        BY <1>6, <1>7, <1>12, <2>1, <2>2, <2>3, <3>1
    <2>4. CASE st # Ok
      BY <1>6, <1>9, <1>12, <2>1, <2>2, <2>4
    <2>. QED
      BY <2>3, <2>4
  <1>13. CASE phase = "data"
    <2>1. IF index + 1 < SectorBytes THEN Goto("data", index + 1) ELSE Goto("dataHigh", 0)
      BY <1>1, <1>2, <1>13, AfterGetGoes, Zenon
    <2>2. /\ sdBuffer' = [sdBuffer EXCEPT ![index] = data[index]]
          /\ remoteHigh' = remoteHigh /\ op.kind = "read"
      BY <1>3, <1>4, <1>5, <1>13 DEF ReadPhases
    <2>3. CASE index + 1 < SectorBytes
      <3>1. "data" \in GetPhases /\ index + 1 \in 0 .. LastIndex("data")
        BY <1>2, <1>13, <2>3, SectorBytesFacts DEF GetPhases, LastIndex, HeaderPhases
      <3>. QED
        BY <1>6, <1>7, <1>13, <2>1, <2>2, <2>3, <3>1
    <2>4. CASE ~(index + 1 < SectorBytes)
      <3>1. "dataHigh" \in GetPhases /\ 0 \in 0 .. LastIndex("dataHigh")
        BY DEF GetPhases, LastIndex, HeaderPhases
      <3>. QED
        BY <1>6, <1>7, <1>13, <2>1, <2>2, <2>4, <3>1
    <2>. QED
      BY <2>3, <2>4
  <1>14. CASE phase = "dataHigh"
    <2>1. Goto("dataLow", 0)
      BY <1>1, <1>2, <1>14, AfterGetGoes, Zenon
    <2>2. sdBuffer' = sdBuffer /\ remoteHigh' = HighByte(sectorChecksum(data))
      BY <1>4, <1>5, <1>14
    <2>3. "dataLow" \in GetPhases /\ 0 \in 0 .. LastIndex("dataLow")
      BY DEF GetPhases, LastIndex, HeaderPhases
    <2>. QED
      BY <1>6, <1>7, <1>14, <2>1, <2>2, <2>3
  <1>15. CASE phase = "dataLow"
    <2>1. /\ st = Ok /\ sdBuffer = data
          /\ remoteHigh = HighByte(sectorChecksum(data))
      BY <1>15 DEF Answers, data
    <2>2. sum = sectorChecksum(sdBuffer) /\ op.kind = "read"
      BY <1>1, <1>3, <1>15 DEF HostInv, SumInv, Talking, Getting, ReadPhases
    <2>3. byte = LowByte(sum) /\ remoteHigh = HighByte(sum)
      BY <1>5, <1>15, <2>1, <2>2
    <2>4. Return(Ok)
      BY <1>1, <1>2, <1>15, <2>3, AfterGetGoes, Zenon
    <2>5. sdBuffer' = sdBuffer /\ a.state = "SyncA"
      BY <1>4, <1>6, <1>15
    <2>. QED
      BY <1>9, <2>1, <2>2, <2>4, <2>5
  <1>16. CASE phase = "writeStatus"
    <2>1. Return(IF st = Ok THEN Ok ELSE FailCode)
      BY <1>1, <1>2, <1>5, <1>16, AfterGetGoes, Zenon
    <2>2. sdBuffer' = sdBuffer /\ a.state = "SyncA" /\ op.kind = "write"
      BY <1>2, <1>4, <1>6, <1>16 DEF Fits, WritePhases
    <2>3. (IF st = Ok THEN Ok ELSE FailCode) \in {Ok, FailCode, ChecksumCode}
      OBVIOUS
    <2>. QED
      BY <1>9, <1>16, <2>1, <2>2, <2>3
  <1>17. phase # "infoDrain"
    BY DEF Answers
  <1>. QED
    BY <1>2, <1>10, <1>11, <1>12, <1>13, <1>14, <1>15, <1>16, <1>17 DEF GetPhases
=============================================================================
