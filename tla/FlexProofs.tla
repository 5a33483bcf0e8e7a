----------------------------- MODULE FlexProofs -----------------------------
(***************************************************************************)
(* Theorems about FLEX's single-sector operations over the C68 driver, for *)
(* every geometry, every limit of tries and restores, and every program    *)
(* that shares the driver: the selection is the chosen drive, transfers go *)
(* to the FCB's drive, SRAM changes only in the sectors of writes, and a   *)
(* sector operation that returns Ok has moved its sector.                  *)
(***************************************************************************)
EXTENDS FlexFms, TLAPS

FmsTypeOK ==
  /\ DriveTypeOK
  /\ fms \in {"idle", "select", "transfer", "restore",
              "selecting", "transferring", "restoring"}
  /\ fcb \in Requests

\* What the driver waits for is what it was asked, and the SD volume has
\* settled when it has succeeded.
DriverWaits ==
  /\ driver = "idle" => outcome # Pending
  /\ driver = "select" => request.drive = SdDrive
  /\ driver = "transfer" =>
       /\ c68sd
       /\ request.kind \in {"read", "write"}
       /\ call = SdCall(request)
       /\ SettledBySuccess

\* The sector of a transfer and its buffer agree, and nothing can disturb them.
Moved(r) ==
  /\ Stored(r.drive, r.track, r.sector) = IF r.kind = "read" THEN received ELSE r.data
  /\ r.drive = SdDrive => unsettled = {}

\* Where FLEX is, the driver is.
FmsWaits ==
  /\ fms # "idle" => fcb.kind \in {"read", "write"}
  /\ fms \in {"transfer", "restore"} => driver = "idle"
  /\ fms \in {"selecting", "restoring"} =>
       request = [fcb EXCEPT !.kind = "select"] /\ driver \in {"idle", "select"}
  /\ fms = "transferring" => request = fcb /\ driver \in {"idle", "transfer"}

\* The drive of the FCB is chosen from the first selection on, also when a
\* RESTOR fails.
FcbIsChosen ==
  /\ fms \in {"transfer", "transferring", "restore", "restoring"} => chosen = fcb.drive
  /\ fms = "selecting" /\ driver = "idle" /\ code = Ok => chosen = fcb.drive

SectorIsMoved ==
  /\ fms = "transferring" /\ driver = "idle" /\ code = Ok => Moved(fcb)
  /\ fms = "idle" /\ answer = Ok => Moved(fcb) /\ driver = "idle"

FlexInv ==
  /\ FmsTypeOK
  /\ SelectionIsChosen
  /\ DriverWaits
  /\ FmsWaits
  /\ FcbIsChosen
  /\ SectorIsMoved

-----------------------------------------------------------------------------
(* Operators.                                                              *)

\* The codes and marks are different numbers.
LEMMA CodesDiffer ==
  /\ Ok \notin {FailCode, ChecksumCode, NoResult, Pending}
  /\ FailCode \notin {ChecksumCode, NoResult, Pending}
  /\ ChecksumCode \notin {NoResult, Pending}
  /\ NoResult # Pending
PROOF
  BY DEF Ok, FailCode, ChecksumCode, NoResult, Pending

\* A buffer of zeros is a buffer.
LEMMA ZeroIsBuffer == ZeroBuffer \in Buffers
PROOF
  BY DEF ZeroBuffer, Buffers, Byte

\* A torn buffer is a buffer.
LEMMA MixedIsBuffer ==
  ASSUME NEW first \in Buffers, NEW rest \in Buffers, NEW n
  PROVE  Mixed(first, n, rest) \in Buffers
PROOF
  BY DEF Mixed, Buffers

\* A call that is not refused for its address names a sector of the image.
LEMMA GoodCallInImage ==
  ASSUME NEW c \in Calls, c.kind # "ready", ~BadCallAddress(c)
  PROVE  OffsetOf(c) \in Offsets
PROOF
  <1>1. c.track \in Nat /\ c.sector \in Nat
    BY DEF Calls, Byte
  <1>2. c.track < Tracks /\ c.sector >= 1 /\ c.sector <= SectorsPerTrack
    BY DEF BadCallAddress, validAddress
  <1>3. Tracks \in Nat /\ SectorsPerTrack \in Nat
    BY GeometryAssumption
  <1>4. c.track \in 0 .. Tracks - 1 /\ c.sector \in 1 .. SectorsPerTrack
    BY <1>1, <1>2, <1>3
  <1>. QED
    BY <1>4 DEF OffsetOf, Offsets

\* Only the writes of sectors that exist are at risk.
LEMMA AttemptedAreWrites ==
  ASSUME NEW c \in Calls
  PROVE  Attempted(c) \subseteq Writes
PROOF
  <1>1. CASE c.kind = "write" /\ ~BadCallAddress(c)
    <2>1. OffsetOf(c) \in Offsets
      BY <1>1, GoodCallInImage
    <2>2. c.data \in Buffers
      BY DEF Calls
    <2>. QED
      BY <1>1, <2>1, <2>2 DEF Attempted, Writes
  <1>2. CASE ~(c.kind = "write" /\ ~BadCallAddress(c))
    BY <1>2 DEF Attempted
  <1>. QED
    BY <1>1, <1>2

\* The driver asks the SD transport for a call.
LEMMA SdCallIsCall ==
  ASSUME NEW r \in Requests
  PROVE  SdCall(r) \in Calls
PROOF
  <1>1. NoCall \in Calls
    BY ZeroIsBuffer DEF NoCall, Calls, Kinds, Byte
  <1>. QED
    BY <1>1 DEF SdCall, Calls, Kinds, Requests

\* What a transfer asks for is a sector of the volume that is selected.
LEMMA PageOfSector ==
  ASSUME NEW r \in Requests, SramAddress(r), c68base \in {0, SramTracks}
  PROVE  /\ PageOf(r) \in Pages
         /\ PageOf(r) \in c68base .. c68base + SramTracks - 1
         /\ r.sector \in 1 .. SramSectors
PROOF
  <1>1. r.track \in Nat
    BY DEF Requests, Byte
  <1>. QED
    BY <1>1, DriveAssumption DEF SramAddress, PageOf, Pages

-----------------------------------------------------------------------------
(* Types.                                                                  *)

\* A call that is made keeps the SD volume's types.
LEMMA AskKeepsVolume ==
  ASSUME VolumeTypeOK, Asks
  PROVE  VolumeTypeOK'
PROOF
  <1>1. call' \in Calls /\ outcome' \in {FailCode, Pending}
    BY DEF Asks
  <1>2. Attempted(call') \subseteq Writes
    BY <1>1, AttemptedAreWrites
  <1>. QED
    BY <1>1, <1>2 DEF Asks, VolumeTypeOK

\* So does whatever happens while it waits.
LEMMA VolumeStepsKeepVolume ==
  ASSUME VolumeTypeOK, VolumeSteps
  PROVE  VolumeTypeOK'
PROOF
  <1>1. ASSUME NEW write \in unsettled, NEW n \in 0 .. SectorBytes, Lands(write, n)
        PROVE  VolumeTypeOK'
    <2>1. write \in Writes
      BY DEF VolumeTypeOK
    <2>2. write.offset \in Offsets /\ write.data \in Buffers
      BY <2>1 DEF Writes
    <2>3. volume[write.offset] \in Buffers
      BY <2>2 DEF VolumeTypeOK, Images
    <2>4. Mixed(write.data, n, volume[write.offset]) \in Buffers
      BY <2>2, <2>3, MixedIsBuffer
    <2>5. volume' \in Images
      BY <1>1, <2>4 DEF Lands, VolumeTypeOK, Images
    <2>. QED
      BY <1>1, <2>5 DEF Lands, VolumeTypeOK
  <1>2. CASE Fills
    BY <1>2 DEF Fills, VolumeTypeOK
  <1>3. CASE Succeeds
    <2>1. received' \in Buffers
      <3>1. CASE call.kind = "read"
        <4>1. OffsetOf(call) \in Offsets
          BY <1>3, <3>1, GoodCallInImage DEF Succeeds, VolumeTypeOK
        <4>. QED
          BY <1>3, <3>1, <4>1 DEF Succeeds, VolumeTypeOK, Images
      <3>2. CASE call.kind # "read"
        BY <1>3, <3>2 DEF Succeeds, VolumeTypeOK
      <3>. QED
        BY <3>1, <3>2
    <2>. QED
      BY <1>3, <2>1 DEF Succeeds, VolumeTypeOK
  <1>4. CASE Fails
    BY <1>4 DEF Fails, VolumeTypeOK
  <1>. QED
    BY <1>1, <1>2, <1>3, <1>4 DEF VolumeSteps

\* A store into SRAM, whole or torn, keeps its type.
LEMMA StoreKeepsSram ==
  ASSUME NEW p \in Pages, NEW s \in 1 .. SramSectors, NEW data \in Buffers,
         sram \in SramImages
  PROVE  [sram EXCEPT ![p][s] = data] \in SramImages
PROOF
  BY DEF SramImages

\* A call of the driver keeps the types.
LEMMA DriveCallsKeepTypes ==
  ASSUME DriveTypeOK, NEW r \in Requests, DriveCalls(r)
  PROVE  DriveTypeOK'
PROOF
  <1>. USE DEF Returns
  <1>1. request' = r /\ r \in Requests /\ VolumeTypeOK
    BY DEF DriveCalls, DriveTypeOK
  <1>2. CASE NoSuchDrive
    BY <1>1, <1>2 DEF NoSuchDrive, DriveTypeOK, volumeVars, VolumeTypeOK
  <1>3. CASE SramIsReady
    BY <1>1, <1>3 DEF SramIsReady, DriveTypeOK, volumeVars, VolumeTypeOK
  <1>4. CASE SelectSram
    BY <1>1, <1>4 DEF SelectSram, DriveTypeOK, volumeVars, VolumeTypeOK, BaseOf, Drives
  <1>5. CASE SramRefuses
    BY <1>1, <1>5 DEF SramRefuses, DriveTypeOK, volumeVars, VolumeTypeOK
  <1>6. CASE SramStores
    <2>1. PageOf(r) \in Pages /\ r.sector \in 1 .. SramSectors
      BY <1>1, <1>6, PageOfSector DEF SramStores, DriveTypeOK
    <2>2. sram' \in SramImages
      BY <1>1, <1>6, <2>1, StoreKeepsSram DEF SramStores, DriveTypeOK, Requests
    <2>. QED
      BY <1>1, <1>6, <2>1, <2>2 DEF SramStores, DriveTypeOK, volumeVars, VolumeTypeOK
  <1>7. CASE SramLoads
    <2>1. PageOf(r) \in Pages /\ r.sector \in 1 .. SramSectors
      BY <1>1, <1>7, PageOfSector DEF SramLoads, DriveTypeOK
    <2>2. received' \in Buffers
      BY <1>1, <1>7, <2>1 DEF SramLoads, DriveTypeOK, SramImages
    <2>. QED
      BY <1>1, <1>7, <2>1, <2>2 DEF SramLoads, DriveTypeOK, VolumeTypeOK
  <1>8. CASE AsksSd
    <2>1. VolumeTypeOK'
      BY <1>1, <1>8, AskKeepsVolume DEF AsksSd
    <2>2. driver' \in {"select", "check", "transfer"}
      BY <1>8 DEF AsksSd
    <2>. QED
      BY <1>1, <1>8, <2>1, <2>2 DEF AsksSd, DriveTypeOK
  <1>. QED
    BY <1>2, <1>3, <1>4, <1>5, <1>6, <1>7, <1>8 DEF DriveCalls

\* So does its answer.
LEMMA DriveAnswersKeepTypes ==
  ASSUME DriveTypeOK, DriveAnswers
  PROVE  DriveTypeOK'
PROOF
  <1>1. outcome \in {Ok, FailCode, ChecksumCode}
    BY DEF DriveAnswers, DriveTypeOK, VolumeTypeOK
  <1>. QED
    BY <1>1 DEF DriveAnswers, SdSelects, SdReturns, Returns, DriveTypeOK, volumeVars,
                VolumeTypeOK, Drives

\* And a reset, in the middle of a store or not.
LEMMA ResetKeepsTypes ==
  ASSUME DriveTypeOK, DriveReset, sram' \in SramImages
  PROVE  DriveTypeOK'
PROOF
  BY DEF DriveReset, Restarts, DriveTypeOK, VolumeTypeOK, Drives

LEMMA TornStoreKeepsSram ==
  ASSUME DriveTypeOK, NEW r \in Requests, NEW n, TornStore(r, n)
  PROVE  sram' \in SramImages
PROOF
  <1>1. PageOf(r) \in Pages /\ r.sector \in 1 .. SramSectors
    BY PageOfSector DEF TornStore, DriveTypeOK
  <1>2. sram[PageOf(r)][r.sector] \in Buffers /\ r.data \in Buffers
    BY <1>1 DEF DriveTypeOK, SramImages, Requests
  <1>3. Mixed(r.data, n, sram[PageOf(r)][r.sector]) \in Buffers
    BY <1>2, MixedIsBuffer
  <1>. QED
    BY <1>1, <1>3, StoreKeepsSram DEF TornStore, DriveTypeOK

\* What FLEX calls the driver for is a request.
LEMMA FmsCallIsRequest ==
  ASSUME FmsTypeOK
  PROVE  FmsCall \in Requests
PROOF
  BY DEF FmsTypeOK, FmsCall, Requests

-----------------------------------------------------------------------------
(* The driver.                                                             *)

\* A transfer that returns Ok at once has moved its sector of the chosen SRAM
\* volume.
LEMMA SramTransferMoves ==
  ASSUME DriveTypeOK, SelectionIsChosen, NEW r \in Requests, request' = r,
         chosen = r.drive, SramStores \/ SramLoads
  PROVE  Moved(r)'
PROOF
  <1>1. ~c68sd /\ r.drive # SdDrive /\ c68base = BaseOf(r.drive)
    BY DEF SelectionIsChosen, SramStores, SramLoads
  <1>2. PageOf(r) = BaseOf(r.drive) + r.track
    BY <1>1 DEF PageOf
  <1>3. PageOf(r) \in Pages /\ r.sector \in 1 .. SramSectors
    BY PageOfSector DEF SramStores, SramLoads, DriveTypeOK
  <1>4. CASE SramStores
    <2>1. r.kind = "write" /\ sram' = [sram EXCEPT ![PageOf(r)][r.sector] = r.data]
      BY <1>4 DEF SramStores
    <2>2. sram'[PageOf(r)][r.sector] = r.data
      BY <1>3, <2>1 DEF DriveTypeOK, SramImages
    <2>. QED
      BY <1>1, <1>2, <2>1, <2>2 DEF Moved, Stored, BaseOf
  <1>5. CASE SramLoads
    BY <1>1, <1>2, <1>5 DEF SramLoads, Moved, Stored, BaseOf
  <1>. QED
    BY <1>4, <1>5

\* What a call does before it returns or waits for the SD transport.
LEMMA DriveCallEffects ==
  ASSUME DriveTypeOK, SelectionIsChosen, DriverWaits, NEW r \in Requests, DriveCalls(r)
  PROVE  /\ SelectionIsChosen'
         /\ DriverWaits'
         /\ request' = r
         /\ r.kind = "select" =>
              /\ driver' \in {"idle", "select"}
              /\ chosen' \in {chosen, r.drive}
              /\ driver' = "idle" /\ code' = Ok => chosen' = r.drive
         /\ r.kind \in {"read", "write"} =>
              /\ driver' \in {"idle", "transfer"}
              /\ chosen' = chosen
              /\ driver' = "idle" /\ code' = Ok /\ chosen = r.drive => Moved(r)'
PROOF
  <1>. USE DEF Returns
  <1>1. request' = r /\ driver = "idle" /\ outcome # Pending
    BY DEF DriveCalls, DriverWaits
  <1>2. CASE NoSuchDrive
    BY <1>1, <1>2, CodesDiffer DEF NoSuchDrive, SelectionIsChosen, DriverWaits, volumeVars, BaseOf
  <1>3. CASE SramIsReady
    BY <1>1, <1>3 DEF SramIsReady, SelectionIsChosen, DriverWaits, volumeVars, BaseOf
  <1>4. CASE SelectSram
    <2>1. r.drive # SdDrive
      BY <1>1, <1>4, DriveAssumption DEF SelectSram
    <2>. QED
      BY <1>1, <1>4, <2>1 DEF SelectSram, SelectionIsChosen, DriverWaits, volumeVars, BaseOf
  <1>5. CASE SramRefuses
    BY <1>1, <1>5, CodesDiffer DEF SramRefuses, SelectionIsChosen, DriverWaits, volumeVars, BaseOf
  <1>6. CASE SramStores
    <2>1. chosen = r.drive => Moved(r)'
      BY <1>1, <1>6, SramTransferMoves
    <2>. QED
      BY <1>1, <1>6, <2>1 DEF SramStores, SelectionIsChosen, DriverWaits, volumeVars, BaseOf
  <1>7. CASE SramLoads
    <2>1. chosen = r.drive => Moved(r)'
      BY <1>1, <1>7, SramTransferMoves
    <2>. QED
      BY <1>1, <1>7, <2>1 DEF SramLoads, SelectionIsChosen, DriverWaits, BaseOf
  <1>8. CASE AsksSd
    <2>1. SelectionIsChosen'
      BY <1>8 DEF AsksSd, SelectionIsChosen, BaseOf
    <2>2. outcome' # Ok
      BY <1>8, CodesDiffer DEF AsksSd, Asks
    <2>3. CASE r.kind \in {"select", "check"}
      <3>1. r.drive = SdDrive /\ driver' = r.kind
        BY <1>1, <1>8, <2>3 DEF AsksSd
      <3>. QED
        BY <1>1, <1>8, <2>1, <2>3, <3>1 DEF AsksSd, DriverWaits
    <2>4. CASE r.kind \in {"read", "write"}
      <3>1. c68sd /\ driver' = "transfer"
        BY <1>1, <1>8, <2>4 DEF AsksSd
      <3>2. DriverWaits'
        BY <1>1, <1>8, <2>2, <2>4, <3>1 DEF AsksSd, DriverWaits, SettledBySuccess, SdCall
      <3>. QED
        BY <1>1, <1>8, <2>1, <2>4, <3>1, <3>2 DEF AsksSd
    <2>. QED
      BY <2>3, <2>4 DEF Requests
  <1>. QED
    BY <1>2, <1>3, <1>4, <1>5, <1>6, <1>7, <1>8 DEF DriveCalls

\* What its answer does when the SD transport has returned.
LEMMA DriveAnswerEffects ==
  ASSUME DriveTypeOK, SelectionIsChosen, DriverWaits, DriveAnswers
  PROVE  /\ SelectionIsChosen'
         /\ DriverWaits'
         /\ driver' = "idle"
         /\ driver = "select" =>
              /\ chosen' \in {chosen, request.drive}
              /\ code' = Ok => chosen' = request.drive
         /\ driver # "select" => chosen' = chosen
         /\ driver = "transfer" /\ code' = Ok /\ chosen = request.drive => Moved(request)'
PROOF
  <1>. USE DEF Returns
  <1>1. outcome \notin {Pending, NoResult} /\ request' = request /\ driver' = "idle"
    BY DEF DriveAnswers, SdSelects, SdReturns
  <1>2. UNCHANGED <<volume, call, outcome, received, unsettled, c68base, sram>>
    BY DEF DriveAnswers, volumeVars
  <1>3. DriverWaits'
    BY <1>1, <1>2 DEF DriverWaits
  <1>4. CASE SdSelects
    <2>1. request.drive = SdDrive /\ driver = "select"
      BY <1>4 DEF SdSelects, DriverWaits
    <2>. QED
      BY <1>1, <1>2, <1>3, <1>4, <2>1, CodesDiffer DEF SdSelects, SelectionIsChosen, BaseOf
  <1>5. CASE SdReturns
    <2>1. SelectionIsChosen'
      BY <1>2, <1>5 DEF SdReturns, SelectionIsChosen, BaseOf
    <2>2. ASSUME driver = "transfer", code' = Ok, chosen = request.drive
          PROVE  Moved(request)'
      <3>1. outcome = Ok /\ c68sd /\ request.drive = SdDrive
        BY <1>5, <2>2 DEF SdReturns, SelectionIsChosen, DriverWaits
      <3>2. request.kind \in {"read", "write"} /\ call = SdCall(request) /\ SettledBySuccess
        BY <2>2 DEF DriverWaits
      <3>3. /\ call.kind = request.kind /\ call.data = request.data
            /\ OffsetOf(call) = fileOffset(request.track, request.sector)
        BY <3>2 DEF SdCall, OffsetOf
      <3>4. /\ unsettled = {}
            /\ volume[fileOffset(request.track, request.sector)]
                 = IF request.kind = "read" THEN received ELSE request.data
        BY <3>1, <3>2, <3>3 DEF SettledBySuccess
      <3>. QED
        BY <1>1, <1>2, <3>1, <3>4 DEF Moved, Stored
    <2>3. driver # "select" /\ chosen' = chosen
      BY <1>5 DEF SdReturns
    <2>. QED
      BY <1>1, <1>3, <2>1, <2>2, <2>3
  <1>. QED
    BY <1>4, <1>5 DEF DriveAnswers

\* A success stays one while the driver has not seen it.
LEMMA VolumeStepEffects ==
  ASSUME VolumeTypeOK, DriverWaits, VolumeSteps
  PROVE  DriverWaits'
PROOF
  <1>1. UNCHANGED <<c68sd, driver, request>>
    BY DEF VolumeSteps, drive
  <1>2. call' = call
    BY DEF VolumeSteps, Lands, Fills, Succeeds, Fails
  <1>3. outcome # Pending => outcome' # Pending
    BY DEF VolumeSteps, Lands, Fills, Succeeds, Fails
  <1>4. ASSUME SettledBySuccess PROVE SettledBySuccess'
    <2>1. CASE outcome = Ok
      <3>1. unsettled = {}
        BY <1>4, <2>1 DEF SettledBySuccess
      <3>. QED
        BY <2>1, <3>1, CodesDiffer DEF VolumeSteps, Lands, Fills, Succeeds, Fails
    <2>2. CASE outcome # Ok
      <3>1. CASE outcome' # Ok
        BY <3>1 DEF SettledBySuccess
      <3>2. CASE outcome' = Ok
        <4>1. Succeeds
          BY <2>2, <3>2, CodesDiffer DEF VolumeSteps, Lands, Fills, Fails
        <4>. QED
          BY <4>1 DEF Succeeds, SettledBySuccess, OffsetOf
      <3>. QED
        BY <3>1, <3>2
    <2>. QED
      BY <2>1, <2>2
  <1>. QED
    BY <1>1, <1>2, <1>3, <1>4 DEF DriverWaits, SdCall

-----------------------------------------------------------------------------
(* The invariant.                                                          *)

\* It holds when FLEX has been loaded.
LEMMA FlexInvInit ==
  ASSUME FmsInit
  PROVE  FlexInv
PROOF
  <1>. USE DEF FmsInit, DriveInit, VolumeInit
  <1>1. request \in Requests
    BY ZeroIsBuffer DEF Requests, DriveNumbers, Drives, Byte
  <1>2. VolumeTypeOK
    BY ZeroIsBuffer, VolumeAssumption DEF VolumeTypeOK, NoCall, Calls, Kinds, Byte
  <1>3. 0 \in Pages /\ Sram0 \in Drives /\ InitialSram \in SramImages
    BY DriveAssumption DEF Pages, Drives
  <1>4. DriveTypeOK
    BY <1>1, <1>2, <1>3 DEF DriveTypeOK
  <1>5. FmsTypeOK
    BY <1>1, <1>4 DEF FmsTypeOK
  <1>6. SelectionIsChosen
    BY DriveAssumption DEF SelectionIsChosen, BaseOf
  <1>. QED
    BY <1>5, <1>6, CodesDiffer DEF FlexInv, DriverWaits, FmsWaits, FcbIsChosen, SectorIsMoved

\* RDSSEC and WRSSEC begin.
LEMMA BeginKeepsInv ==
  ASSUME FlexInv, NEW r \in SectorRequests, FmsBegins(r)
  PROVE  FlexInv'
PROOF
  <1>1. UNCHANGED <<c68sd, c68base, page, sram, driver, request, code, chosen,
                    volume, call, outcome, received, unsettled>>
    BY DEF FmsBegins, driveVars, drive, volumeVars
  <1>2. fms' = "select" /\ fcb' = r /\ r \in Requests /\ r.kind \in {"read", "write"}
    BY FmsAssumption DEF FmsBegins
  <1>3. FmsTypeOK'
    BY <1>1, <1>2 DEF FlexInv, FmsTypeOK, DriveTypeOK, VolumeTypeOK
  <1>4. SelectionIsChosen' /\ DriverWaits'
    BY <1>1 DEF FlexInv, SelectionIsChosen, DriverWaits, SettledBySuccess, OffsetOf, BaseOf,
                SdCall
  <1>. QED
    BY <1>2, <1>3, <1>4 DEF FlexInv, FmsWaits, FcbIsChosen, SectorIsMoved

\* FLEX calls the driver.
LEMMA CallKeepsInv ==
  ASSUME FlexInv, FmsCalls
  PROVE  FlexInv'
PROOF
  <1>1. FmsCall \in Requests /\ DriveCalls(FmsCall) /\ DriveTypeOK
    BY FmsCallIsRequest DEF FlexInv, FmsTypeOK, FmsCalls
  <1>2. /\ fcb' = fcb /\ answer' = answer
        /\ \/ fms = "select" /\ fms' = "selecting"
           \/ fms = "transfer" /\ fms' = "transferring"
           \/ fms = "restore" /\ fms' = "restoring"
    BY DEF FmsCalls, Awaited
  <1>3. FmsTypeOK'
    BY <1>1, <1>2, DriveCallsKeepTypes DEF FlexInv, FmsTypeOK
  <1>4. fcb \in Requests /\ fcb.kind \in {"read", "write"}
    BY <1>2 DEF FlexInv, FmsTypeOK, FmsWaits
  <1>5. SelectionIsChosen' /\ DriverWaits' /\ request' = FmsCall
    BY <1>1, DriveCallEffects DEF FlexInv
  <1>6. CASE fms = "transfer"
    <2>1. FmsCall = fcb /\ chosen = fcb.drive
      BY <1>6 DEF FmsCall, FlexInv, FcbIsChosen
    <2>2. /\ driver' \in {"idle", "transfer"} /\ chosen' = chosen
          /\ driver' = "idle" /\ code' = Ok => Moved(fcb)'
      BY <1>1, <1>2, <1>4, <2>1, DriveCallEffects DEF FlexInv
    <2>. QED
      BY <1>2, <1>3, <1>4, <1>5, <1>6, <2>1, <2>2
         DEF FlexInv, FmsWaits, FcbIsChosen, SectorIsMoved
  <1>7. CASE fms # "transfer"
    <2>1. FmsCall = [fcb EXCEPT !.kind = "select"]
      BY <1>7 DEF FmsCall
    <2>2. FmsCall.kind = "select" /\ FmsCall.drive = fcb.drive
      BY <1>4, <2>1 DEF Requests
    <2>3. /\ driver' \in {"idle", "select"}
          /\ chosen' \in {chosen, fcb.drive}
          /\ driver' = "idle" /\ code' = Ok => chosen' = fcb.drive
      BY <1>1, <2>2, DriveCallEffects DEF FlexInv
    <2>. QED
      BY <1>2, <1>3, <1>4, <1>5, <1>7, <2>1, <2>3
         DEF FlexInv, FmsWaits, FcbIsChosen, SectorIsMoved
  <1>. QED
    BY <1>6, <1>7

\* Another program calls the driver.
LEMMA ProgramKeepsInv ==
  ASSUME FlexInv, NEW r \in OfferedRequests, FmsPrograms(r)
  PROVE  FlexInv'
PROOF
  <1>1. r \in Requests /\ DriveCalls(r) /\ DriveTypeOK
    BY DriveAssumption DEF FlexInv, FmsTypeOK, FmsPrograms
  <1>2. fms = "idle" /\ fms' = "idle" /\ fcb' = fcb /\ answer' = NoResult
    BY DEF FmsPrograms
  <1>3. FmsTypeOK'
    BY <1>1, <1>2, DriveCallsKeepTypes DEF FlexInv, FmsTypeOK
  <1>4. SelectionIsChosen' /\ DriverWaits'
    BY <1>1, DriveCallEffects DEF FlexInv
  <1>. QED
    BY <1>2, <1>3, <1>4, CodesDiffer DEF FlexInv, FmsWaits, FcbIsChosen, SectorIsMoved

\* The driver returns what the SD transport answered.
LEMMA AnswerKeepsInv ==
  ASSUME FlexInv, FmsDriverAnswers
  PROVE  FlexInv'
PROOF
  <1>1. DriveAnswers /\ UNCHANGED <<fms, fcb, answer>>
    BY DEF FmsDriverAnswers, fmsVars
  <1>2. FmsTypeOK'
    BY <1>1, DriveAnswersKeepTypes DEF FlexInv, FmsTypeOK
  <1>3. SelectionIsChosen' /\ DriverWaits' /\ driver' = "idle" /\ request' = request
    BY <1>1, DriveAnswerEffects DEF FlexInv, FmsTypeOK, DriveAnswers
  <1>4. /\ driver = "select" => /\ chosen' \in {chosen, request.drive}
                                /\ code' = Ok => chosen' = request.drive
        /\ driver # "select" => chosen' = chosen
        /\ driver = "transfer" /\ code' = Ok /\ chosen = request.drive => Moved(request)'
    BY <1>1, DriveAnswerEffects DEF FlexInv, FmsTypeOK
  <1>5. driver # "idle"
    BY <1>1 DEF DriveAnswers, SdSelects, SdReturns
  <1>6. FmsWaits'
    BY <1>1, <1>3 DEF FlexInv, FmsWaits
  <1>7. FcbIsChosen'
    <2>1. CASE fms \in {"selecting", "restoring"}
      <3>1. request.drive = fcb.drive /\ driver = "select"
        BY <1>5, <2>1 DEF FlexInv, FmsWaits, FmsTypeOK, Requests
      <3>. QED
        BY <1>1, <1>4, <2>1, <3>1 DEF FlexInv, FcbIsChosen
    <2>2. CASE fms = "transferring"
      <3>1. driver # "select"
        BY <2>2 DEF FlexInv, FmsWaits
      <3>. QED
        BY <1>1, <1>4, <2>2, <3>1 DEF FlexInv, FcbIsChosen
    <2>3. CASE fms \in {"transfer", "restore"}
      BY <1>5, <2>3 DEF FlexInv, FmsWaits
    <2>. QED
      BY <1>1, <2>1, <2>2, <2>3 DEF FcbIsChosen
  <1>8. SectorIsMoved'
    <2>1. CASE fms = "transferring"
      <3>1. driver = "transfer" /\ request = fcb /\ chosen = request.drive
        BY <1>5, <2>1 DEF FlexInv, FmsWaits, FcbIsChosen
      <3>. QED
        BY <1>1, <1>3, <1>4, <2>1, <3>1 DEF SectorIsMoved
    <2>2. CASE fms # "transferring"
      BY <1>1, <1>5, <2>2 DEF FlexInv, SectorIsMoved
    <2>. QED
      BY <2>1, <2>2
  <1>. QED
    BY <1>2, <1>3, <1>6, <1>7, <1>8 DEF FlexInv

\* The SD volume goes on behind the driver.
LEMMA VolumeKeepsInv ==
  ASSUME FlexInv, FmsVolumeSteps
  PROVE  FlexInv'
PROOF
  <1>1. /\ VolumeSteps
        /\ UNCHANGED <<fms, fcb, answer, c68sd, c68base, page, sram, driver, request, code,
                       chosen>>
    BY DEF FmsVolumeSteps, VolumeSteps, fmsVars, drive
  <1>2. VolumeTypeOK'
    BY <1>1, VolumeStepsKeepVolume DEF FlexInv, FmsTypeOK, DriveTypeOK
  <1>3. FmsTypeOK'
    BY <1>1, <1>2 DEF FlexInv, FmsTypeOK, DriveTypeOK
  <1>4. SelectionIsChosen'
    BY <1>1 DEF FlexInv, SelectionIsChosen, BaseOf
  <1>5. DriverWaits'
    BY <1>1, VolumeStepEffects DEF FlexInv, FmsTypeOK, DriveTypeOK
  <1>6. FmsWaits' /\ FcbIsChosen'
    BY <1>1 DEF FlexInv, FmsWaits, FcbIsChosen
  <1>7. ASSUME driver = "idle", Moved(fcb) PROVE Moved(fcb)'
    <2>1. outcome # Pending
      BY <1>7 DEF FlexInv, DriverWaits
    <2>2. PICK write \in unsettled, n \in 0 .. SectorBytes : Lands(write, n)
      BY <1>1, <2>1 DEF VolumeSteps, Fills, Succeeds, Fails
    <2>3. unsettled # {} /\ fcb.drive # SdDrive
      BY <1>7, <2>2 DEF Moved
    <2>. QED
      BY <1>1, <1>7, <2>2, <2>3 DEF Moved, Stored, Lands, BaseOf
  <1>8. SectorIsMoved'
    BY <1>1, <1>7 DEF FlexInv, SectorIsMoved
  <1>. QED
    BY <1>3, <1>4, <1>5, <1>6, <1>8 DEF FlexInv

\* FLEX looks at what the driver returned.
LEMMA ContinueKeepsInv ==
  ASSUME FlexInv, FmsContinues
  PROVE  FlexInv'
PROOF
  <1>1. /\ driver = "idle"
        /\ fcb' = fcb
        /\ UNCHANGED <<c68sd, c68base, page, sram, driver, request, code, chosen,
                       volume, call, outcome, received, unsettled>>
    BY DEF FmsContinues, driveVars, drive, volumeVars
  <1>2. \/ fms = "selecting" /\ code = Ok /\ fms' = "transfer" /\ answer' = answer
        \/ fms = "selecting" /\ code # Ok /\ fms' = "idle" /\ answer' = code
        \/ fms = "transferring" /\ code = Ok /\ fms' = "idle" /\ answer' = Ok
        \/ fms = "transferring" /\ code # Ok /\ fms' = "idle" /\ answer' = code
        \/ fms = "transferring" /\ code # Ok /\ fms' \in {"restore", "transfer"}
             /\ answer' = answer
        \/ fms = "restoring" /\ fms' = "transfer" /\ answer' = answer
    BY DEF FmsContinues, Selected, FmsReturns, HandlesError, Restores
  <1>3. FmsTypeOK'
    BY <1>1, <1>2 DEF FlexInv, FmsTypeOK, DriveTypeOK, VolumeTypeOK
  <1>4. SelectionIsChosen' /\ DriverWaits'
    BY <1>1 DEF FlexInv, SelectionIsChosen, DriverWaits, SettledBySuccess, OffsetOf, BaseOf,
                SdCall
  <1>5. FmsWaits' /\ FcbIsChosen'
    BY <1>1, <1>2 DEF FlexInv, FmsWaits, FcbIsChosen
  <1>6. Moved(fcb) => Moved(fcb)'
    BY <1>1 DEF Moved, Stored, BaseOf
  <1>7. SectorIsMoved'
    BY <1>1, <1>2, <1>6 DEF FlexInv, SectorIsMoved
  <1>. QED
    BY <1>3, <1>4, <1>5, <1>7 DEF FlexInv

\* The machine is reset.
LEMMA ResetKeepsInv ==
  ASSUME FlexInv, FmsReset
  PROVE  FlexInv'
PROOF
  <1>1. DriveReset /\ fms' = "idle" /\ fcb' = fcb /\ answer' = NoResult
    BY DEF FmsReset, ResetIdle, ResetInStore
  <1>2. sram' \in SramImages
    <2>1. CASE ResetIdle
      BY <2>1 DEF ResetIdle, FlexInv, FmsTypeOK, DriveTypeOK
    <2>2. CASE \E n \in 0 .. SectorBytes : fms = "transfer" /\ ResetInStore(fcb, n)
      BY <2>2, TornStoreKeepsSram DEF ResetInStore, FlexInv, FmsTypeOK
    <2>. QED
      BY <2>1, <2>2 DEF FmsReset
  <1>3. FmsTypeOK'
    BY <1>1, <1>2, ResetKeepsTypes DEF FlexInv, FmsTypeOK
  <1>4. SelectionIsChosen' /\ DriverWaits'
    BY <1>1, DriveAssumption, CodesDiffer
       DEF DriveReset, Restarts, SelectionIsChosen, DriverWaits, BaseOf
  <1>. QED
    BY <1>1, <1>3, <1>4, CodesDiffer DEF FlexInv, FmsWaits, FcbIsChosen, SectorIsMoved

\* A step that changes none of the variables.
LEMMA StutterKeepsInv ==
  ASSUME FlexInv, UNCHANGED flex
  PROVE  FlexInv'
PROOF
  <1>1. UNCHANGED <<fms, fcb, answer, c68sd, c68base, page, sram, driver, request, code, chosen,
                    volume, call, outcome, received, unsettled>>
    BY DEF flex, fmsVars, driveVars, drive, volumeVars
  <1>2. FmsTypeOK'
    BY <1>1 DEF FlexInv, FmsTypeOK, DriveTypeOK, VolumeTypeOK
  <1>3. SelectionIsChosen' /\ DriverWaits'
    BY <1>1 DEF FlexInv, SelectionIsChosen, DriverWaits, SettledBySuccess, OffsetOf, BaseOf,
                SdCall
  <1>4. FmsWaits' /\ FcbIsChosen' /\ SectorIsMoved'
    BY <1>1 DEF FlexInv, FmsWaits, FcbIsChosen, SectorIsMoved, Moved, Stored, BaseOf
  <1>. QED
    BY <1>2, <1>3, <1>4 DEF FlexInv

\* The invariant holds of every behaviour of FLEX and the driver.
THEOREM FlexInvHolds == FmsSpec => []FlexInv
PROOF
  <1>1. FmsInit => FlexInv
    BY FlexInvInit
  <1>2. FlexInv /\ [FmsNext]_flex => FlexInv'
    BY BeginKeepsInv, CallKeepsInv, ProgramKeepsInv, AnswerKeepsInv, VolumeKeepsInv,
       ContinueKeepsInv, ResetKeepsInv, StutterKeepsInv DEF FmsNext
  <1>. QED
    BY <1>1, <1>2, PTL DEF FmsSpec

-----------------------------------------------------------------------------
(* What it is for.                                                         *)

\* Types: every drive number, code, page and image is what the driver's
\* variables can hold.
THEOREM DriveTypeCorrect == FmsSpec => []DriveTypeOK
PROOF
  <1>1. FlexInv => DriveTypeOK
    BY DEF FlexInv, FmsTypeOK
  <1>. QED
    BY <1>1, FlexInvHolds, PTL

\* C68SD and C68BASE are those of the last DRVSEL that returned Ok, whatever
\* other calls and failures come between.
THEOREM SelectionCorrect == FmsSpec => []SelectionIsChosen
PROOF
  <1>1. FlexInv => SelectionIsChosen
    BY DEF FlexInv
  <1>. QED
    BY <1>1, FlexInvHolds, PTL

\* RDSSEC and WRSSEC transfer with the drive of the FCB, also after a RESTOR
\* that failed.
THEOREM TransfersCorrect == FmsSpec => []TransfersGoToTheFcbsDrive
PROOF
  <1>1. FlexInv => TransfersGoToTheFcbsDrive
    BY DEF FlexInv, FcbIsChosen, TransfersGoToTheFcbsDrive
  <1>. QED
    BY <1>1, FlexInvHolds, PTL

\* RDSSEC and WRSSEC that return Ok have moved the sector of the FCB.
THEOREM SectorsCorrect == FmsSpec => []SectorsAreExact
PROOF
  <1>1. FlexInv => SectorsAreExact
    BY DEF FlexInv, SectorIsMoved, Moved, SectorsAreExact
  <1>. QED
    BY <1>1, FlexInvHolds, PTL

\* A store changes the sector it is made to.
LEMMA StoreIsLocal ==
  ASSUME NEW q \in Pages, NEW t \in 1 .. SramSectors, NEW data, sram \in SramImages,
         sram' = [sram EXCEPT ![q][t] = data],
         NEW p \in Pages, NEW s \in 1 .. SramSectors, sram'[p][s] # sram[p][s]
  PROVE  p = q /\ s = t /\ sram'[p][s] = data
PROOF
  BY DEF SramImages

\* A store that is made with the selection goes to the sector of the chosen
\* drive.
LEMMA StoreGoesToTheChosen ==
  ASSUME FlexInv, NEW r \in Requests, r.kind = "write", ~c68sd, SramAddress(r), NEW data,
         sram' = [sram EXCEPT ![PageOf(r)][r.sector] = data]
  PROVE  \A p \in Pages, s \in 1 .. SramSectors : sram'[p][s] # sram[p][s] =>
           IsSectorOf(p, s, chosen, r) /\ sram'[p][s] = data
PROOF
  <1>. SUFFICES ASSUME NEW p \in Pages, NEW s \in 1 .. SramSectors, sram'[p][s] # sram[p][s]
                PROVE  IsSectorOf(p, s, chosen, r) /\ sram'[p][s] = data
    OBVIOUS
  <1>1. /\ c68base = BaseOf(chosen) /\ chosen # SdDrive
        /\ chosen \in Drives /\ sram \in SramImages
    BY DEF FlexInv, SelectionIsChosen, FmsTypeOK, DriveTypeOK
  <1>2. PageOf(r) \in Pages /\ r.sector \in 1 .. SramSectors
    BY PageOfSector DEF FlexInv, FmsTypeOK, DriveTypeOK
  <1>3. p = PageOf(r) /\ s = r.sector /\ sram'[p][s] = data
    BY <1>1, <1>2, StoreIsLocal
  <1>. QED
    BY <1>1, <1>3 DEF IsSectorOf, PageOf, Drives

\* SRAM changes only by WRITEs, in their sector, on the FCB's drive when FLEX
\* makes them, and to their data; a READ, a retry or a transfer with the card
\* does not reach it.
THEOREM OnlyWritesChangeSram == FmsSpec => SramChangesOnlyByWrite
PROOF
  <1>. DEFINE A ==
                \A p \in Pages, s \in 1 .. SramSectors : sram'[p][s] # sram[p][s] =>
                  CASE fms = "idle" -> /\ IsSectorOf(p, s, chosen, request')
                                       /\ sram'[p][s] = request'.data
                    [] fms = "transfer" -> /\ IsSectorOf(p, s, fcb.drive, fcb)
                                           /\ \E n \in 0 .. SectorBytes :
                                                sram'[p][s] = Mixed(fcb.data, n, sram[p][s])
                    [] OTHER -> FALSE
  <1>1. ASSUME sram' = sram PROVE A
    BY <1>1
  <1>2. ASSUME NEW r, DriveCalls(r)
        PROVE  request' = r /\ (SramStores \/ sram' = sram)
    BY <1>2 DEF DriveCalls, NoSuchDrive, SramIsReady, SelectSram, SramRefuses, SramLoads, AsksSd
  <1>3. ASSUME FlexInv, NEW r \in OfferedRequests, FmsPrograms(r) PROVE A
    <2>1. fms = "idle" /\ DriveCalls(r) /\ r \in Requests
      BY <1>3, DriveAssumption DEF FmsPrograms
    <2>2. CASE sram' = sram
      BY <1>1, <2>2
    <2>3. CASE SramStores
      <3>1. /\ request' = r /\ r.kind = "write" /\ ~c68sd /\ SramAddress(r)
            /\ sram' = [sram EXCEPT ![PageOf(r)][r.sector] = r.data]
        BY <1>2, <2>1, <2>3 DEF SramStores
      <3>2. \A p \in Pages, s \in 1 .. SramSectors : sram'[p][s] # sram[p][s] =>
              IsSectorOf(p, s, chosen, r) /\ sram'[p][s] = r.data
        BY <1>3, <2>1, <3>1, StoreGoesToTheChosen, Zenon
      <3>. QED
        BY <2>1, <3>1, <3>2
    <2>. QED
      BY <1>2, <2>1, <2>2, <2>3
  <1>4. ASSUME FlexInv, fms = "transfer", fcb.kind = "write", ~c68sd, SramAddress(fcb),
               NEW n \in 0 .. SectorBytes,
               sram' = [sram EXCEPT ![PageOf(fcb)][fcb.sector] = Mixed(fcb.data, n, @)]
        PROVE  A
    <2>1. fcb \in Requests /\ chosen = fcb.drive
      BY <1>4 DEF FlexInv, FmsTypeOK, FcbIsChosen
    <2>. DEFINE data == Mixed(fcb.data, n, sram[PageOf(fcb)][fcb.sector])
    <2>2. sram' = [sram EXCEPT ![PageOf(fcb)][fcb.sector] = data]
      BY <1>4
    <2>. HIDE DEF data
    <2>3. \A p \in Pages, s \in 1 .. SramSectors : sram'[p][s] # sram[p][s] =>
            IsSectorOf(p, s, chosen, fcb) /\ sram'[p][s] = data
      BY <1>4, <2>1, <2>2, StoreGoesToTheChosen, Zenon
    <2>4. ASSUME NEW p \in Pages, NEW s \in 1 .. SramSectors, sram'[p][s] # sram[p][s]
          PROVE  /\ IsSectorOf(p, s, fcb.drive, fcb)
                 /\ \E k \in 0 .. SectorBytes : sram'[p][s] = Mixed(fcb.data, k, sram[p][s])
      <3>1. IsSectorOf(p, s, chosen, fcb) /\ sram'[p][s] = data
        BY <2>3, <2>4
      <3>2. p = PageOf(fcb) /\ s = fcb.sector
        <4>1. chosen # SdDrive /\ c68base = BaseOf(chosen)
          BY <1>4 DEF FlexInv, SelectionIsChosen
        <4>. QED
          BY <3>1, <4>1 DEF IsSectorOf, PageOf
      <3>3. sram'[p][s] = Mixed(fcb.data, n, sram[p][s])
        BY <3>1, <3>2 DEF data
      <3>. QED
        BY <2>1, <3>1, <3>3
    <2>. QED
      BY <1>4, <2>4
  <1>. HIDE DEF A
  <1>5. ASSUME FlexInv, FmsCalls PROVE A
    <2>1. DriveCalls(FmsCall)
      BY <1>5 DEF FmsCalls
    <2>2. CASE sram' = sram
      BY <1>1, <2>2
    <2>3. CASE SramStores
      <3>1. request' = FmsCall /\ FmsCall.kind = "write"
        BY <1>2, <2>1, <2>3 DEF SramStores
      <3>2. fcb \in Requests
        BY <1>5 DEF FlexInv, FmsTypeOK
      <3>3. fms = "transfer" /\ FmsCall = fcb
        BY <3>1, <3>2 DEF FmsCall, Requests
      <3>4. /\ fcb.kind = "write" /\ ~c68sd /\ SramAddress(fcb)
            /\ sram' = [sram EXCEPT ![PageOf(fcb)][fcb.sector] = fcb.data]
        BY <2>3, <3>1, <3>3 DEF SramStores
      <3>5. Mixed(fcb.data, SectorBytes, sram[PageOf(fcb)][fcb.sector]) = fcb.data
        BY <3>2, GeometryAssumption DEF Mixed, Requests, Buffers
      <3>6. SectorBytes \in 0 .. SectorBytes
        BY GeometryAssumption DEF WordSize
      <3>. QED
        BY <1>4, <1>5, <3>3, <3>4, <3>5, <3>6
    <2>. QED
      BY <1>2, <2>1, <2>2, <2>3
  <1>6. ASSUME FlexInv, FmsReset PROVE A
    <2>1. CASE ResetIdle
      BY <1>1, <2>1 DEF ResetIdle
    <2>2. CASE \E n \in 0 .. SectorBytes : fms = "transfer" /\ ResetInStore(fcb, n)
      BY <1>4, <1>6, <2>2 DEF ResetInStore, TornStore
    <2>. QED
      BY <1>6, <2>1, <2>2 DEF FmsReset
  <1>7. FlexInv /\ [FmsNext]_flex => [A]_flex
    <2>1. SUFFICES ASSUME FlexInv, FmsNext PROVE A
      OBVIOUS
    <2>2. CASE FmsCalls
      BY <1>5, <2>1, <2>2
    <2>3. ASSUME NEW r \in OfferedRequests, FmsPrograms(r) PROVE A
      BY <1>3, <2>1, <2>3
    <2>4. CASE FmsReset
      BY <1>6, <2>1, <2>4
    <2>5. CASE FmsDriverAnswers \/ FmsVolumeSteps
      BY <1>1, <2>5 DEF FmsDriverAnswers, DriveAnswers, FmsVolumeSteps, VolumeSteps, drive
    <2>6. ASSUME NEW r \in SectorRequests, FmsBegins(r) PROVE A
      BY <1>1, <2>6 DEF FmsBegins, driveVars, drive
    <2>7. CASE FmsContinues
      BY <1>1, <2>7 DEF FmsContinues, driveVars, drive
    <2>. QED
      BY <2>1, <2>2, <2>3, <2>4, <2>5, <2>6, <2>7 DEF FmsNext
  <1>. USE DEF A
  <1>. QED
    BY <1>7, FlexInvHolds, PTL DEF FmsSpec, SramChangesOnlyByWrite

=============================================================================
