--------------------------- MODULE SdBridgeProofs ---------------------------
(***************************************************************************)
(* The AVR firmware under an arbitrary host, and the C68 and the AVR       *)
(* joined by their wires.                                                  *)
(*                                                                         *)
(* The firmware's safety properties hold for every geometry, image,        *)
(* timeout and host: type correctness, the byte held for the host, and     *)
(* what reaches the card.  They follow from an inductive invariant that    *)
(* joins the engine's own invariant to the state of the link around it.    *)
(* Every step of the bridge is one of the firmware's under such a host, so *)
(* they hold in the bridge, under all its faults.                          *)
(*                                                                         *)
(* With a card that is prompt, and until something else than the card      *)
(* fails, the transport and the firmware stay in step byte by byte: calls  *)
(* are exact, the link is never dropped, and the bridge is an SD volume.   *)
(***************************************************************************)
EXTENDS SdBridge, SdRequests, SdProofs

\* A published byte and the line that announces it come and go together, and
\* the byte is the one that is due.
PublishedInv ==
  /\ published = ready
  /\ published => ~Receiving(eng) /\ toHost = ResponseByte(eng)

\* Between polls nothing is published; a storage call is a legal one.
MainInv ==
  /\ main # "poll" => ~published
  /\ main = "storage" => CallIsLegal(eng)

IInv == TypeOK /\ EngineInv(eng) /\ PublishedInv /\ MainInv

-----------------------------------------------------------------------------
(* Facts about one step.                                                   *)

\* A valid address has an offset of the image.
LEMMA LegalCallOffset ==
  ASSUME eng \in Engines, CallIsLegal(eng), StorageCall(eng) \in {"read", "write"}
  PROVE  EngineOffset \in Offsets
PROOF
  <1>1. validAddress(eng.track, eng.sector)
    BY DEF CallIsLegal
  <1>2. eng.track \in Nat /\ eng.sector \in Nat
    BY DEF Engines, Byte
  <1>3. eng.track \in 0 .. Tracks - 1 /\ eng.sector \in 1 .. SectorsPerTrack
    BY <1>1, <1>2, GeometryAssumption DEF validAddress
  <1>. QED
    BY <1>3 DEF EngineOffset, Offsets

\* A storage call is one of three.
LEMMA StorageCallKinds ==
  ASSUME NEW e
  PROVE  StorageCall(e) \in {"read", "write", "sync"}
PROOF
  BY DEF StorageCall

\* A mix of two buffers is a buffer.
LEMMA MixedIsBuffer ==
  ASSUME NEW first \in Buffers, NEW n, NEW rest \in Buffers
  PROVE  Mixed(first, n, rest) \in Buffers
PROOF
  BY DEF Mixed, Buffers

\* What a torn write leaves is still an image, changed in one sector at most.
LEMMA TornImage ==
  ASSUME TypeOK, NEW n, TearsWrite(n)
  PROVE  /\ disk' \in Images
         /\ \A offset \in Offsets : disk'[offset] # disk[offset] =>
              main = "storage" /\ StorageCall(eng) = "write" /\ offset = EngineOffset
PROOF
  <1>1. disk \in [Offsets -> Buffers] /\ eng.buffer \in Buffers
    BY DEF TypeOK, FirmwareTypeOK, Images, Engines
  <1>2. CASE main = "storage" /\ StorageCall(eng) = "write"
    <2>. DEFINE torn == Mixed(eng.buffer, n, disk[EngineOffset])
    <2>1. disk' = [disk EXCEPT ![EngineOffset] = torn]
      BY <1>2 DEF TearsWrite
    <2>2. EngineOffset \in Offsets => torn \in Buffers
      BY <1>1, MixedIsBuffer
    <2>. HIDE DEF torn
    <2>. QED
      BY <1>1, <1>2, <2>1, <2>2 DEF Images
  <1>3. CASE ~(main = "storage" /\ StorageCall(eng) = "write")
    <2>1. disk' = disk
      BY <1>3 DEF TearsWrite
    <2>. QED
      BY <1>1, <2>1 DEF Images
  <1>. QED
    BY <1>2, <1>3

\* recover() from any engine.
LEMMA RecoverKeepsInv ==
  ASSUME eng \in Engines, Recover
  PROVE  /\ eng' \in Engines /\ EngineInv(eng')
         /\ published' = FALSE /\ ready' = FALSE
         /\ quiet' \in 0 .. LinkTimeout + 1
PROOF
  <1>1. 0 \in 0 .. LinkTimeout + 1
    BY FirmwareAssumption
  <1>. QED
    BY <1>1, ResetKeepsEngine DEF Recover

-----------------------------------------------------------------------------
(* The invariant.                                                          *)

\* Power-up satisfies it.
LEMMA InitInv == Init => IInv
PROOF
  <1>. SUFFICES ASSUME Init PROVE IInv
    OBVIOUS
  <1>. USE DEF Init, InitFirmware, InitWires
  <1>1. 0 \in 0 .. LinkTimeout + 1 /\ InitialImage \in Images
    BY FirmwareAssumption
  <1>2. 0 \in Byte
    BY SmallBytes
  <1>3. eng \in Engines /\ EngineInv(eng)
    BY InitialEngineIsEngine
  <1>4. FirmwareTypeOK
    BY <1>1, <1>3 DEF FirmwareTypeOK, MainStates, Events, StorageStatuses, MountStatuses
  <1>5. WiresTypeOK(Byte)
    BY <1>2 DEF WiresTypeOK, Lines
  <1>. QED
    BY <1>3, <1>4, <1>5 DEF IInv, TypeOK, PublishedInv, MainInv

\* One step of any kind keeps it.
LEMMA NextInv == IInv /\ [Next]_vars => IInv'
PROOF
  <1>. SUFFICES ASSUME IInv, [Next]_vars PROVE IInv'
    OBVIOUS
  <1>. USE DEF IInv, TypeOK
  <1>t. /\ main \in MainStates /\ pinChange \in BOOLEAN
        /\ previousControl \in SUBSET Lines /\ events \in SUBSET Events
        /\ eng \in Engines /\ published \in BOOLEAN
        /\ quiet \in 0 .. LinkTimeout + 1 /\ status \in StorageStatuses
        /\ disk \in Images
        /\ strobes \in SUBSET Lines /\ ready \in BOOLEAN /\ ackFlag \in BOOLEAN
        /\ readyFlag \in BOOLEAN /\ toAvr \in Byte /\ toHost \in Byte
    BY DEF FirmwareTypeOK, WiresTypeOK
  <1>z. 0 \in 0 .. LinkTimeout + 1
    BY FirmwareAssumption
  <1>1. ASSUME UNCHANGED vars PROVE IInv'
    BY <1>1 DEF vars, avr, wires, FirmwareTypeOK, WiresTypeOK, PublishedInv, MainInv,
                CallIsLegal, StorageCall
  <1>2. ASSUME PinChangeInterrupt PROVE IInv'
    BY <1>2, <1>t DEF PinChangeInterrupt, wires, FirmwareTypeOK, WiresTypeOK,
                      PublishedInv, MainInv, Events
  <1>3. ASSUME BoardInit PROVE IInv'
    BY <1>3, <1>t DEF BoardInit, wires, FirmwareTypeOK, WiresTypeOK,
                      PublishedInv, MainInv, MainStates
  <1>4. ASSUME NEW outcome \in MountOutcomes, Mount(outcome) PROVE IInv'
    <2>1. outcome \in StorageStatuses
      BY FirmwareAssumption DEF StorageStatuses
    <2>. QED
      BY <1>4, <1>t, <2>1, RecoverKeepsInv
         DEF Mount, FirmwareTypeOK, WiresTypeOK, PublishedInv, MainInv, MainStates
  <1>5. ASSUME PollRejectsEvents PROVE IInv'
    BY <1>5, <1>t, RecoverKeepsInv
       DEF PollRejectsEvents, FirmwareTypeOK, WiresTypeOK, PublishedInv, MainInv
  <1>6. ASSUME PollConsumes PROVE IInv'
    <2>1. eng' \in Engines /\ EngineInv(eng')
      BY <1>6, <1>t, AcknowledgeKeepsEngine DEF PollConsumes
    <2>. QED
      BY <1>6, <1>t, <1>z, <2>1
         DEF PollConsumes, AfterConsume, FirmwareTypeOK, WiresTypeOK, PublishedInv,
             MainInv, MainStates
  <1>7. ASSUME PollRejectsRequest PROVE IInv'
    BY <1>7, <1>t, RecoverKeepsInv
       DEF PollRejectsRequest, TakesRequest, FirmwareTypeOK, WiresTypeOK,
           PublishedInv, MainInv, MainStates
  <1>8. ASSUME PollReceives PROVE IInv'
    <2>. DEFINE r == Receive(eng, toAvr, status)
    <2>1. /\ r \in Engines /\ EngineInv(r)
          /\ CallsStorage(eng, toAvr, status) => CallIsLegal(r)
      BY <1>8, <1>t, ReceiveKeepsEngine DEF PollReceives
    <2>2. ~published
      BY <1>8 DEF PollReceives, PublishedInv
    <2>3. eng' = r /\ published' = published /\ events' \in SUBSET Events
          /\ main' \in {"storage", "acknowledge"}
          /\ (main' = "storage" => CallsStorage(eng, toAvr, status))
      BY <1>8, <1>t DEF PollReceives, TakesRequest, Events
    <2>. HIDE DEF r
    <2>4. EngineInv(eng') /\ PublishedInv' /\ MainInv'
      BY <1>8, <2>1, <2>2, <2>3 DEF PollReceives, PublishedInv, MainInv, wires
    <2>. QED
      BY <1>8, <1>t, <2>1, <2>3, <2>4
         DEF PollReceives, wires, FirmwareTypeOK, WiresTypeOK, MainStates
  <1>9. ASSUME PollAcknowledges PROVE IInv'
    BY <1>9, <1>t, <1>z
       DEF PollAcknowledges, FirmwareTypeOK, WiresTypeOK, PublishedInv, MainInv,
           MainStates
  <1>10. ASSUME PollPublishes PROVE IInv'
    <2>1. ResponseByte(eng) \in Byte
      BY <1>10, <1>t, ResponseByteIsByte DEF PollPublishes
    <2>. QED
      BY <1>10, <1>t, <1>z, <2>1
         DEF PollPublishes, FirmwareTypeOK, WiresTypeOK, PublishedInv, MainInv,
             MainStates
  <1>11. ASSUME PollHasNothingToPublish PROVE IInv'
    BY <1>11, <1>t
       DEF PollHasNothingToPublish, wires, FirmwareTypeOK, WiresTypeOK, PublishedInv,
           MainInv, MainStates
  <1>12. ASSUME PollTimesOut PROVE IInv'
    BY <1>12, <1>t, RecoverKeepsInv
       DEF PollTimesOut, FirmwareTypeOK, WiresTypeOK, PublishedInv, MainInv
  <1>a. Ok \in Byte /\ IoError \in Byte /\ IoError \in StorageStatuses
    BY StatusBytes DEF StorageStatuses, MountStatuses
  <1>13. ASSUME StorageReads PROVE IInv'
    <2>1. disk[EngineOffset] \in Buffers
      BY <1>13, <1>t, LegalCallOffset DEF StorageReads, MainInv, Images
    <2>2. eng' \in Engines /\ EngineInv(eng')
      BY <1>13, <1>t, <2>1, ReadReplyKeepsEngine DEF StorageReads
    <2>. QED
      BY <1>13, <1>t, <2>2
         DEF StorageReads, wires, FirmwareTypeOK, WiresTypeOK, PublishedInv, MainInv,
             MainStates
  <1>14. ASSUME StorageWrites PROVE IInv'
    <2>1. eng' \in Engines /\ EngineInv(eng')
      BY <1>14, <1>t, <1>a, AnswerKeepsEngine DEF StorageWrites
    <2>2. disk' \in Images
      BY <1>14, <1>t DEF StorageWrites, Images, Engines
    <2>. QED
      BY <1>14, <1>t, <2>1, <2>2
         DEF StorageWrites, wires, FirmwareTypeOK, WiresTypeOK, PublishedInv, MainInv,
             MainStates
  <1>15. ASSUME StorageSyncs PROVE IInv'
    <2>1. eng' \in Engines /\ EngineInv(eng')
      BY <1>15, <1>t, <1>a, AnswerKeepsEngine DEF StorageSyncs
    <2>. QED
      BY <1>15, <1>t, <2>1
         DEF StorageSyncs, wires, FirmwareTypeOK, WiresTypeOK, PublishedInv, MainInv,
             MainStates
  <1>16. ASSUME NEW n \in 0 .. SectorBytes, StorageFails(n) PROVE IInv'
    <2>1. disk' \in Images
      BY <1>16, TornImage DEF StorageFails
    <2>. DEFINE a == Answer(eng, IoError)
    <2>2. a \in Engines /\ EngineInv(a) /\ a.state = "Response"
      BY <1>t, <1>a, AnswerKeepsEngine DEF Answer, Engines
    <2>. HIDE DEF a
    <2>3. eng' \in Engines /\ EngineInv(eng')
      <3>1. CASE StorageCall(eng) = "read"
        <4>1. disk[EngineOffset] \in Buffers
          BY <1>16, <1>t, <3>1, LegalCallOffset DEF StorageFails, MainInv, Images
        <4>2. Mixed(disk[EngineOffset], n, a.buffer) \in Buffers
          BY <2>2, <4>1, MixedIsBuffer DEF Engines
        <4>3. eng' = [a EXCEPT !.buffer = Mixed(disk[EngineOffset], n, @)]
          BY <1>16, <3>1 DEF StorageFails, a
        <4>4. /\ eng' \in Engines /\ eng'.state = "Response"
              /\ eng'.outAt = a.outAt /\ eng'.outSize = a.outSize
              /\ eng'.readReply = a.readReply
          BY <2>2, <4>2, <4>3 DEF Engines
        <4>. QED
          BY <2>2, <4>4 DEF EngineInv, PayloadIsSummed, BufferIsSummed, ReplyIsDue
      <3>2. CASE StorageCall(eng) # "read"
        BY <1>16, <2>2, <3>2 DEF StorageFails, a
      <3>. QED
        BY <3>1, <3>2
    <2>. QED
      BY <1>16, <1>t, <1>a, <2>1, <2>3
         DEF StorageFails, wires, FirmwareTypeOK, WiresTypeOK, PublishedInv, MainInv,
             MainStates
  <1>17. ASSUME NEW n \in 0 .. SectorBytes, AvrReset(n) PROVE IInv'
    <2>1. disk' \in Images
      BY <1>17, TornImage DEF AvrReset
    <2>2. NoCard \in StorageStatuses
      BY DEF StorageStatuses, MountStatuses
    <2>. QED
      BY <1>17, <1>t, <1>z, <2>1, <2>2, InitialEngineIsEngine
         DEF AvrReset, FirmwareTypeOK, WiresTypeOK, PublishedInv, MainInv, MainStates
  <1>18. ASSUME Tick PROVE IInv'
    <2>1. quiet' \in 0 .. LinkTimeout + 1
      BY <1>18, <1>t, FirmwareAssumption DEF Tick, QuietTick
    <2>. QED
      BY <1>18, <1>t, <2>1
         DEF Tick, wires, FirmwareTypeOK, WiresTypeOK, PublishedInv, MainInv
  <1>19. ASSUME ArbitraryHost PROVE IInv'
    <2>1. toAvr' \in Byte
      BY <1>19, <1>t, FirmwareAssumption DEF ArbitraryHost
    <2>. QED
      BY <1>19, <1>t, <2>1
         DEF ArbitraryHost, FirmwareTypeOK, WiresTypeOK, PublishedInv, MainInv
  <1>. QED
    BY <1>1, <1>2, <1>3, <1>4, <1>5, <1>6, <1>7, <1>8, <1>9, <1>10, <1>11, <1>12,
       <1>13, <1>14, <1>15, <1>16, <1>17, <1>18, <1>19
       DEF Next, AvrSteps, PollSteps, StorageSteps, AvrFaults

\* The invariant holds throughout.
LEMMA Invariant == Spec => []IInv
PROOF
  BY InitInv, NextInv, PTL DEF Spec

-----------------------------------------------------------------------------
(* The theorems.                                                           *)

\* Every variable keeps its type, whatever the host does: in particular the
\* payload never overruns the staging buffer and the reply never its size.
THEOREM TypeCorrect == Spec => []TypeOK
PROOF
  <1>1. IInv => TypeOK
    BY DEF IInv
  <1>. QED
    BY <1>1, Invariant, PTL

\* While CB1 is high, U3 holds the reply byte that is due: the AVR never
\* replaces a byte before the host has consumed it.
THEOREM HeldByteHolds == Spec => []HeldByte
PROOF
  <1>1. IInv => HeldByte
    BY DEF IInv, PublishedInv, HeldByte
  <1>. QED
    BY <1>1, Invariant, PTL

\* Only the end of a verified WRITE request makes the engine call
\* storage.write, whatever requests were broken off before it.
THEOREM CommitVerified == Spec => CommitIsVerified
PROOF
  <1>. DEFINE Commits == main # "storage" /\ main' = "storage"
                         /\ StorageCall(eng') = "write"
              Verified == /\ eng.command = CommandWrite
                          /\ validAddress(eng.track, eng.sector)
                          /\ status = Ok
                          /\ 256 * eng.checksumHigh + toAvr
                               = sectorChecksum(eng'.buffer)
  <1>1. IInv /\ [Next]_vars => [Commits => Verified]_vars
    <2>. SUFFICES ASSUME IInv, Next, Commits PROVE Verified
      OBVIOUS
    <2>1. PollReceives
      BY DEF Next, AvrSteps, PollSteps, StorageSteps, AvrFaults, ArbitraryHost,
             PinChangeInterrupt, BoardInit, Mount, PollRejectsEvents, PollConsumes,
             AfterConsume, PollRejectsRequest, PollAcknowledges, PollPublishes,
             PollHasNothingToPublish, PollTimesOut, StorageReads, StorageWrites,
             StorageSyncs, StorageFails, AvrReset, Tick
    <2>2. /\ Receiving(eng) /\ eng' = Receive(eng, toAvr, status)
          /\ CallsStorage(eng, toAvr, status)
      BY <2>1 DEF PollReceives
    <2>3. eng \in Engines /\ EngineInv(eng) /\ toAvr \in Byte /\ status \in StorageStatuses
      BY DEF IInv, TypeOK, FirmwareTypeOK, WiresTypeOK
    <2>4. eng'.buffer = eng.buffer /\ WriteIsVerified(eng, toAvr, status)
      BY <2>2, <2>3, ReceiveKeepsEngine
    <2>. QED
      BY <2>4 DEF WriteIsVerified
  <1>. QED
    BY <1>1, Invariant, PTL DEF Spec, CommitIsVerified

-----------------------------------------------------------------------------
(* What is stored was heard.                                               *)

\* The bytes of a request the engine has taken, up to a state of it, are the
\* last ones heard; s is the number of bytes before them.
SyncHeard(h, s) == h[s + 1] = SyncFirst /\ h[s + 2] = SyncSecond
HeaderHeard(e, h, s) == SyncHeard(h, s) /\ h[s + 3] = e.command /\ h[s + 4] = e.track
PayloadHeard(e, h, s, n) ==
  /\ HeaderHeard(e, h, s)
  /\ e.command = CommandWrite
  /\ h[s + 5] = e.sector
  /\ \A i \in 0 .. n - 1 : h[s + 6 + i] = e.buffer[i]

HeardUpTo(e, h, s) ==
  /\ e.state = "SyncB" => Len(h) = s + 1 /\ h[s + 1] = SyncFirst
  /\ e.state = "Opcode" => Len(h) = s + 2 /\ SyncHeard(h, s)
  /\ e.state = "Track" => Len(h) = s + 3 /\ SyncHeard(h, s) /\ h[s + 3] = e.command
  /\ e.state = "Sector" => Len(h) = s + 4 /\ HeaderHeard(e, h, s)
  /\ e.state = "Payload" =>
       Len(h) = s + 5 + e.received /\ PayloadHeard(e, h, s, e.received)
  /\ e.state = "ChecksumHigh" =>
       Len(h) = s + 5 + SectorBytes /\ PayloadHeard(e, h, s, SectorBytes)
  /\ e.state = "ChecksumLow" =>
       /\ Len(h) = s + 6 + SectorBytes /\ PayloadHeard(e, h, s, SectorBytes)
       /\ h[s + 6 + SectorBytes] = e.checksumHigh

RequestHeard(e, h) == \E s \in Nat : HeardUpTo(e, h, s)

\* An engine that calls storage.write has the request that was heard last.
CallHeard(e, h) ==
  \E s \in Nat :
    /\ Len(h) = s + 7 + SectorBytes
    /\ PayloadHeard(e, h, s, SectorBytes)
    /\ validAddress(e.track, e.sector)
    /\ 256 * h[s + 6 + SectorBytes] + h[s + 7 + SectorBytes] = sectorChecksum(e.buffer)

HeardInv ==
  /\ heard \in Seq(Byte)
  /\ main = "reset" => eng.state = "SyncA"
  /\ main # "storage" => RequestHeard(eng, heard)
  /\ main = "storage" /\ StorageCall(eng) = "write" => CallHeard(eng, heard)

\* The host of the requests has a byte to clock into U2 when it strobes.
ClientInv ==
  /\ unsent \in Seq(WireBytes)
  /\ turn = "receive" => unsent # <<>>

\* No request has begun: nothing need have been heard.
LEMMA NothingHeard ==
  ASSUME NEW e, NEW h, e.state \in {"SyncA", "Response"}
  PROVE  RequestHeard(e, h)
PROOF
  <1>1. HeardUpTo(e, h, 0)
    BY DEF HeardUpTo
  <1>. QED
    BY <1>1 DEF RequestHeard

\* One more byte leaves the others where they were.
LEMMA OneMore ==
  ASSUME NEW h \in Seq(Byte), NEW value \in Byte
  PROVE  /\ Append(h, value) \in Seq(Byte)
         /\ Len(Append(h, value)) = Len(h) + 1
         /\ Len(h) \in Nat
         /\ \A i \in 1 .. Len(h) : Append(h, value)[i] = h[i]
         /\ Append(h, value)[Len(h) + 1] = value
PROOF
  OBVIOUS

\* Only a WRITE has a payload.
LEMMA OnlyWritesHavePayload ==
  ASSUME NEW e \in Engines, e.state = "Sector", e.command # CommandWrite,
         NEW s \in StorageStatuses
  PROVE  Dispatch(e, s).state # "Payload"
PROOF
  BY DEF Dispatch, SectorCall, Answer, Engines, CommandWrite, CommandRead, CommandInfo,
         CommandStatus, CommandSync

\* The bytes that precede the payload.
LEMMA HeaderByteHeard ==
  ASSUME NEW e \in Engines, NEW value \in Byte, NEW st \in StorageStatuses,
         NEW h \in Seq(Byte), RequestHeard(e, h),
         e.state \in {"SyncA", "SyncB", "Opcode", "Track"}
  PROVE  RequestHeard(Receive(e, value, st), Append(h, value))
PROOF
  <1>. DEFINE r == Receive(e, value, st)
              g == Append(h, value)
  <1>g. /\ Len(g) = Len(h) + 1 /\ Len(h) \in Nat
        /\ \A i \in 1 .. Len(h) : g[i] = h[i]
        /\ g[Len(h) + 1] = value
    BY OneMore
  <1>1. PICK s \in Nat : HeardUpTo(e, h, s)
    BY DEF RequestHeard
  <1>. HIDE DEF g
  <1>2. ASSUME r.state = "SyncB", value = SyncFirst
        PROVE  RequestHeard(r, g)
    <2>1. HeardUpTo(r, g, Len(h))
      BY <1>2, <1>g DEF HeardUpTo
    <2>. QED
      BY <1>g, <2>1 DEF RequestHeard
  <1>3. CASE e.state = "SyncA"
    <2>1. r = IF value = SyncFirst THEN [e EXCEPT !.state = "SyncB"] ELSE e
      BY <1>3 DEF Receive
    <2>2. CASE value = SyncFirst
      <3>1. r.state = "SyncB"
        BY <2>1, <2>2 DEF Engines
      <3>. QED
        BY <1>2, <2>2, <3>1 DEF g
    <2>3. CASE value # SyncFirst
      <3>1. r.state = "SyncA"
        BY <1>3, <2>1, <2>3
      <3>. QED
        BY <3>1, NothingHeard
    <2>. QED
      BY <2>2, <2>3
  <1>4. CASE e.state = "SyncB"
    <2>1. r = [e EXCEPT !.state = CASE value = SyncSecond -> "Opcode"
                                    [] value = SyncFirst -> "SyncB"
                                    [] OTHER -> "SyncA"]
      BY <1>4 DEF Receive
    <2>2. SyncFirst # SyncSecond
      BY DEF SyncFirst, SyncSecond
    <2>3. CASE value = SyncSecond
      <3>1. r.state = "Opcode"
        BY <2>1, <2>2, <2>3 DEF Engines
      <3>2. Len(h) = s + 1 /\ h[s + 1] = SyncFirst
        BY <1>1, <1>4 DEF HeardUpTo
      <3>3. Len(g) = s + 2 /\ g[s + 1] = SyncFirst /\ g[s + 2] = SyncSecond
        BY <1>g, <2>3, <3>2
      <3>4. HeardUpTo(r, g, s)
        BY <3>1, <3>3 DEF HeardUpTo, SyncHeard
      <3>. QED
        BY <3>4 DEF RequestHeard, g
    <2>4. CASE value = SyncFirst
      <3>1. r.state = "SyncB"
        BY <2>1, <2>2, <2>4 DEF Engines
      <3>. QED
        BY <1>2, <2>4, <3>1 DEF g
    <2>5. CASE value \notin {SyncFirst, SyncSecond}
      <3>1. r.state = "SyncA"
        BY <2>1, <2>5 DEF Engines
      <3>. QED
        BY <3>1, NothingHeard
    <2>. QED
      BY <2>3, <2>4, <2>5
  <1>5. CASE e.state = "Opcode"
    <2>1. r.state = "Track" /\ r.command = value
      BY <1>5 DEF Receive, Engines
    <2>2. Len(h) = s + 2 /\ h[s + 1] = SyncFirst /\ h[s + 2] = SyncSecond
      BY <1>1, <1>5 DEF HeardUpTo, SyncHeard
    <2>3. /\ Len(g) = s + 3 /\ g[s + 1] = SyncFirst /\ g[s + 2] = SyncSecond
          /\ g[s + 3] = value
      BY <1>g, <2>2
    <2>4. HeardUpTo(r, g, s)
      BY <2>1, <2>3 DEF HeardUpTo, SyncHeard
    <2>. QED
      BY <2>4 DEF RequestHeard, g
  <1>6. CASE e.state = "Track"
    <2>1. r.state = "Sector" /\ r.track = value /\ r.command = e.command
      BY <1>6 DEF Receive, Engines
    <2>2. /\ Len(h) = s + 3 /\ h[s + 1] = SyncFirst /\ h[s + 2] = SyncSecond
          /\ h[s + 3] = e.command
      BY <1>1, <1>6 DEF HeardUpTo, SyncHeard
    <2>3. /\ Len(g) = s + 4 /\ g[s + 1] = SyncFirst /\ g[s + 2] = SyncSecond
          /\ g[s + 3] = e.command /\ g[s + 4] = value
      BY <1>g, <2>2
    <2>4. HeardUpTo(r, g, s)
      BY <2>1, <2>3 DEF HeardUpTo, SyncHeard, HeaderHeard
    <2>. QED
      BY <2>4 DEF RequestHeard, g
  <1>. QED
    BY <1>3, <1>4, <1>5, <1>6

\* The last byte of a header: only a WRITE goes on to a payload.
LEMMA SectorByteHeard ==
  ASSUME NEW e \in Engines, EngineInv(e), NEW value \in Byte, NEW st \in StorageStatuses,
         NEW h \in Seq(Byte), RequestHeard(e, h), e.state = "Sector",
         ~CallsStorage(e, value, st)
  PROVE  RequestHeard(Receive(e, value, st), Append(h, value))
PROOF
  <1>. DEFINE r == Receive(e, value, st)
              g == Append(h, value)
              header == [e EXCEPT !.sector = value]
  <1>1. r = Dispatch(header, st) /\ r.state # "Sector"
    BY DEF Receive, CallsStorage
  <1>2. /\ header \in Engines /\ header.state = "Sector"
        /\ header.command = e.command /\ header.track = e.track /\ header.sector = value
    BY DEF Engines
  <1>. HIDE DEF header
  <1>3. EngineInv(header)
    BY <1>2 DEF EngineInv, PayloadIsSummed, BufferIsSummed, ReplyIsDue
  <1>4. r.state \in {"Response", "Payload"}
    BY <1>1, <1>2, <1>3, DispatchKeepsEngine
  <1>5. CASE r.state = "Response"
    BY <1>5, NothingHeard
  <1>6. CASE r.state = "Payload"
    <2>1. e.command = CommandWrite
      BY <1>1, <1>2, <1>6, OnlyWritesHavePayload
    <2>2. r = StartPayload(header)
      <3>1. CommandWrite # CommandRead /\ CommandWrite # CommandInfo
            /\ CommandWrite # CommandStatus /\ CommandWrite # CommandSync
        BY DEF CommandInfo, CommandStatus, CommandRead, CommandWrite, CommandSync
      <3>2. r = Dispatch(header, st) /\ header.command = CommandWrite
        BY <1>1, <1>2, <2>1
      <3>. QED
        BY <3>1, <3>2, Zenon DEF Dispatch
    <2>3. /\ r.received = 0 /\ r.command = e.command /\ r.track = e.track
          /\ r.sector = value
      BY <1>2, <2>2 DEF StartPayload, Engines
    <2>4. PICK s \in Nat : HeardUpTo(e, h, s)
      BY DEF RequestHeard
    <2>5. /\ Len(h) = s + 4 /\ h[s + 1] = SyncFirst /\ h[s + 2] = SyncSecond
          /\ h[s + 3] = e.command /\ h[s + 4] = e.track
      BY <2>4 DEF HeardUpTo, HeaderHeard, SyncHeard
    <2>. HIDE DEF r
    <2>6. /\ Len(g) = s + 5 /\ g[s + 1] = SyncFirst /\ g[s + 2] = SyncSecond
          /\ g[s + 3] = e.command /\ g[s + 4] = e.track /\ g[s + 5] = value
      BY <2>5, OneMore
    <2>. HIDE DEF g
    <2>7. HeardUpTo(r, g, s)
      BY <1>6, <2>1, <2>3, <2>6 DEF HeardUpTo, PayloadHeard, HeaderHeard, SyncHeard
    <2>. QED
      BY <2>7 DEF RequestHeard, r, g
  <1>. QED
    BY <1>4, <1>5, <1>6

\* What was heard of a payload stays heard behind one more byte.
LEMMA PayloadStaysHeard ==
  ASSUME NEW e, NEW r, NEW h \in Seq(Byte), NEW value \in Byte, NEW s \in Nat, NEW n \in Nat,
         Len(h) >= s + 5 + n, PayloadHeard(e, h, s, n),
         r.command = e.command, r.track = e.track, r.sector = e.sector,
         \A i \in 0 .. n - 1 : r.buffer[i] = e.buffer[i]
  PROVE  PayloadHeard(r, Append(h, value), s, n)
PROOF
  <1>. DEFINE g == Append(h, value)
  <1>1. /\ Len(h) \in Nat
        /\ \A i \in 1 .. Len(h) : g[i] = h[i]
    BY OneMore
  <1>. HIDE DEF g
  <1>2. /\ g[s + 1] = h[s + 1] /\ g[s + 2] = h[s + 2] /\ g[s + 3] = h[s + 3]
        /\ g[s + 4] = h[s + 4] /\ g[s + 5] = h[s + 5]
    <2>1. {s + 1, s + 2, s + 3, s + 4, s + 5} \subseteq 1 .. Len(h)
      BY <1>1
    <2>. QED
      BY <1>1, <2>1
  <1>3. ASSUME NEW i \in 0 .. n - 1
        PROVE  g[s + 6 + i] = r.buffer[i]
    <2>1. s + 6 + i \in 1 .. Len(h)
      BY <1>1
    <2>2. h[s + 6 + i] = e.buffer[i]
      BY DEF PayloadHeard
    <2>. QED
      BY <1>1, <2>1, <2>2
  <1>. QED
    BY <1>2, <1>3 DEF PayloadHeard, HeaderHeard, SyncHeard, g

\* A byte of the payload, and the high byte of its sum.
LEMMA PayloadByteHeard ==
  ASSUME NEW e \in Engines, EngineInv(e), NEW value \in Byte, NEW st \in StorageStatuses,
         NEW h \in Seq(Byte), RequestHeard(e, h),
         e.state \in {"Payload", "ChecksumHigh"}
  PROVE  RequestHeard(Receive(e, value, st), Append(h, value))
PROOF
  <1>. DEFINE r == Receive(e, value, st)
              g == Append(h, value)
  <1>g. /\ Len(g) = Len(h) + 1 /\ Len(h) \in Nat
        /\ \A i \in 1 .. Len(h) : g[i] = h[i]
        /\ g[Len(h) + 1] = value
    BY OneMore
  <1>1. PICK s \in Nat : HeardUpTo(e, h, s)
    BY DEF RequestHeard
  <1>s. SectorBytes \in Nat
    BY SectorBytesFacts
  <1>2. CASE e.state = "Payload"
    <2>. DEFINE n == e.received
    <2>1. /\ n \in Nat /\ n < SectorBytes /\ n + 1 \in Nat
          /\ Len(h) = s + 5 + n /\ PayloadHeard(e, h, s, n)
      BY <1>1, <1>2, <1>s DEF HeardUpTo, EngineInv, PayloadIsSummed, Engines
    <2>2. r = PayloadByte(e, value)
      BY <1>2 DEF Receive
    <2>3. /\ r.command = e.command /\ r.track = e.track /\ r.sector = e.sector
          /\ r.received = n + 1 /\ r.buffer = [e.buffer EXCEPT ![n] = value]
          /\ r.state = IF n + 1 = SectorBytes THEN "ChecksumHigh" ELSE "Payload"
      BY <2>2 DEF PayloadByte, Engines
    <2>4. /\ r.buffer[n] = value
          /\ \A i \in 0 .. n - 1 : r.buffer[i] = e.buffer[i]
      BY <1>s, <2>1, <2>3 DEF Engines, Buffers
    <2>. HIDE DEF r, n
    <2>5. PayloadHeard(r, g, s, n)
      <3>1. Len(h) >= s + 5 + n
        BY <1>g, <2>1
      <3>. QED
        BY <2>1, <2>3, <2>4, <3>1, PayloadStaysHeard, Zenon
    <2>. HIDE DEF g
    <2>6. g[s + 6 + n] = value /\ Len(g) = s + 5 + (n + 1)
      BY <1>g, <2>1
    <2>7. \A i \in 0 .. (n + 1) - 1 : g[s + 6 + i] = r.buffer[i]
      <3>1. \A i \in 0 .. n - 1 : g[s + 6 + i] = r.buffer[i]
        BY <2>5 DEF PayloadHeard
      <3>2. \A i \in 0 .. (n + 1) - 1 : i \in 0 .. n - 1 \/ i = n
        BY <2>1
      <3>. QED
        BY <2>4, <2>6, <3>1, <3>2
    <2>8. PayloadHeard(r, g, s, n + 1)
      BY <2>5, <2>7 DEF PayloadHeard
    <2>9. HeardUpTo(r, g, s)
      <3>1. CASE n + 1 = SectorBytes
        <4>1. r.state = "ChecksumHigh"
          BY <2>3, <3>1
        <4>2. Len(g) = s + 5 + SectorBytes /\ PayloadHeard(r, g, s, SectorBytes)
          BY <2>6, <2>8, <3>1
        <4>. QED
          BY <4>1, <4>2 DEF HeardUpTo
      <3>2. CASE n + 1 # SectorBytes
        <4>1. r.state = "Payload"
          BY <2>3, <3>2
        <4>2. Len(g) = s + 5 + r.received /\ PayloadHeard(r, g, s, r.received)
          BY <2>3, <2>6, <2>8
        <4>. QED
          BY <4>1, <4>2 DEF HeardUpTo
      <3>. QED
        BY <3>1, <3>2
    <2>. QED
      BY <2>9 DEF RequestHeard, r, g
  <1>3. CASE e.state = "ChecksumHigh"
    <2>1. Len(h) = s + 5 + SectorBytes /\ PayloadHeard(e, h, s, SectorBytes)
      BY <1>1, <1>3 DEF HeardUpTo
    <2>2. r = [e EXCEPT !.checksumHigh = value, !.state = "ChecksumLow"]
      BY <1>3 DEF Receive
    <2>3. /\ r.command = e.command /\ r.track = e.track /\ r.sector = e.sector
          /\ r.buffer = e.buffer /\ r.checksumHigh = value /\ r.state = "ChecksumLow"
      BY <2>2 DEF Engines
    <2>. HIDE DEF r
    <2>4. PayloadHeard(r, g, s, SectorBytes)
      <3>1. Len(h) >= s + 5 + SectorBytes
        BY <1>g, <1>s, <2>1
      <3>2. \A i \in 0 .. SectorBytes - 1 : r.buffer[i] = e.buffer[i]
        BY <2>3
      <3>. QED
        BY <1>s, <2>1, <2>3, <3>1, <3>2, PayloadStaysHeard, Zenon
    <2>. HIDE DEF g
    <2>5. Len(g) = s + 6 + SectorBytes /\ g[s + 6 + SectorBytes] = value
      BY <1>g, <1>s, <2>1
    <2>6. HeardUpTo(r, g, s)
      BY <2>3, <2>4, <2>5 DEF HeardUpTo
    <2>. QED
      BY <2>6 DEF RequestHeard, r, g
  <1>. QED
    BY <1>2, <1>3

\* The byte that completes the sum ends the request, or leaves it to storage.
LEMMA SumByteHeard ==
  ASSUME NEW e \in Engines, EngineInv(e), NEW value \in Byte, NEW st \in StorageStatuses,
         NEW h \in Seq(Byte), RequestHeard(e, h), e.state = "ChecksumLow"
  PROVE  LET r == Receive(e, value, st)
         IN  /\ CallsStorage(e, value, st) => CallHeard(r, Append(h, value))
             /\ ~CallsStorage(e, value, st) => RequestHeard(r, Append(h, value))
PROOF
  <1>. DEFINE r == Receive(e, value, st)
              g == Append(h, value)
  <1>1. r = FinishPayload(e, value, st)
    BY DEF Receive
  <1>2. CASE r.state = "Response"
    <2>1. ~CallsStorage(e, value, st)
      BY <1>2 DEF CallsStorage
    <2>. QED
      BY <1>2, <2>1, NothingHeard
  <1>3. CASE r.state # "Response"
    <2>1. /\ r = e /\ validAddress(e.track, e.sector)
          /\ e.checksum = 256 * e.checksumHigh + value
      BY <1>1, <1>3, FinishPayloadKeepsEngine
    <2>2. CallsStorage(e, value, st)
      BY <2>1 DEF CallsStorage
    <2>3. e.checksum = sectorChecksum(e.buffer)
      BY DEF EngineInv, BufferIsSummed
    <2>4. PICK s \in Nat : HeardUpTo(e, h, s)
      BY DEF RequestHeard
    <2>5. /\ Len(h) = s + 6 + SectorBytes /\ PayloadHeard(e, h, s, SectorBytes)
          /\ h[s + 6 + SectorBytes] = e.checksumHigh
      BY <2>4 DEF HeardUpTo
    <2>6. SectorBytes \in Nat
      BY SectorBytesFacts
    <2>7. PayloadHeard(e, g, s, SectorBytes)
      <3>1. Len(h) >= s + 5 + SectorBytes
        BY <2>5, <2>6
      <3>. QED
        BY <2>5, <2>6, <3>1, PayloadStaysHeard, Zenon
    <2>8. /\ Len(g) = s + 7 + SectorBytes
          /\ g[s + 6 + SectorBytes] = e.checksumHigh
          /\ g[s + 7 + SectorBytes] = value
      BY <2>5, <2>6, OneMore
    <2>. HIDE DEF g, r
    <2>9. CallHeard(e, g)
      BY <2>1, <2>3, <2>7, <2>8 DEF CallHeard
    <2>. QED
      BY <2>1, <2>2, <2>9 DEF g, r
  <1>. QED
    BY <1>2, <1>3

\* What receive() has taken of a request is what was heard.
LEMMA ReceivedIsHeard ==
  ASSUME NEW e \in Engines, EngineInv(e), Receiving(e), NEW value \in Byte,
         NEW st \in StorageStatuses, NEW h \in Seq(Byte), RequestHeard(e, h)
  PROVE  LET r == Receive(e, value, st)
             g == Append(h, value)
         IN  /\ ~CallsStorage(e, value, st) => RequestHeard(r, g)
             /\ CallsStorage(e, value, st) /\ StorageCall(r) = "write" => CallHeard(r, g)
PROOF
  <1>. DEFINE r == Receive(e, value, st)
  <1>1. e.state \in EngineStates \ {"Response"}
    BY DEF Engines, Receiving
  <1>2. CASE e.state \in {"SyncA", "SyncB", "Opcode", "Track"}
    BY <1>2, HeaderByteHeard DEF CallsStorage
  <1>3. CASE e.state = "Sector"
    <2>1. CallsStorage(e, value, st) => r.state = "Sector"
      BY <1>3 DEF CallsStorage
    <2>2. r.state = "Sector" => StorageCall(r) # "write"
      BY DEF StorageCall
    <2>. QED
      BY <1>3, <2>1, <2>2, SectorByteHeard
  <1>4. CASE e.state \in {"Payload", "ChecksumHigh"}
    BY <1>4, PayloadByteHeard DEF CallsStorage
  <1>5. CASE e.state = "ChecksumLow"
    BY <1>5, SumByteHeard
  <1>. QED
    BY <1>1, <1>2, <1>3, <1>4, <1>5 DEF EngineStates

\* The host of the requests is one of the arbitrary ones.
LEMMA RequestsStep ==
  ASSUME TypeOK, ClientInv, RequestsNext
  PROVE  [Next]_vars /\ ClientInv'
PROOF
  <1>. USE DEF ClientInv
  <1>t. strobes \in SUBSET Lines /\ pinChange \in BOOLEAN
    BY DEF TypeOK, FirmwareTypeOK, WiresTypeOK
  <1>1. ASSUME BeginsRequest PROVE UNCHANGED vars /\ ClientInv'
    BY <1>1, RequestsAssumption DEF BeginsRequest
  <1>2. ASSUME NEW line \in Lines, HostLowers(line) PROVE ArbitraryHost
    BY <1>2, <1>t DEF HostLowers, ArbitraryHost
  <1>3. ASSUME NEW line \in Lines, NEW value, line = "receive" => value \in WireBytes,
               HostRaises(line, value)
        PROVE  ArbitraryHost
    <2>1. strobes' \in SUBSET Lines /\ strobes' \ strobes = {line} /\ strobes' # strobes
      BY <1>3, <1>t DEF HostRaises
    <2>2. IF "receive" \in strobes' \ strobes THEN toAvr' \in WireBytes ELSE UNCHANGED toAvr
      BY <1>3, <2>1 DEF HostRaises
    <2>. QED
      BY <1>3, <2>1, <2>2 DEF HostRaises, ArbitraryHost
  <1>4. ASSUME HostReads PROVE ArbitraryHost
    BY <1>4, <1>t DEF HostReads, ArbitraryHost, avr
  <1>5. "receive" \in Lines /\ "consume" \in Lines /\ "consume" # "receive"
    BY DEF Lines
  <1>6. ASSUME LowersRequest PROVE ArbitraryHost /\ ClientInv'
    BY <1>2, <1>5, <1>6 DEF LowersRequest
  <1>7. ASSUME RaisesRequest PROVE ArbitraryHost /\ ClientInv'
    <2>1. Head(unsent) \in WireBytes /\ Tail(unsent) \in Seq(WireBytes)
      BY <1>7 DEF RaisesRequest
    <2>2. HostRaises("receive", Head(unsent))
      BY <1>7 DEF RaisesRequest
    <2>3. ArbitraryHost
      BY <1>3, <1>5, <2>1, <2>2
    <2>. QED
      BY <1>7, <2>1, <2>3 DEF RaisesRequest
  <1>8. ASSUME RequestIsAcknowledged PROVE ArbitraryHost /\ ClientInv'
    BY <1>4, <1>8 DEF RequestIsAcknowledged
  <1>9. ASSUME GivesUp PROVE UNCHANGED vars /\ ClientInv'
    BY <1>9 DEF GivesUp
  <1>10. ASSUME TakesReply PROVE ArbitraryHost /\ ClientInv'
    BY <1>4, <1>10 DEF TakesReply
  <1>11. ASSUME LowersConsume PROVE ArbitraryHost /\ ClientInv'
    BY <1>2, <1>5, <1>11 DEF LowersConsume
  <1>12. ASSUME RaisesConsume PROVE ArbitraryHost /\ ClientInv'
    <2>1. HostRaises("consume", 0)
      BY <1>12 DEF RaisesConsume
    <2>2. ArbitraryHost
      BY <1>3, <1>5, <2>1
    <2>. QED
      BY <1>12, <2>2 DEF RaisesConsume
  <1>13. ASSUME AvrSteps \/ AvrFaults \/ Tick, UNCHANGED client PROVE Next /\ ClientInv'
    BY <1>13 DEF Next, client
  <1>. QED
    BY <1>1, <1>6, <1>7, <1>8, <1>9, <1>10, <1>11, <1>12, <1>13
       DEF RequestsNext, RequestingHost, Next

\* A step that takes no byte leaves the engine as it is, or gives the request
\* up or answers it.
LEMMA TakesNothing ==
  ASSUME IInv, [Next]_vars, ~PollReceives,
         main = "reset" => eng.state = "SyncA"
  PROVE  /\ ~TakesByte
         /\ \/ eng' = eng /\ (main' = "storage" <=> main = "storage")
            \/ eng'.state \in {"SyncA", "Response"}
         /\ main' = "reset" => eng'.state = "SyncA"
         /\ LinkDrops => eng'.state = "SyncA"
PROOF
  <1>t. eng \in Engines
    BY DEF IInv, TypeOK, FirmwareTypeOK
  <1>r. ASSUME Recover PROVE eng'.state = "SyncA"
    BY <1>r, <1>t DEF Recover, EngineReset, Engines
  <1>. DEFINE Quietly == /\ ~TakesByte
                         /\ \/ eng' = eng /\ (main' = "storage" <=> main = "storage")
                            \/ eng'.state \in {"SyncA", "Response"}
                         /\ main' = "reset" => eng'.state = "SyncA"
  <1>1. ASSUME UNCHANGED <<main, eng>> PROVE Quietly
    BY <1>1 DEF TakesByte
  <1>2. ASSUME UNCHANGED vars \/ PinChangeInterrupt \/ Tick \/ ArbitraryHost PROVE Quietly
    BY <1>1, <1>2 DEF vars, avr, PinChangeInterrupt, Tick, ArbitraryHost
  <1>3. ASSUME BoardInit PROVE Quietly
    BY <1>3 DEF BoardInit, TakesByte
  <1>4. ASSUME NEW outcome \in MountOutcomes, Mount(outcome) PROVE Quietly
    BY <1>4, <1>r DEF Mount, TakesByte
  <1>5. ASSUME PollRejectsEvents \/ PollRejectsRequest \/ PollTimesOut PROVE Quietly
    BY <1>5, <1>r
       DEF PollRejectsEvents, PollRejectsRequest, PollTimesOut, TakesRequest, TakesByte
  <1>6. ASSUME PollConsumes PROVE Quietly
    <2>1. ~Receiving(eng)
      BY <1>6 DEF PollConsumes, Unexpected, IInv, PublishedInv
    <2>2. AcknowledgeResponse(eng).state \in {"SyncA", "Response"}
      BY <1>t, <2>1 DEF AcknowledgeResponse, EngineReset, Receiving, Engines
    <2>. QED
      BY <1>6, <2>2 DEF PollConsumes, AfterConsume, TakesByte
  <1>7. ASSUME PollAcknowledges \/ PollPublishes \/ PollHasNothingToPublish PROVE Quietly
    BY <1>7 DEF PollAcknowledges, PollPublishes, PollHasNothingToPublish, TakesByte
  <1>8. \A s : Answer(eng, s).state = "Response"
    BY <1>t DEF Answer, Engines
  <1>9. ASSUME StorageReads \/ StorageWrites \/ StorageSyncs PROVE Quietly
    <2>1. \A data : ReadReply(eng, data).state = "Response"
      BY <1>t DEF ReadReply, Answer, Engines
    <2>. QED
      BY <1>8, <1>9, <2>1 DEF StorageReads, StorageWrites, StorageSyncs, TakesByte
  <1>10. ASSUME NEW n \in 0 .. SectorBytes, StorageFails(n) PROVE Quietly
    <2>1. eng'.state = "Response"
      BY <1>8, <1>10, <1>t DEF StorageFails, Answer, Engines
    <2>. QED
      BY <1>10, <2>1 DEF StorageFails, TakesByte
  <1>11. ASSUME NEW n \in 0 .. SectorBytes, AvrReset(n) PROVE Quietly
    BY <1>11 DEF AvrReset, InitialEngine, TakesByte
  <1>12. Quietly
    BY <1>2, <1>3, <1>4, <1>5, <1>6, <1>7, <1>9, <1>10, <1>11
       DEF Next, AvrSteps, PollSteps, StorageSteps, AvrFaults
  <1>13. LinkDrops => eng'.state = "SyncA"
    BY <1>12, <1>r DEF LinkDrops, PollRejectsEvents, PollRejectsRequest, PollTimesOut
  <1>. QED
    BY <1>12, <1>13

\* The history keeps up with the engine.
LEMMA HeardStep ==
  ASSUME IInv, HeardInv, [Next]_vars, Hears
  PROVE  HeardInv'
PROOF
  <1>t. /\ eng \in Engines /\ EngineInv(eng) /\ toAvr \in Byte
        /\ status \in StorageStatuses
    BY DEF IInv, TypeOK, FirmwareTypeOK, WiresTypeOK
  <1>h. heard \in Seq(Byte)
    BY DEF HeardInv
  <1>1. CASE PollReceives
    <2>. DEFINE r == Receive(eng, toAvr, status)
                g == Append(heard, toAvr)
                stored == CallsStorage(eng, toAvr, status)
    <2>1. /\ Receiving(eng) /\ eng' = r /\ main \in {"poll", "receive"}
          /\ main' = IF stored THEN "storage" ELSE "acknowledge"
      BY <1>1 DEF PollReceives, TakesRequest
    <2>2. RequestHeard(eng, heard)
      BY <2>1 DEF HeardInv
    <2>3. /\ ~stored => RequestHeard(r, g)
          /\ stored /\ StorageCall(r) = "write" => CallHeard(r, g)
      BY <1>t, <1>h, <2>1, <2>2, ReceivedIsHeard
    <2>4. g \in Seq(Byte)
      BY <1>t, <1>h, OneMore
    <2>. HIDE DEF r, g, stored
    <2>5. ~LinkDrops /\ TakesByte
      BY <2>1 DEF LinkDrops, PollRejectsEvents, PollRejectsRequest, PollTimesOut, TakesByte
    <2>6. heard' = IF ~Active(eng') THEN <<>> ELSE g
      BY <2>5 DEF Hears, g
    <2>7. CASE Active(eng')
      <3>1. heard' = g
        BY <2>6, <2>7
      <3>. QED
        BY <2>1, <2>3, <2>4, <3>1 DEF HeardInv
    <2>8. CASE ~Active(eng')
      <3>1. heard' = <<>> /\ eng'.state = "SyncA"
        BY <2>6, <2>8 DEF Active
      <3>2. ~stored
        BY <2>1, <3>1 DEF stored, CallsStorage, r
      <3>3. RequestHeard(eng', heard')
        BY <3>1, NothingHeard
      <3>. QED
        BY <2>1, <3>1, <3>2, <3>3 DEF HeardInv
    <2>. QED
      BY <2>7, <2>8
  <1>2. CASE ~PollReceives
    <2>1. /\ ~TakesByte
          /\ \/ eng' = eng /\ (main' = "storage" <=> main = "storage")
             \/ eng'.state \in {"SyncA", "Response"}
          /\ main' = "reset" => eng'.state = "SyncA"
          /\ LinkDrops => eng'.state = "SyncA"
      BY <1>2, TakesNothing DEF HeardInv
    <2>2. /\ heard' = heard \/ (heard' = <<>> /\ eng'.state = "SyncA")
          /\ heard' \in Seq(Byte)
      <3>1. heard' = IF ~Active(eng') \/ LinkDrops THEN <<>> ELSE heard
        BY <2>1 DEF Hears
      <3>2. CASE ~Active(eng') \/ LinkDrops
        BY <2>1, <3>1, <3>2 DEF Active
      <3>3. CASE ~(~Active(eng') \/ LinkDrops)
        BY <1>h, <3>1, <3>3
      <3>. QED
        BY <3>2, <3>3
    <2>3. CASE eng'.state \in {"SyncA", "Response"}
      <3>1. RequestHeard(eng', heard') /\ StorageCall(eng') # "write"
        BY <2>3, NothingHeard DEF StorageCall
      <3>. QED
        BY <2>1, <2>2, <3>1 DEF HeardInv
    <2>4. CASE eng'.state \notin {"SyncA", "Response"}
      <3>1. heard' = heard /\ eng' = eng /\ (main' = "storage" <=> main = "storage")
        BY <2>1, <2>2, <2>4
      <3>. QED
        BY <2>1, <2>2, <3>1 DEF HeardInv
    <2>. QED
      BY <2>3, <2>4
  <1>. QED
    BY <1>1, <1>2

RequestsInv == IInv /\ ClientInv /\ HeardInv

LEMMA RequestsInvariant == RequestsSpec => []RequestsInv
PROOF
  <1>1. RequestsInit => RequestsInv
    <2>. SUFFICES ASSUME RequestsInit PROVE RequestsInv
      OBVIOUS
    <2>1. IInv
      BY InitInv DEF RequestsInit
    <2>2. eng.state = "SyncA" /\ main = "reset" /\ heard = <<>>
      BY DEF RequestsInit, Init, InitFirmware, InitialEngine
    <2>3. RequestHeard(eng, heard)
      BY <2>2, NothingHeard
    <2>4. HeardInv
      BY <2>2, <2>3 DEF HeardInv
    <2>. QED
      BY <2>1, <2>4 DEF RequestsInv, ClientInv, RequestsInit
  <1>2. RequestsInv /\ [RequestsNext]_requestsVars => RequestsInv'
    <2>1. ASSUME RequestsInv, RequestsNext PROVE RequestsInv'
      <3>1. [Next]_vars /\ ClientInv'
        BY <2>1, RequestsStep DEF RequestsInv, IInv
      <3>2. Hears
        BY <2>1 DEF RequestsNext
      <3>. QED
        BY <2>1, <3>1, <3>2, NextInv, HeardStep DEF RequestsInv
    <2>2. ASSUME RequestsInv, UNCHANGED requestsVars PROVE RequestsInv'
      <3>1. UNCHANGED vars /\ UNCHANGED <<heard, turn, unsent>>
        BY <2>2 DEF requestsVars, client
      <3>2. UNCHANGED <<main, eng>>
        BY <3>1 DEF vars, avr
      <3>3. IInv'
        BY <2>2, <3>1, NextInv DEF RequestsInv
      <3>. QED
        BY <2>2, <3>1, <3>2, <3>3 DEF RequestsInv, ClientInv, HeardInv
    <2>. QED
      BY <2>1, <2>2
  <1>. QED
    BY <1>1, <1>2, PTL DEF RequestsSpec

\* The call of a WRITE finds the whole request at the end of what was heard.
LEMMA CallIsHeardWrite ==
  ASSUME eng \in Engines, heard \in Seq(Byte), CallHeard(eng, heard)
  PROVE  /\ HeardWrite
         /\ WritePayload = eng.buffer
         /\ WriteByte(4) = eng.track /\ WriteByte(5) = eng.sector
PROOF
  <1>1. SectorBytes \in Nat
    BY SectorBytesFacts
  <1>2. PICK s \in Nat :
          /\ Len(heard) = s + 7 + SectorBytes
          /\ PayloadHeard(eng, heard, s, SectorBytes)
          /\ validAddress(eng.track, eng.sector)
          /\ 256 * heard[s + 6 + SectorBytes] + heard[s + 7 + SectorBytes]
               = sectorChecksum(eng.buffer)
    BY DEF CallHeard
  <1>3. /\ Len(heard) \in Nat /\ WriteSize \in Nat
        /\ Len(heard) - WriteSize = s
    BY <1>1, <1>2 DEF WriteSize
  <1>4. /\ WriteByte(1) = SyncFirst /\ WriteByte(2) = SyncSecond
        /\ WriteByte(3) = CommandWrite
        /\ WriteByte(4) = eng.track /\ WriteByte(5) = eng.sector
    BY <1>2, <1>3 DEF PayloadHeard, HeaderHeard, SyncHeard, WriteByte
  <1>5. WritePayload = eng.buffer
    <2>1. eng.buffer \in [0 .. SectorBytes - 1 -> Byte]
      BY DEF Engines, Buffers
    <2>2. ASSUME NEW i \in 0 .. SectorBytes - 1
          PROVE  WriteByte(6 + i) = eng.buffer[i]
      <3>1. Len(heard) - WriteSize + (6 + i) = s + 6 + i
        BY <1>3
      <3>. QED
        BY <1>2, <3>1 DEF PayloadHeard, WriteByte
    <2>. QED
      BY <2>1, <2>2 DEF WritePayload
  <1>6. /\ WriteByte(WriteSize - 1) = heard[s + 6 + SectorBytes]
        /\ WriteByte(WriteSize) = heard[s + 7 + SectorBytes]
    <2>1. /\ Len(heard) - WriteSize + (WriteSize - 1) = s + 6 + SectorBytes
          /\ Len(heard) - WriteSize + WriteSize = s + 7 + SectorBytes
      BY <1>1, <1>3 DEF WriteSize
    <2>. QED
      BY <2>1 DEF WriteByte
  <1>7. Len(heard) >= WriteSize
    BY <1>1, <1>2 DEF WriteSize
  <1>. QED
    BY <1>2, <1>4, <1>5, <1>6, <1>7 DEF HeardWrite

\* A sector of the card changes only to the payload of a WRITE that was heard
\* whole, or to a part of it: whatever was aborted, refused, timed out or reset
\* before, no byte of an earlier request reaches the card.
THEOREM OnlyWholeFramesAreStored == RequestsSpec => StoresOnlyWholeFrames
PROOF
  <1>. DEFINE stored == /\ HeardWrite
                        /\ \E n \in 0 .. SectorBytes :
                             disk' = [disk EXCEPT ![fileOffset(WriteByte(4), WriteByte(5))]
                                                    = Mixed(WritePayload, n, @)]
  <1>1. RequestsInv /\ [RequestsNext]_requestsVars =>
          [disk' # disk => stored]_requestsVars
    <2>. SUFFICES ASSUME RequestsInv, RequestsNext, disk' # disk
                  PROVE  stored
      OBVIOUS
    <2>1. /\ IInv /\ TypeOK /\ HeardInv /\ eng \in Engines
          /\ disk \in [Offsets -> Buffers] /\ heard \in Seq(Byte)
      BY DEF RequestsInv, IInv, TypeOK, FirmwareTypeOK, Images, HeardInv
    <2>2. [Next]_vars
      BY <2>1, RequestsStep DEF RequestsInv
    <2>3. \/ StorageWrites
          \/ \E n \in 0 .. SectorBytes : StorageFails(n) \/ AvrReset(n)
      BY <2>2 DEF Next, AvrSteps, PollSteps, StorageSteps, AvrFaults, ArbitraryHost,
             PinChangeInterrupt, BoardInit, Mount, PollRejectsEvents, PollConsumes,
             PollRejectsRequest, PollReceives, PollAcknowledges, PollPublishes,
             PollHasNothingToPublish, PollTimesOut, StorageReads,
             StorageSyncs, Tick, vars
    <2>4. PICK n \in 0 .. SectorBytes :
            /\ main = "storage" /\ StorageCall(eng) = "write"
            /\ disk' = [disk EXCEPT ![EngineOffset] = Mixed(eng.buffer, n, @)]
      <3>1. CASE StorageWrites
        <4>1. /\ main = "storage" /\ StorageCall(eng) = "write"
              /\ disk' = [disk EXCEPT ![EngineOffset] = eng.buffer]
          BY <3>1 DEF StorageWrites
        <4>2. Mixed(eng.buffer, SectorBytes, disk[EngineOffset]) = eng.buffer
          BY <2>1, SectorBytesFacts DEF Mixed, Engines, Buffers
        <4>3. SectorBytes \in 0 .. SectorBytes
          BY SectorBytesFacts
        <4>. QED
          BY <4>1, <4>2, <4>3
      <3>2. CASE \E n \in 0 .. SectorBytes : StorageFails(n) \/ AvrReset(n)
        <4>1. PICK n \in 0 .. SectorBytes : TearsWrite(n)
          BY <3>2 DEF StorageFails, AvrReset
        <4>. QED
          BY <4>1 DEF TearsWrite
      <3>. QED
        BY <2>3, <3>1, <3>2
    <2>5. CallHeard(eng, heard)
      BY <2>1, <2>4 DEF HeardInv
    <2>6. /\ HeardWrite
          /\ WritePayload = eng.buffer
          /\ WriteByte(4) = eng.track /\ WriteByte(5) = eng.sector
      BY <2>1, <2>5, CallIsHeardWrite
    <2>7. disk' = [disk EXCEPT ![fileOffset(WriteByte(4), WriteByte(5))]
                                 = Mixed(WritePayload, n, @)]
      BY <2>4, <2>6 DEF EngineOffset
    <2>. QED
      BY <2>6, <2>7
  <1>. QED
    BY <1>1, RequestsInvariant, PTL DEF RequestsSpec, StoresOnlyWholeFrames

-----------------------------------------------------------------------------
(* The bridge is a firmware with a host.                                   *)

\* The host holds a line low only for a strobe, and in SDSETTLE for as long as
\* the PIA has.
HostLines ==
  /\ hostPc \in {"idle", "configure", "put", "waitAck", "waitReady"} => strobes = Lines
  /\ hostPc = "strobing" => strobes = {"consume"}
  /\ hostPc = "consuming" => strobes = {"receive"}

BridgeTypes == HostInv /\ HostLines /\ IInv

\* The bytes the host clocks into U2 are bytes.
LEMMA ReleasedByteIsByte ==
  ASSUME HostInv, HostReleases
  PROVE  OutgoingByte \in Byte
PROOF
  <1>1. hostPc = "strobing" /\ HostTypeOK /\ op \in Calls
    BY DEF HostReleases, HostInv, HostTypeOK
  <1>2. Fits(op, phase) /\ phase \in PutPhases /\ index \in 0 .. LastIndex(phase)
    BY <1>1 DEF HostInv, ScriptInv, Talking, Putting
  <1>. QED
    BY <1>1, <1>2, OutgoingByteIs DEF Calls

\* A host that moves its lines, clocks a byte and clears flags.
MovesWires ==
  /\ strobes' \in SUBSET Lines
  /\ IF "receive" \in strobes' \ strobes THEN toAvr' \in Byte ELSE toAvr' = toAvr
  /\ ackFlag' \in {ackFlag, FALSE}
  /\ readyFlag' \in {readyFlag, FALSE}
  /\ PinsReachAvr
  /\ UNCHANGED <<ready, toHost>>

\* What a step of the host does to the wires an arbitrary host may do.
LEMMA HostStepMovesWires ==
  ASSUME BridgeTypes, PinsReachAvr,
         \/ \E c \in Calls : HostCalls(c)
         \/ \E glitch \in SUBSET Lines : HostConfigures(glitch)
         \/ HostEndsStartupStrobe \/ HostSettles \/ HostStrobes \/ HostReleases
         \/ HostAcked \/ HostGets \/ HostConsumes \/ HostTimesOut \/ HostReset
  PROVE  MovesWires
PROOF
  <1>1. /\ strobes \in SUBSET Lines /\ ackFlag \in BOOLEAN /\ readyFlag \in BOOLEAN
    BY DEF BridgeTypes, IInv, TypeOK, WiresTypeOK
  <1>2. 255 \in Byte
    BY DEF Byte
  <1>3. UNCHANGED <<ready, toHost>>
    BY DEF HostCalls, HostConfigures, HostEndsStartupStrobe, HostSettles, HostStrobes,
           HostReleases, HostAcked, HostGets, HostConsumes, HostTimesOut, HostReset, wires
  <1>4. /\ strobes' \in SUBSET Lines
        /\ ackFlag' \in {ackFlag, FALSE} /\ readyFlag' \in {readyFlag, FALSE}
    BY <1>1
       DEF HostCalls, HostConfigures, HostEndsStartupStrobe, HostSettles, HostStrobes,
           HostReleases, HostAcked, HostGets, HostConsumes, HostTimesOut, HostReset, wires,
           ClearsFlags, Lines
  <1>5. IF "receive" \in strobes' \ strobes THEN toAvr' \in Byte ELSE toAvr' = toAvr
    <2>1. CASE HostEndsStartupStrobe \/ HostReset
      <3>1. /\ strobes' = Lines
            /\ toAvr' = IF "receive" \in strobes THEN toAvr ELSE 255
        BY <2>1 DEF HostEndsStartupStrobe, HostReset
      <3>2. CASE "receive" \in strobes
        BY <3>1, <3>2
      <3>3. CASE "receive" \notin strobes
        BY <1>2, <3>1, <3>3, LineSets
      <3>. QED
        BY <3>2, <3>3
    <2>2. CASE HostReleases
      <3>1. strobes' = strobes \cup {"receive"} /\ toAvr' = OutgoingByte
        BY <2>2 DEF HostReleases
      <3>2. "receive" \notin strobes
        BY <2>2, LineSets DEF HostReleases, BridgeTypes, HostLines
      <3>. QED
        BY <2>2, <3>1, <3>2, ReleasedByteIsByte DEF BridgeTypes
    <2>3. CASE \/ \E c \in Calls : HostCalls(c)
               \/ \E glitch \in SUBSET Lines : HostConfigures(glitch)
               \/ HostSettles \/ HostStrobes \/ HostAcked \/ HostGets \/ HostTimesOut
      BY <2>3
         DEF HostCalls, HostConfigures, HostSettles, HostStrobes, HostAcked, HostGets,
             HostTimesOut, wires
    <2>4. CASE HostConsumes
      <3>1. strobes = {"receive"} /\ toAvr' = toAvr
        BY <2>4 DEF HostConsumes, BridgeTypes, HostLines
      <3>2. "receive" \notin strobes' \ strobes
        BY <3>1
      <3>. QED
        BY <3>1, <3>2
    <2>. QED
      BY <2>1, <2>2, <2>3, <2>4
  <1>. QED
    BY <1>3, <1>4, <1>5 DEF MovesWires

\* Where the transport is when it has put or got a byte.
LEMMA AckedGoes ==
  ASSUME HostInv, HostAcked
  PROVE  hostPc' \in {"put", "waitReady"}
PROOF
  <1>1. /\ HostTypeOK /\ op \in Calls /\ op.kind \in Kinds /\ hostPc = "waitAck" /\ AfterPut
    BY DEF HostInv, HostTypeOK, HostAcked, Calls
  <1>2. /\ Fits(op, phase) /\ phase \in PutPhases /\ index \in 0 .. LastIndex(phase)
    BY <1>1 DEF HostInv, ScriptInv, Talking, Putting
  <1>. DEFINE n == PutNext(op, phase, index)
  <1>3. /\ n.phase \in PutPhases \cup GetPhases /\ n.index \in 0 .. LastIndex(n.phase)
    BY <1>1, <1>2, PutNextFits
  <1>4. Goto(n.phase, n.index)
    BY <1>1, <1>2, AfterPutGoes
  <1>. QED
    BY <1>4 DEF Goto

LEMMA ConsumedGoes ==
  ASSUME HostInv, HostConsumes
  PROVE  hostPc' \in {"idle", "put", "waitReady"} /\ timer' = 0
PROOF
  <1>1. hostPc = "consuming" /\ AfterGet /\ HostTypeOK /\ ScriptInv
    BY DEF HostInv, HostConsumes
  <1>2. phase \in GetPhases
    BY <1>1 DEF ScriptInv, Talking, Getting
  <1>. DEFINE Done == hostPc' \in {"idle", "put", "waitReady"} /\ timer' = 0
  <1>3. \A p, i : Goto(p, i) => Done
    BY DEF Goto
  <1>4. \A code : Return(code) => Done
    BY DEF Return
  <1>. HIDE DEF Done
  <1>5. phase \in {"infoReply", "infoDrain"} => Done
    BY <1>1, <1>2, <1>3, <1>4, AfterGetGoes, Zenon
  <1>6. phase = "mountReply" => Done
    BY <1>1, <1>2, <1>3, <1>4, AfterGetGoes, Zenon
  <1>7. phase = "readStatus" => Done
    BY <1>1, <1>2, <1>3, <1>4, AfterGetGoes, Zenon
  <1>8. phase = "data" => Done
    BY <1>1, <1>2, <1>3, <1>4, AfterGetGoes, Zenon
  <1>9. phase \in {"dataHigh", "dataLow", "writeStatus"} => Done
    BY <1>1, <1>2, <1>3, <1>4, AfterGetGoes, Zenon
  <1>. QED
    BY <1>2, <1>5, <1>6, <1>7, <1>8, <1>9 DEF GetPhases, Done

\* Where a step of the host leaves its lines and its own state.
LEMMA HostStepKeepsHost ==
  ASSUME BridgeTypes,
         \/ \E c \in Calls : HostCalls(c)
         \/ \E glitch \in SUBSET Lines : HostConfigures(glitch)
         \/ HostEndsStartupStrobe \/ HostSettles \/ HostStrobes \/ HostReleases
         \/ HostAcked \/ HostGets \/ HostConsumes \/ HostTimesOut \/ HostReset
  PROVE  HostInv' /\ HostLines'
PROOF
  <1>1. HostInv /\ toHost \in Byte
    BY DEF BridgeTypes, IInv, TypeOK, WiresTypeOK
  <1>2. HostInv'
    BY <1>1, HostCallsKeepsInv, SettlingKeepsInv, PuttingKeepsInv, GettingKeepsInv
  <1>3. CASE \E c \in Calls : HostCalls(c)
    <2>1. PICK c \in Calls : HostCalls(c)
      BY <1>3
    <2>2. hostPc' \in {"idle", "put", "configure"} /\ strobes' = strobes /\ hostPc = "idle"
      BY <2>1, HostCallsGoes DEF HostCalls, wires
    <2>. QED
      BY <1>2, <2>2 DEF BridgeTypes, HostLines
  <1>4. CASE \E glitch \in SUBSET Lines : HostConfigures(glitch)
    BY <1>2, <1>4 DEF HostConfigures, HostLines
  <1>5. CASE HostEndsStartupStrobe
    BY <1>2, <1>5 DEF HostEndsStartupStrobe, HostLines, host
  <1>6. CASE HostSettles
    <2>1. hostPc' \in {"idle", "put"} /\ strobes' = Lines
      BY <1>6 DEF HostSettles, Return, Goto, PutPhases
    <2>. QED
      BY <1>2, <2>1 DEF HostLines
  <1>7. CASE HostStrobes
    BY <1>2, <1>7, LineSets DEF HostStrobes, BridgeTypes, HostLines
  <1>8. CASE HostReleases
    BY <1>2, <1>8, LineSets DEF HostReleases, BridgeTypes, HostLines
  <1>9. CASE HostAcked
    <2>1. /\ hostPc = "waitAck" /\ hostPc' \in {"put", "waitReady"} /\ strobes' = strobes
      BY <1>1, <1>9, AckedGoes DEF HostAcked
    <2>. QED
      BY <1>2, <2>1 DEF BridgeTypes, HostLines
  <1>10. CASE HostGets
    BY <1>2, <1>10, LineSets DEF HostGets, BridgeTypes, HostLines
  <1>11. CASE HostConsumes
    <2>1. hostPc' \in {"idle", "put", "waitReady"}
      BY <1>1, <1>11, ConsumedGoes
    <2>2. strobes' = Lines
      BY <1>11, LineSets DEF HostConsumes, BridgeTypes, HostLines
    <2>. QED
      BY <1>2, <2>1, <2>2 DEF HostLines
  <1>12. CASE HostTimesOut
    <2>1. /\ hostPc \in {"waitAck", "waitReady"} /\ hostPc' = "idle" /\ strobes' = strobes
      BY <1>12 DEF HostTimesOut, WaitExpired, Timeout, Return, wires
    <2>. QED
      BY <1>2, <2>1 DEF BridgeTypes, HostLines
  <1>13. CASE HostReset
    BY <1>2, <1>13 DEF HostReset, HostLines
  <1>. QED
    BY <1>3, <1>4, <1>5, <1>6, <1>7, <1>8, <1>9, <1>10, <1>11, <1>12, <1>13

LEMMA MovesKeepInv ==
  ASSUME IInv, MovesWires
  PROVE  IInv'
PROOF
  <1>1. toAvr' \in Byte
    BY DEF IInv, TypeOK, WiresTypeOK, MovesWires
  <1>. QED
    BY <1>1
       DEF IInv, TypeOK, MovesWires, PinsReachAvr, FirmwareTypeOK, WiresTypeOK, PublishedInv,
           MainInv

LEMMA MovesAreArbitrary ==
  ASSUME WireBytes = Byte, MovesWires
  PROVE  ArbitraryHost
PROOF
  BY DEF MovesWires, PinsReachAvr, ArbitraryHost

\* The host runs: in HostStep, or in HostMissesEdge.
LEMMA HostStepMoves ==
  ASSUME BridgeTypes, Call \/ HostStep \/ HostIsReset \/ HostMissesEdge
  PROVE  HostInv' /\ HostLines' /\ MovesWires
PROOF
  <1>1. /\ \/ \E c \in Calls : HostCalls(c)
           \/ \E glitch \in SUBSET Lines : HostConfigures(glitch)
           \/ HostEndsStartupStrobe \/ HostSettles \/ HostStrobes \/ HostReleases
           \/ HostAcked \/ HostGets \/ HostConsumes \/ HostTimesOut \/ HostReset
        /\ PinsReachAvr
    BY BridgeAssumption DEF Call, HostStep, HostIsReset, HostMissesEdge
  <1>. QED
    BY <1>1, HostStepMovesWires, HostStepKeepsHost

\* Time moves the timer of a host that waits, and nothing else of it.
LEMMA TimeKeepsHost ==
  ASSUME BridgeTypes, TimePasses
  PROVE  HostInv' /\ HostLines'
PROOF
  <1>1. /\ HostTypeOK /\ timer \in 0 .. WaitLimit + SettleLimit
        /\ SettleLimit \in Nat \ {0} /\ WaitLimit \in Nat \ {0}
    BY HostAssumption DEF BridgeTypes, HostInv, HostTypeOK
  <1>2. timer' \in 0 .. WaitLimit + SettleLimit
    BY <1>1 DEF TimePasses, HostTick, HostWaits
  <1>3. UNCHANGED <<hostPc, phase, index, op, sum, byte, remoteHigh, sdBuffer, initialized,
                    hostInit, configured, result, strobes>>
    BY DEF TimePasses, wires
  <1>. QED
    BY <1>2, <1>3
       DEF BridgeTypes, HostInv, HostLines, HostTypeOK, ScriptInv, SumInv, Talking, Putting,
           Getting, LastIndex, Fits

\* Every step of the bridge is one of the firmware's under a host that moves the
\* wires, and keeps the types.
LEMMA BridgeStep ==
  BridgeTypes /\ [BridgeNext]_bridge => BridgeTypes' /\ (MovesWires \/ [Next]_vars)
PROOF
  <1>. SUFFICES ASSUME BridgeTypes, [BridgeNext]_bridge
                PROVE  BridgeTypes' /\ (MovesWires \/ [Next]_vars)
    OBVIOUS
  <1>. DEFINE HostKept == HostInv' /\ HostLines'
  <1>0. HostInv /\ HostLines /\ IInv
    BY DEF BridgeTypes
  <1>s. UNCHANGED host /\ UNCHANGED strobes => HostKept
    BY <1>0
       DEF host, HostInv, HostLines, HostTypeOK, ScriptInv, SumInv, Talking, Putting,
           Getting, LastIndex, Fits
  <1>1. ASSUME Call \/ HostStep \/ HostIsReset \/ HostMissesEdge
        PROVE  HostKept /\ (MovesWires \/ [Next]_vars)
    BY <1>1, HostStepMoves
  <1>2. ASSUME AvrStep PROVE HostKept /\ (MovesWires \/ [Next]_vars)
    <2>1. UNCHANGED strobes
      BY <1>2
         DEF AvrStep, PollSteps, StorageSteps, PinChangeInterrupt, BoardInit, Mount,
             PollRejectsEvents, PollConsumes, PollRejectsRequest, PollReceives,
             PollAcknowledges, PollPublishes, PollHasNothingToPublish, PollTimesOut,
             StorageReads, StorageWrites, StorageSyncs, wires
    <2>2. AvrSteps /\ UNCHANGED host
      BY <1>2, Zenon DEF AvrStep, AvrSteps
    <2>. QED
      BY <1>s, <2>1, <2>2 DEF Next
  <1>3. ASSUME AvrIsReset PROVE HostKept /\ (MovesWires \/ [Next]_vars)
    <2>1. PICK n \in 0 .. SectorBytes : AvrReset(n) /\ UNCHANGED host
      BY <1>3 DEF AvrIsReset
    <2>2. UNCHANGED strobes
      BY <2>1 DEF AvrReset
    <2>3. AvrFaults
      BY <2>1 DEF AvrFaults
    <2>. QED
      BY <1>s, <2>1, <2>2, <2>3 DEF Next
  <1>4. ASSUME CardFails PROVE HostKept /\ (MovesWires \/ [Next]_vars)
    <2>1. PICK n \in 0 .. SectorBytes : StorageFails(n) /\ UNCHANGED host
      BY <1>4 DEF CardFails
    <2>2. UNCHANGED strobes
      BY <2>1 DEF StorageFails, wires
    <2>3. AvrFaults
      BY <2>1 DEF AvrFaults
    <2>. QED
      BY <1>s, <2>1, <2>2, <2>3 DEF Next
  <1>5. ASSUME HostStalls \/ HostResumes \/ UNCHANGED bridge PROVE HostKept /\ (MovesWires \/ [Next]_vars)
    <2>1. UNCHANGED host /\ UNCHANGED strobes /\ UNCHANGED vars
      BY <1>5 DEF HostStalls, HostResumes, bridge, wires, vars
    <2>. QED
      BY <1>s, <2>1
  <1>6. ASSUME TimePasses PROVE HostKept /\ (MovesWires \/ [Next]_vars)
    <2>1. HostKept
      BY <1>6, TimeKeepsHost
    <2>2. Tick
      BY <1>6 DEF TimePasses, Tick
    <2>. QED
      BY <2>1, <2>2 DEF Next
  <1>7. HostKept /\ (MovesWires \/ [Next]_vars)
    BY <1>1, <1>2, <1>3, <1>4, <1>5, <1>6, Zenon DEF BridgeNext, BridgeFaults
  <1>8. IInv'
    BY <1>0, <1>7, NextInv, MovesKeepInv
  <1>. QED
    BY <1>7, <1>8 DEF BridgeTypes

LEMMA InitBridgeTypes == BridgeInit => BridgeTypes /\ Init
PROOF
  BY InitHostInv, InitInv DEF BridgeInit, Init, BridgeTypes, HostLines, InitHost, InitWires

-----------------------------------------------------------------------------
(* What the firmware keeps, the bridge keeps.                              *)

LEMMA BridgeTypesHold == BridgeSpec => []BridgeTypes
PROOF
  BY InitBridgeTypes, BridgeStep, PTL DEF BridgeSpec

\* The host, its reset, a stall or a missed edge, and the faults of the AVR: all
\* of it are steps of the firmware under a host that does as it likes.
THEOREM BridgeIsAFirmware ==
  ASSUME WireBytes = Byte
  PROVE  BridgeSpec => ImplementsFirmware
PROOF
  <1>1. ImplementsFirmware <=> Spec
    BY DEF ImplementsFirmware
  <1>2. BridgeTypes /\ [BridgeNext]_bridge => [Next]_vars
    BY BridgeStep, MovesAreArbitrary DEF Next
  <1>. QED
    BY <1>1, <1>2, InitBridgeTypes, BridgeTypesHold, PTL DEF BridgeSpec, Spec

\* Every variable of the bridge keeps its type, in every fault: the transport
\* stays in its script and its sums are those of what it has sent or received.
THEOREM BridgeTypeCorrect == BridgeSpec => [](TypeOK /\ HostInv)
PROOF
  <1>1. BridgeTypes => TypeOK /\ HostInv
    BY DEF BridgeTypes, IInv
  <1>. QED
    BY <1>1, BridgeTypesHold, PTL

-----------------------------------------------------------------------------
(***************************************************************************)
(* Without faults, or with a card that fails.  The two sides are in step   *)
(* from the end of the first SDSETTLE on: every edge is acted on once, the *)
(* engine waits for the byte that the transport puts or holds the one that *)
(* it gets, and no wait outlasts a mount or a storage call.                *)
(***************************************************************************)

\* The edges that the interrupt has not run for, and those the AVR still has to
\* act on.
Unseen == strobes \ previousControl
Outstanding(line) == line \in events \cup Unseen

\* Until SDINIT has settled for the first time: a start-up strobe may be on its
\* way through the AVR, but not for longer than a mount lasts.
Stray == \/ strobes # Lines
         \/ events # {}
         \/ pinChange
         \/ main \notin {"reset", "mount", "poll"}

StartInv ==
  /\ hostPc \in {"idle", "configure", "settle"}
  /\ hostPc = "idle" => result = NoResult
  /\ initialized = FALSE
  /\ hostPc # "settle" => timer = 0 /\ ~Stray
  /\ strobes # Lines => timer = 0
  /\ main = "reset" => timer <= blocked
  /\ main = "mount" /\ Stray => timer <= blocked
  /\ Stray => timer <= MountLimit
  /\ main # "reset" /\ strobes # previousControl => pinChange
  /\ main # "reset" /\ Outstanding("receive") => toAvr = 255
  /\ main = "receive" => toAvr = 255
  /\ eng.state = "SyncA"
  /\ ~published

\* From then on no edge is lost and each is acted on once.
LinkInv ==
  /\ hostPc \notin {"configure", "settle"}
  /\ initialized = TRUE
  /\ main # "reset"
  /\ pinChange <=> strobes # previousControl
  /\ hostPc \in {"idle", "put", "waitReady"} => previousControl \in {Lines, {"receive"}}
  /\ hostPc = "strobing" => previousControl \in {Lines, {"receive"}, {"consume"}}
  /\ hostPc = "waitAck" => previousControl \in {Lines, {"consume"}}
  /\ hostPc = "consuming" => previousControl \in {Lines, {"receive"}}
  /\ events \subseteq Lines /\ events \cap Unseen = {}
  /\ hostPc = "waitAck" <=> \/ Outstanding("receive")
                            \/ main \in {"receive", "storage", "acknowledge"}
                            \/ ackFlag
  /\ ackFlag => ~Outstanding("receive") /\ main \notin {"receive", "storage", "acknowledge"}
  /\ Outstanding("receive") => main \notin {"receive", "storage", "acknowledge"}
  /\ Outstanding("consume") => published /\ hostPc # "consuming"
  /\ readyFlag <=> published /\ hostPc # "consuming" /\ ~Outstanding("consume")
  /\ hostPc = "consuming" => published /\ byte = ResponseByte(eng)
  /\ ~published /\ ~Receiving(eng) => main \in {"acknowledge", "publish"}
  /\ hostPc = "waitAck" => toAvr = ByteOf(op, phase, index, sum)

\* The engine when it has acted on CB2, and the byte that is due when the
\* transport has seen that its last one was taken.
Acked == IF Outstanding("consume") THEN AcknowledgeResponse(eng) ELSE eng
Taken == main \in {"storage", "acknowledge"} \/ ackFlag
DuePhase == IF Taken THEN PutNext(op, phase, index).phase ELSE phase
DueIndex == IF Taken THEN PutNext(op, phase, index).index ELSE index

DialogueInv ==
  /\ ~Talking => Acked.state = "SyncA"
  /\ Talking /\ main # "storage" /\ DuePhase \in PutPhases =>
       Expects(op, DuePhase, DueIndex, Acked, status)
  /\ Talking /\ main # "storage" /\ DuePhase \in GetPhases =>
       Answers(op, DuePhase, DueIndex, sdBuffer, remoteHigh, Acked, status, disk)
  /\ main = "storage" =>
       /\ status = Ok
       /\ eng.track = op.track /\ eng.sector = op.sector
       /\ \/ DuePhase = "readStatus" /\ StorageCall(eng) = "read"
          \/ DuePhase = "writeStatus" /\ StorageCall(eng) = "write" /\ eng.buffer = op.data

\* Whoever waits does not wait for longer than a mount or a storage call, and
\* the AVR's patience is not tried.
TimeInv ==
  /\ hostPc # "waitAck" => timer = 0
  /\ timer # 0 => phase = "info" \/ Taken
  /\ timer <= MountLimit \/ timer <= CallLimit
  /\ main \in {"mount", "storage"} => timer <= blocked
  /\ main = "mount" => /\ ~ackFlag /\ ~Getting
                       /\ Talking => phase = "info" /\ index = 0
                       /\ hostPc = "idle" => BadCallAddress(op)
  /\ main = "publish" => quiet = 0
  /\ main = "poll" /\ Active(eng) => quiet = 0

BlockedInv ==
  /\ main \in {"reset", "mount"} => blocked \in 0 .. MountLimit
  /\ main = "storage" => blocked \in 0 .. CallLimit

\* What CallsAreExact says of a call that has returned.
ResultIsExact ==
  hostPc = "idle" /\ result # NoResult =>
    result = IF BadCallAddress(op) \/ status # Ok THEN FailCode ELSE Ok

RunInv == LinkInv /\ DialogueInv /\ TimeInv /\ ResultIsExact

InStepInv ==
  /\ ~stalled
  /\ BlockedInv
  /\ IF hostInit THEN RunInv ELSE StartInv

\* A card that fails is answered for, so that the two sides stay in step.
CardFaultsOnly == Faults \subseteq {"storageError"}

JointInv ==
  /\ BridgeTypes
  /\ faults \in Nat /\ blocked \in Nat
  /\ faults = 0 \/ CardFaultsOnly => InStepInv

\* A card that mounts before SDSETTLE ends, and mounts and calls that end before
\* SDWAIT gives up.
CardIsPrompt ==
  MountLimit < SettleLimit /\ MountLimit < WaitLimit /\ CallLimit < WaitLimit

-----------------------------------------------------------------------------
(* Facts.                                                                  *)

\* What the types say that the proofs below use.
LEMMA TypeFacts ==
  ASSUME BridgeTypes
  PROVE  /\ eng \in Engines /\ EngineInv(eng) /\ disk \in Images
         /\ status \in StorageStatuses /\ toAvr \in Byte /\ toHost \in Byte
         /\ main \in MainStates /\ pinChange \in BOOLEAN /\ published \in BOOLEAN
         /\ ackFlag \in BOOLEAN /\ readyFlag \in BOOLEAN
         /\ previousControl \in SUBSET Lines /\ events \in SUBSET Events
         /\ strobes \in SUBSET Lines /\ quiet \in Nat
         /\ published = ready
         /\ published => ~Receiving(eng) /\ toHost = ResponseByte(eng)
         /\ main # "poll" => ~published
         /\ HostTypeOK /\ HostInv /\ op \in Calls /\ op.kind \in Kinds /\ timer \in Nat
         /\ sdBuffer \in Buffers
         /\ hostPc = "idle" <=> result # Pending
PROOF
  <1>1. /\ TypeOK /\ FirmwareTypeOK /\ WiresTypeOK(Byte) /\ HostInv /\ HostTypeOK
        /\ EngineInv(eng) /\ PublishedInv /\ MainInv
    BY DEF BridgeTypes, IInv, TypeOK, HostInv
  <1>2. quiet \in Nat /\ timer \in Nat
    BY <1>1, FirmwareAssumption, HostAssumption DEF FirmwareTypeOK, HostTypeOK
  <1>. QED
    BY <1>1, <1>2
       DEF FirmwareTypeOK, WiresTypeOK, HostTypeOK, Calls, PublishedInv, MainInv, HostInv

\* A call that puts a byte.
LEMMA PuttingFacts ==
  ASSUME BridgeTypes, DialogueInv, Putting
  PROVE  /\ ~BadCallAddress(op) /\ Fits(op, phase) /\ phase \in PutPhases
         /\ phase \notin GetPhases /\ phase # "writeStatus"
         /\ index \in 0 .. LastIndex(phase)
         /\ OutgoingByte = ByteOf(op, phase, index, sum)
         /\ Talking /\ ~Getting /\ result = Pending /\ hostPc # "idle"
         /\ ~Taken => /\ DuePhase = phase /\ DueIndex = index
                      /\ Expects(op, phase, index, Acked, status)
                      /\ Receiving(Acked)
PROOF
  <1>1. HostTypeOK /\ Talking /\ ~Getting /\ result = Pending /\ hostPc # "idle" /\ HostInv
    BY TypeFacts DEF Talking, Putting, Getting
  <1>2. /\ ~BadCallAddress(op) /\ Fits(op, phase) /\ phase \in PutPhases
        /\ index \in 0 .. LastIndex(phase)
    BY <1>1 DEF HostInv, ScriptInv
  <1>3. phase \notin GetPhases /\ phase # "writeStatus"
    BY <1>2 DEF PutPhases, GetPhases
  <1>4. OutgoingByte = ByteOf(op, phase, index, sum)
    BY <1>1, <1>2, OutgoingByteIs
  <1>5. ASSUME ~Taken
        PROVE  DuePhase = phase /\ DueIndex = index /\ Expects(op, phase, index, Acked, status)
    <2>1. DuePhase = phase /\ DueIndex = index /\ main # "storage"
      BY <1>5 DEF DuePhase, DueIndex, Taken
    <2>. QED
      BY <1>1, <1>2, <2>1 DEF DialogueInv
  <1>6. ~Taken => Receiving(Acked)
    BY <1>2, <1>5, ExpectingReceives
  <1>. QED
    BY <1>1, <1>2, <1>3, <1>4, <1>5, <1>6

\* A call that gets one.
LEMMA GettingFacts ==
  ASSUME BridgeTypes, LinkInv, DialogueInv, Getting
  PROVE  /\ ~BadCallAddress(op) /\ Fits(op, phase) /\ phase \in GetPhases
         /\ phase \notin PutPhases /\ index \in 0 .. LastIndex(phase)
         /\ Talking /\ ~Putting /\ result = Pending /\ hostPc # "idle"
         /\ ~Taken /\ ~Outstanding("receive") /\ main \notin {"receive", "storage", "acknowledge"}
         /\ DuePhase = phase /\ DueIndex = index
         /\ Answers(op, phase, index, sdBuffer, remoteHigh, Acked, status, disk)
         /\ ~Receiving(Acked)
PROOF
  <1>1. Talking /\ ~Putting /\ result = Pending /\ hostPc # "idle" /\ HostInv
    BY TypeFacts DEF Talking, Putting, Getting
  <1>2. /\ ~BadCallAddress(op) /\ Fits(op, phase) /\ phase \in GetPhases
        /\ index \in 0 .. LastIndex(phase)
    BY <1>1 DEF HostInv, ScriptInv
  <1>3. phase \notin PutPhases
    BY <1>2 DEF PutPhases, GetPhases
  <1>4. /\ ~ackFlag /\ ~Outstanding("receive")
        /\ main \notin {"receive", "storage", "acknowledge"}
    BY DEF LinkInv, Getting
  <1>5. ~Taken /\ DuePhase = phase /\ DueIndex = index /\ main # "storage"
    BY <1>4 DEF Taken, DuePhase, DueIndex
  <1>6. Answers(op, phase, index, sdBuffer, remoteHigh, Acked, status, disk)
    BY <1>1, <1>2, <1>5 DEF DialogueInv
  <1>7. ~Receiving(Acked)
    BY <1>6 DEF Answers, Receiving
  <1>. QED
    BY <1>1, <1>2, <1>3, <1>4, <1>5, <1>6, <1>7

-----------------------------------------------------------------------------
(* The steps of the host, in step.                                         *)

\* What a step of the host leaves alone.
LEMMA HostFrame ==
  ASSUME BridgeTypes, PinsReachAvr
  PROVE  /\ UNCHANGED <<main, previousControl, events, eng, published, quiet, status, disk>>
         /\ strobes' = strobes =>
              /\ pinChange' = pinChange /\ Unseen' = Unseen /\ Acked' = Acked
              /\ \A line : Outstanding(line)' = Outstanding(line)
PROOF
  <1>1. /\ UNCHANGED <<main, previousControl, events, eng, published, quiet, status, disk>>
        /\ pinChange' = (pinChange \/ strobes' # strobes)
    BY DEF PinsReachAvr
  <1>2. strobes' = strobes => Unseen' = Unseen /\ pinChange' = pinChange
    BY <1>1, TypeFacts DEF Unseen
  <1>3. ASSUME strobes' = strobes
        PROVE  Acked' = Acked /\ \A line : Outstanding(line)' = Outstanding(line)
    BY <1>1, <1>2, <1>3 DEF Acked, Outstanding
  <1>. QED
    BY <1>1, <1>2, <1>3

LEMMA CallKeepsRun ==
  ASSUME BridgeTypes, hostInit, RunInv, NEW c \in Calls, HostCalls(c), PinsReachAvr,
         UNCHANGED blocked
  PROVE  RunInv' /\ hostInit'
PROOF
  <1>1. /\ hostPc = "idle" /\ op' = c /\ timer' = 0 /\ initialized' = (initialized /\ hostInit)
        /\ UNCHANGED <<sum, byte, remoteHigh, sdBuffer, hostInit, strobes, ready, ackFlag,
                       readyFlag, toAvr, toHost>>
    BY DEF HostCalls, wires
  <1>2. /\ UNCHANGED <<main, previousControl, events, eng, published, quiet, status, disk>>
        /\ pinChange' = pinChange /\ Unseen' = Unseen /\ Acked' = Acked
        /\ \A line : Outstanding(line)' = Outstanding(line)
    BY <1>1, HostFrame
  <1>3. initialized = TRUE /\ ~Talking /\ Acked.state = "SyncA"
    BY <1>1 DEF RunInv, LinkInv, DialogueInv, Talking, Putting, Getting
  <1>4. /\ ~ackFlag /\ main \notin {"receive", "storage", "acknowledge"}
        /\ ~Outstanding("receive")
    BY <1>1 DEF RunInv, LinkInv
  <1>5. CASE BadCallAddress(c)
    <2>1. result' = FailCode /\ UNCHANGED <<hostPc, phase, index>>
      BY <1>5, HostCallsGoes
    <2>2. LinkInv'
      BY <1>1, <1>2, <1>4, <2>1 DEF RunInv, LinkInv
    <2>3. DialogueInv'
      BY <1>1, <1>2, <1>3, <1>4, <2>1 DEF DialogueInv, Talking, Putting, Getting
    <2>4. TimeInv'
      BY <1>1, <1>2, <1>4, <1>5, <2>1 DEF RunInv, TimeInv, Taken, Talking, Putting, Getting
    <2>. QED
      BY <1>1, <1>5, <2>1, <2>2, <2>3, <2>4 DEF RunInv, ResultIsExact
  <1>6. CASE ~BadCallAddress(c)
    <2>1. hostPc' = "put" /\ phase' = "info" /\ index' = 0 /\ result' = Pending
      BY <1>3, <1>6, HostCallsGoes
    <2>2. LinkInv'
      BY <1>1, <1>2, <1>4, <2>1 DEF RunInv, LinkInv
    <2>3. ~Taken' /\ DuePhase' = "info" /\ DueIndex' = 0 /\ main' # "storage"
      BY <1>1, <1>2, <1>4, <2>1 DEF Taken, DuePhase, DueIndex
    <2>4. Expects(op', "info", 0, Acked', status')
      BY <1>2, <1>3, ResetExpectsHeader DEF HeaderPhases
    <2>5. DialogueInv'
      BY <1>2, <2>1, <2>3, <2>4 DEF DialogueInv, Talking, Putting, Getting, GetPhases
    <2>6. TimeInv'
      BY <1>1, <1>2, <1>4, <2>1 DEF RunInv, TimeInv, Taken, Talking, Putting, Getting
    <2>. QED
      BY <1>1, <2>1, <2>2, <2>5, <2>6 DEF RunInv, ResultIsExact
  <1>. QED
    BY <1>5, <1>6

\* SDPUT.
LEMMA PutsKeepsRun ==
  ASSUME BridgeTypes, hostInit, RunInv, PinsReachAvr, UNCHANGED blocked,
         HostStrobes \/ (EdgeSeen /\ HostReleases)
  PROVE  RunInv' /\ hostInit'
PROOF
  <1>1. /\ hostPc \in {"put", "strobing"}
        /\ UNCHANGED <<op, byte, remoteHigh, sdBuffer, phase, index, result, initialized,
                       hostInit, ackFlag, readyFlag, toHost>>
    BY DEF HostStrobes, HostReleases
  <1>2. UNCHANGED <<main, previousControl, events, eng, published, quiet, status, disk>>
    BY HostFrame
  <1>3. /\ ~ackFlag /\ main \notin {"receive", "storage", "acknowledge"} /\ ~Taken
        /\ ~Outstanding("receive") /\ timer = 0
    BY <1>1 DEF RunInv, LinkInv, TimeInv, Taken
  <1>4. /\ OutgoingByte = ByteOf(op, phase, index, sum)
        /\ Talking /\ ~Getting /\ result = Pending /\ hostPc # "idle"
        /\ phase \notin GetPhases
        /\ Expects(op, phase, index, Acked, status) /\ Receiving(Acked)
    BY <1>1, <1>3, PuttingFacts DEF Putting, RunInv
  <1>5. /\ pinChange \in BOOLEAN /\ previousControl \in SUBSET Lines
        /\ pinChange' = (pinChange \/ strobes' # strobes)
    BY TypeFacts DEF PinsReachAvr
  <1>6. CASE HostStrobes
    <2>1. /\ hostPc = "put" /\ hostPc' = "strobing" /\ strobes' = strobes \ {"receive"}
          /\ timer' = timer /\ toAvr' = toAvr
      BY <1>6 DEF HostStrobes
    <2>2. /\ strobes = Lines /\ strobes' = {"consume"}
          /\ previousControl \in {Lines, {"receive"}}
      BY <2>1, LineSets DEF RunInv, LinkInv, BridgeTypes, HostLines
    <2>3. Unseen' = Unseen /\ Unseen = IF previousControl = Lines THEN {} ELSE {"consume"}
      BY <1>2, <2>2, LineSets DEF Unseen
    <2>4. pinChange' /\ strobes' # previousControl'
      BY <1>2, <1>5, <2>2, LineSets
    <2>5. Acked' = Acked /\ \A line : Outstanding(line)' = Outstanding(line)
      BY <1>2, <2>3 DEF Acked, Outstanding
    <2>6. LinkInv'
      BY <1>1, <1>2, <1>3, <2>1, <2>2, <2>3, <2>4, <2>5 DEF RunInv, LinkInv
    <2>7. /\ ~Taken' /\ DuePhase' = phase /\ DueIndex' = index /\ Talking' /\ ~Getting'
          /\ main' # "storage"
      BY <1>1, <1>2, <1>3, <2>1
         DEF Taken, DuePhase, DueIndex, Talking, Putting, Getting
    <2>8. DialogueInv'
      BY <1>1, <1>2, <1>4, <2>5, <2>7 DEF DialogueInv
    <2>9. TimeInv'
      BY <1>1, <1>2, <1>3, <1>4, <2>1, <2>7 DEF RunInv, TimeInv
    <2>. QED
      BY <1>1, <2>1, <2>6, <2>8, <2>9 DEF RunInv, ResultIsExact
  <1>7. CASE EdgeSeen /\ HostReleases
    <2>1. /\ hostPc = "strobing" /\ hostPc' = "waitAck" /\ sum' = sum
          /\ strobes' = strobes \cup {"receive"} /\ toAvr' = OutgoingByte /\ timer' = 0
      BY <1>7 DEF HostReleases
    <2>2. strobes = {"consume"} /\ strobes' = Lines /\ ~pinChange /\ previousControl = strobes
      BY <1>7, <2>1, LineSets DEF RunInv, LinkInv, BridgeTypes, HostLines, EdgeSeen
    <2>3. Unseen = {} /\ Unseen' = {"receive"}
      BY <1>2, <2>2, LineSets DEF Unseen
    <2>4. pinChange' /\ strobes' # previousControl'
      BY <1>2, <1>5, <2>2, LineSets
    <2>5. /\ Outstanding("receive")'
          /\ Outstanding("consume")' = Outstanding("consume")
          /\ Acked' = Acked /\ "receive" \notin events
      BY <1>2, <1>3, <2>3, LineSets DEF Acked, Outstanding
    <2>6. LinkInv'
      BY <1>1, <1>2, <1>3, <1>4, <2>1, <2>2, <2>3, <2>4, <2>5 DEF RunInv, LinkInv
    <2>7. /\ ~Taken' /\ DuePhase' = phase /\ DueIndex' = index /\ Talking' /\ ~Getting'
          /\ main' # "storage"
      BY <1>1, <1>2, <1>3, <2>1
         DEF Taken, DuePhase, DueIndex, Talking, Putting, Getting
    <2>8. DialogueInv'
      BY <1>1, <1>2, <1>4, <2>5, <2>7 DEF DialogueInv
    <2>9. TimeInv'
      BY <1>1, <1>2, <1>3, <1>4, <2>1, <2>7 DEF RunInv, TimeInv
    <2>. QED
      BY <1>1, <2>1, <2>6, <2>8, <2>9 DEF RunInv, ResultIsExact
  <1>. QED
    BY <1>6, <1>7

LEMMA AckedKeepsRun ==
  ASSUME BridgeTypes, hostInit, RunInv, PinsReachAvr, UNCHANGED blocked, HostAcked
  PROVE  RunInv' /\ hostInit'
PROOF
  <1>. DEFINE n == PutNext(op, phase, index)
  <1>1. /\ hostPc = "waitAck" /\ ackFlag /\ ~ackFlag' /\ AfterPut
        /\ UNCHANGED <<op, sum, byte, remoteHigh, sdBuffer, initialized, hostInit, strobes,
                       readyFlag, toAvr, toHost>>
    BY DEF HostAcked, AckSeen
  <1>2. /\ UNCHANGED <<main, previousControl, events, eng, published, quiet, status, disk>>
        /\ pinChange' = pinChange /\ Unseen' = Unseen /\ Acked' = Acked
        /\ \A line : Outstanding(line)' = Outstanding(line)
    BY <1>1, HostFrame
  <1>3. /\ op.kind \in Kinds /\ Fits(op, phase) /\ phase \in PutPhases
        /\ index \in 0 .. LastIndex(phase) /\ HostTypeOK /\ Talking /\ result = Pending
    BY <1>1, PuttingFacts, TypeFacts DEF Putting, RunInv
  <1>4. /\ n.phase \in PutPhases \cup GetPhases /\ n.index \in 0 .. LastIndex(n.phase)
    BY <1>3, PutNextFits
  <1>5. Goto(n.phase, n.index)
    BY <1>1, <1>3, AfterPutGoes
  <1>6. /\ ~Outstanding("receive") /\ main \notin {"receive", "storage", "acknowledge"}
        /\ strobes = Lines /\ previousControl \in {Lines, {"consume"}}
    BY <1>1 DEF RunInv, LinkInv, BridgeTypes, HostLines
  <1>7. previousControl = Lines
    BY <1>6, LineSets DEF Outstanding, Unseen
  <1>8. DuePhase = n.phase /\ DueIndex = n.index
    BY <1>1 DEF DuePhase, DueIndex, Taken
  <1>. HIDE DEF n
  <1>9. /\ hostPc' \in {"put", "waitReady"} /\ result' = result
        /\ phase' = n.phase /\ index' = n.index /\ timer' = 0
    BY <1>3, <1>4, <1>5 DEF Goto
  <1>10. ~Taken' /\ DuePhase' = DuePhase /\ DueIndex' = DueIndex /\ Talking'
    BY <1>1, <1>2, <1>6, <1>8, <1>9
       DEF Taken, DuePhase, DueIndex, Talking, Putting, Getting
  <1>11. LinkInv'
    BY <1>1, <1>2, <1>6, <1>7, <1>9 DEF RunInv, LinkInv
  <1>12. DialogueInv'
    BY <1>1, <1>2, <1>3, <1>6, <1>10 DEF RunInv, DialogueInv
  <1>13. main # "mount"
    BY <1>1 DEF RunInv, TimeInv
  <1>14. TimeInv'
    BY <1>1, <1>2, <1>6, <1>9, <1>13, BridgeAssumption DEF RunInv, TimeInv
  <1>. QED
    BY <1>1, <1>9, <1>11, <1>12, <1>14 DEF RunInv, ResultIsExact

\* SDGET reads the byte.
LEMMA GetsKeepsRun ==
  ASSUME BridgeTypes, hostInit, RunInv, PinsReachAvr, UNCHANGED blocked, HostGets
  PROVE  RunInv' /\ hostInit'
PROOF
  <1>1. /\ hostPc = "waitReady" /\ hostPc' = "consuming" /\ readyFlag /\ ~readyFlag'
        /\ byte' = toHost /\ strobes' = strobes \ {"consume"}
        /\ UNCHANGED <<phase, index, op, sum, remoteHigh, sdBuffer, timer, initialized,
                       hostInit, result, ackFlag, toAvr, toHost>>
    BY DEF HostGets
  <1>2. UNCHANGED <<main, previousControl, events, eng, published, quiet, status, disk>>
    BY HostFrame
  <1>3. /\ phase \in GetPhases /\ Talking /\ result = Pending /\ ~Taken
        /\ ~Outstanding("receive") /\ main \notin {"receive", "storage", "acknowledge"}
        /\ DuePhase = phase /\ DueIndex = index
        /\ phase \notin PutPhases
        /\ Answers(op, phase, index, sdBuffer, remoteHigh, Acked, status, disk)
    BY <1>1, GettingFacts DEF Getting, RunInv
  <1>4. /\ published /\ ~Outstanding("consume") /\ strobes = Lines
        /\ previousControl \in {Lines, {"receive"}}
    BY <1>1 DEF RunInv, LinkInv, BridgeTypes, HostLines
  <1>5. toHost = ResponseByte(eng)
    BY <1>4, TypeFacts
  <1>6. previousControl = Lines /\ strobes' = {"receive"}
    BY <1>1, <1>4, LineSets DEF Outstanding, Unseen
  <1>7. Unseen = {} /\ Unseen' = {}
    BY <1>2, <1>4, <1>6, LineSets DEF Unseen
  <1>8. pinChange' /\ strobes' # previousControl'
    BY <1>2, <1>4, <1>6, LineSets, TypeFacts DEF PinsReachAvr
  <1>9. Acked' = Acked /\ \A line : Outstanding(line)' = Outstanding(line)
    BY <1>2, <1>7 DEF Acked, Outstanding
  <1>10. LinkInv'
    BY <1>1, <1>2, <1>3, <1>4, <1>5, <1>6, <1>7, <1>8, <1>9 DEF RunInv, LinkInv
  <1>11. /\ ~Taken' /\ DuePhase' = phase /\ DueIndex' = index /\ Talking'
    BY <1>1, <1>2, <1>3 DEF Taken, DuePhase, DueIndex, Talking, Putting, Getting
  <1>12. DialogueInv'
    BY <1>1, <1>2, <1>3, <1>9, <1>11 DEF DialogueInv
  <1>13. main # "mount"
    BY <1>1 DEF RunInv, TimeInv, Getting
  <1>14. TimeInv'
    BY <1>1, <1>2, <1>3, <1>13 DEF RunInv, TimeInv
  <1>. QED
    BY <1>1, <1>10, <1>12, <1>14 DEF RunInv, ResultIsExact

\* SDGET acknowledges the byte and the caller uses it.
LEMMA ConsumesKeepsRun ==
  ASSUME BridgeTypes, hostInit, RunInv, PinsReachAvr, UNCHANGED blocked, EdgeSeen,
         HostConsumes
  PROVE  RunInv' /\ hostInit'
PROOF
  <1>. DEFINE a == AcknowledgeResponse(eng)
  <1>1. /\ hostPc = "consuming" /\ strobes' = strobes \cup {"consume"}
        /\ UNCHANGED <<op, byte, initialized, hostInit, ackFlag, readyFlag, toAvr, toHost>>
    BY DEF HostConsumes
  <1>2. UNCHANGED <<main, previousControl, events, eng, published, quiet, status, disk>>
    BY HostFrame
  <1>3. /\ phase \in GetPhases /\ Talking /\ result = Pending /\ ~Taken /\ ~BadCallAddress(op)
        /\ ~Outstanding("receive") /\ main \notin {"receive", "storage", "acknowledge"}
        /\ Answers(op, phase, index, sdBuffer, remoteHigh, Acked, status, disk)
    BY <1>1, GettingFacts DEF Getting, RunInv
  <1>4. /\ published /\ byte = ResponseByte(eng) /\ ~Outstanding("consume") /\ ~readyFlag
        /\ ~ackFlag
    BY <1>1 DEF RunInv, LinkInv
  <1>5. strobes = {"receive"} /\ strobes' = Lines /\ ~pinChange /\ previousControl = strobes
        /\ main # "reset"
    BY <1>1, LineSets DEF RunInv, LinkInv, BridgeTypes, HostLines, EdgeSeen
  <1>6. Unseen = {} /\ Unseen' = {"consume"}
    BY <1>2, <1>5, LineSets DEF Unseen
  <1>7. pinChange' /\ strobes' # previousControl'
    BY <1>2, <1>5, LineSets, TypeFacts DEF PinsReachAvr
  <1>8. Acked = eng /\ Acked' = a /\ Outstanding("consume")'
        /\ ~Outstanding("receive")' /\ "consume" \notin events /\ "receive" \notin events
    BY <1>2, <1>3, <1>4, <1>6, LineSets DEF Acked, Outstanding
  <1>9. \/ /\ hostPc' \in {"put", "waitReady"} /\ result' = result
           /\ phase # "writeStatus" /\ phase' # "writeStatus"
           /\ hostPc' = "put" =>
                phase' \in PutPhases /\ Expects(op, phase', index', a, status)
           /\ hostPc' = "waitReady" =>
                /\ phase' \in GetPhases
                /\ Answers(op, phase', index', sdBuffer', remoteHigh', a, status, disk)
           /\ sdBuffer' # sdBuffer => op.kind = "read"
        \/ /\ hostPc' = "idle" /\ a.state = "SyncA"
           /\ result' = IF status = Ok THEN Ok ELSE FailCode
           /\ sdBuffer' = sdBuffer
           /\ op.kind = "write" /\ status = Ok => phase = "writeStatus"
           /\ op.kind = "read" /\ status = Ok => sdBuffer = disk[OffsetOf(op)]
    BY <1>3, <1>4, <1>8, ReplyByteUsed, TypeFacts
  <1>. HIDE DEF a
  <1>10. hostPc' \in {"idle", "put", "waitReady"}
    BY <1>9
  <1>11. ~Taken' /\ DuePhase' = phase' /\ DueIndex' = index'
    BY <1>1, <1>2, <1>3, <1>4 DEF Taken, DuePhase, DueIndex
  <1>12. LinkInv'
    BY <1>1, <1>2, <1>3, <1>4, <1>5, <1>6, <1>7, <1>8, <1>10 DEF RunInv, LinkInv
  <1>13. DialogueInv'
    <2>1. PutPhases \cap GetPhases = {}
      BY DEF PutPhases, GetPhases
    <2>. QED
      BY <1>1, <1>2, <1>3, <1>8, <1>9, <1>11, <2>1 DEF DialogueInv, Talking, Putting, Getting
  <1>14. main \notin {"mount", "storage"}
    BY <1>1, <1>3 DEF RunInv, TimeInv, Getting
  <1>15. timer' = 0
    BY ConsumedGoes, TypeFacts
  <1>16. TimeInv'
    BY <1>1, <1>2, <1>14, <1>15, BridgeAssumption DEF RunInv, TimeInv
  <1>17. ResultIsExact'
    BY <1>1, <1>2, <1>3, <1>9, Codes DEF ResultIsExact
  <1>. QED
    BY <1>1, <1>12, <1>13, <1>16, <1>17 DEF RunInv

\* SDWAIT does not give up.
LEMMA NeverTimesOut ==
  ASSUME BridgeTypes, CardIsPrompt, RunInv
  PROVE  ~HostTimesOut
PROOF
  <1>1. timer \in Nat /\ MountLimit \in Nat /\ CallLimit \in Nat /\ WaitLimit \in Nat
    BY TypeFacts, BridgeAssumption, HostAssumption
  <1>2. timer <= MountLimit \/ timer <= CallLimit
    BY DEF RunInv, TimeInv
  <1>3. timer # WaitLimit
    BY <1>1, <1>2 DEF CardIsPrompt
  <1>. QED
    BY <1>3 DEF HostTimesOut, WaitExpired

-----------------------------------------------------------------------------
(* The steps of the AVR, in step.                                          *)

\* What a step of the AVR leaves alone.
LEMMA AvrFrame ==
  ASSUME UNCHANGED host
  PROVE  /\ UNCHANGED <<hostPc, phase, index, op, sum, byte, remoteHigh, sdBuffer, timer,
                        initialized, hostInit, result>>
         /\ Talking' = Talking /\ Putting' = Putting /\ Getting' = Getting
         /\ Taken' = Taken => DuePhase' = DuePhase /\ DueIndex' = DueIndex
PROOF
  <1>1. UNCHANGED <<hostPc, phase, index, op, sum, byte, remoteHigh, sdBuffer, timer,
                    initialized, hostInit, result>>
    BY DEF host
  <1>. QED
    BY <1>1 DEF Talking, Putting, Getting, DuePhase, DueIndex

LEMMA InterruptKeepsRun ==
  ASSUME BridgeTypes, hostInit, RunInv, UNCHANGED host, UNCHANGED blocked,
         PinChangeInterrupt
  PROVE  RunInv' /\ hostInit'
PROOF
  <1>1. /\ previousControl' = strobes /\ pinChange' = FALSE
        /\ events' = events \cup Unseen \cup (IF events \cap Unseen # {} THEN {"overrun"} ELSE {})
        /\ UNCHANGED <<main, eng, published, quiet, status, disk, strobes, ready, ackFlag,
                       readyFlag, toAvr, toHost>>
    BY DEF PinChangeInterrupt, wires, Unseen
  <1>2. /\ UNCHANGED <<hostPc, phase, index, op, sum, byte, remoteHigh, sdBuffer, timer,
                       initialized, hostInit, result>>
        /\ Talking' = Talking /\ Putting' = Putting /\ Getting' = Getting
        /\ Taken' = Taken => DuePhase' = DuePhase /\ DueIndex' = DueIndex
    BY AvrFrame
  <1>3. events' = events \cup Unseen /\ Unseen' = {} /\ Unseen \subseteq Lines
    BY <1>1, TypeFacts DEF RunInv, LinkInv, Unseen
  <1>4. /\ \A line : Outstanding(line)' = Outstanding(line)
        /\ Acked' = Acked /\ Taken' = Taken
    BY <1>1, <1>2, <1>3 DEF Outstanding, Acked, Taken
  <1>5. LinkInv'
    <2>1. /\ hostPc \in {"idle", "put", "waitReady", "waitAck"} => strobes = Lines
          /\ hostPc = "strobing" => strobes = {"consume"}
          /\ hostPc = "consuming" => strobes = {"receive"}
      BY DEF BridgeTypes, HostLines
    <2>. QED
      BY <1>1, <1>2, <1>3, <1>4, <2>1 DEF RunInv, LinkInv
  <1>6. DialogueInv'
    BY <1>1, <1>2, <1>4 DEF RunInv, DialogueInv
  <1>7. TimeInv'
    BY <1>1, <1>2, <1>4 DEF RunInv, TimeInv
  <1>. QED
    BY <1>1, <1>2, <1>5, <1>6, <1>7 DEF RunInv, ResultIsExact

LEMMA MountKeepsRun ==
  ASSUME BridgeTypes, hostInit, RunInv, UNCHANGED host, blocked' = 0,
         NEW outcome \in MountOutcomes, Mount(outcome)
  PROVE  RunInv' /\ hostInit'
PROOF
  <1>1. /\ main = "mount" /\ main' = "poll" /\ eng' = EngineReset(eng) /\ published' = FALSE
        /\ quiet' = 0
        /\ UNCHANGED <<pinChange, previousControl, events, disk, strobes, ackFlag,
                       readyFlag, toAvr, toHost>>
    BY DEF Mount, Recover
  <1>2. /\ UNCHANGED <<hostPc, phase, index, op, sum, byte, remoteHigh, sdBuffer, timer,
                       initialized, hostInit, result>>
        /\ Talking' = Talking /\ Putting' = Putting /\ Getting' = Getting
        /\ Taken' = Taken => DuePhase' = DuePhase /\ DueIndex' = DueIndex
    BY AvrFrame
  <1>3. /\ eng \in Engines /\ ~published
        /\ ~ackFlag /\ ~Getting /\ (Talking => phase = "info" /\ index = 0)
        /\ (hostPc = "idle" => BadCallAddress(op))
    BY <1>1, TypeFacts DEF RunInv, TimeInv
  <1>4. ~Outstanding("consume") /\ ~readyFlag
    BY <1>3 DEF RunInv, LinkInv
  <1>5. eng'.state = "SyncA" /\ Receiving(eng') /\ ~Active(eng')
    BY <1>1, <1>3 DEF EngineReset, Engines, Receiving, Active
  <1>6. /\ Unseen' = Unseen /\ (\A line : Outstanding(line)' = Outstanding(line))
        /\ ~Taken' /\ ~Taken /\ Acked' = eng'
    BY <1>1, <1>3, <1>4 DEF Unseen, Outstanding, Taken, Acked
  <1>7. LinkInv'
    <2>1. hostPc # "consuming"
      BY <1>3 DEF Getting
    <2>. QED
      BY <1>1, <1>2, <1>3, <1>4, <1>5, <1>6, <2>1 DEF RunInv, LinkInv
  <1>8. DialogueInv'
    <2>1. Expects(op, "info", 0, eng', status')
      BY <1>5, ResetExpectsHeader DEF HeaderPhases
    <2>. QED
      BY <1>1, <1>2, <1>3, <1>5, <1>6, <2>1 DEF DialogueInv, DuePhase, DueIndex, GetPhases
  <1>9. TimeInv'
    BY <1>1, <1>2, <1>3, <1>5, <1>6 DEF RunInv, TimeInv, Talking, Putting
  <1>10. ResultIsExact'
    BY <1>2, <1>3 DEF RunInv, ResultIsExact
  <1>. QED
    BY <1>2, <1>7, <1>8, <1>9, <1>10 DEF RunInv

\* The consumed byte gives way to the next.
LEMMA ConsumedKeepsRun ==
  ASSUME BridgeTypes, hostInit, RunInv, UNCHANGED host, blocked' = 0, PollConsumes
  PROVE  RunInv' /\ hostInit'
PROOF
  <1>1. /\ main = "poll" /\ "consume" \in events /\ events' = {} /\ published' = FALSE
        /\ eng' = AcknowledgeResponse(eng) /\ quiet' = 0
        /\ main' = IF "receive" \in events THEN "receive" ELSE "publish"
        /\ UNCHANGED <<pinChange, previousControl, status, disk, strobes, ackFlag,
                       readyFlag, toAvr, toHost>>
    BY DEF PollConsumes, AfterConsume
  <1>2. /\ UNCHANGED <<hostPc, phase, index, op, sum, byte, remoteHigh, sdBuffer, timer,
                       initialized, hostInit, result>>
        /\ Talking' = Talking /\ Putting' = Putting /\ Getting' = Getting
        /\ Taken' = Taken => DuePhase' = DuePhase /\ DueIndex' = DueIndex
    BY AvrFrame
  <1>3. Outstanding("consume") /\ Acked = eng'
    BY <1>1 DEF Outstanding, Acked
  <1>4. /\ events \cap Unseen = {} /\ published /\ hostPc # "consuming" /\ ~readyFlag
        /\ (ackFlag => ~Outstanding("receive"))
        /\ (Outstanding("receive") => hostPc = "waitAck")
    BY <1>3 DEF RunInv, LinkInv
  <1>5. /\ Unseen' = Unseen /\ ~Outstanding("consume")' /\ Acked' = eng'
        /\ (Outstanding("receive")' <=> "receive" \in Unseen)
        /\ Taken' = Taken
    BY <1>1, <1>4 DEF Unseen, Outstanding, Acked, Taken
  <1>6. ASSUME "receive" \in events PROVE Receiving(eng') /\ ~ackFlag /\ hostPc = "waitAck"
    <2>1. Outstanding("receive") /\ ~ackFlag /\ hostPc = "waitAck" /\ ~Taken
      BY <1>1, <1>4, <1>6 DEF Outstanding, Taken
    <2>. QED
      BY <1>3, <2>1, PuttingFacts DEF Putting, RunInv
  <1>7. LinkInv'
    <2>1. Outstanding("receive") <=> "receive" \in Unseen \/ "receive" \in events
      BY DEF Outstanding
    <2>2. "receive" \in events => "receive" \notin Unseen
      BY <1>4
    <2>3. events' \subseteq Lines /\ events' \cap Unseen' = {}
      BY <1>1
    <2>. QED
      BY <1>1, <1>2, <1>4, <1>5, <1>6, <2>1, <2>2, <2>3 DEF RunInv, LinkInv
  <1>8. DialogueInv'
    BY <1>1, <1>2, <1>3, <1>5 DEF RunInv, DialogueInv
  <1>9. TimeInv'
    BY <1>1, <1>2, <1>5 DEF RunInv, TimeInv
  <1>. QED
    BY <1>1, <1>2, <1>7, <1>8, <1>9 DEF RunInv, ResultIsExact

\* A byte that the AVR takes is the one the engine waits for.
LEMMA ArrivingFacts ==
  ASSUME BridgeTypes, RunInv, TakesRequest
  PROVE  /\ hostPc = "waitAck" /\ ~Taken /\ ~ackFlag /\ main # "storage"
         /\ events' = {} /\ Unseen = {} /\ ~Outstanding("consume")
         /\ Acked = eng /\ Receiving(eng) /\ ~published /\ ~readyFlag
         /\ toAvr = ByteOf(op, phase, index, sum)
         /\ op \in Calls /\ op.kind \in Kinds /\ ~BadCallAddress(op) /\ Fits(op, phase)
         /\ phase \in PutPhases /\ phase # "writeStatus" /\ index \in 0 .. LastIndex(phase)
         /\ Expects(op, phase, index, eng, status)
         /\ phase \in {"sumHigh", "sumLow"} => sum = sectorChecksum(op.data)
         /\ Talking
PROOF
  <1>1. \/ main = "receive" /\ events' = events
        \/ main = "poll" /\ events = {"receive"} /\ events' = {}
    BY DEF TakesRequest
  <1>2. main = "poll" => Outstanding("receive")
    BY <1>1 DEF Outstanding
  <1>3. /\ hostPc = "waitAck" /\ ~ackFlag /\ main # "storage" /\ ~Taken
        /\ strobes = Lines /\ previousControl \in {Lines, {"consume"}}
    BY <1>1, <1>2 DEF RunInv, LinkInv, Taken, BridgeTypes, HostLines
  <1>4. /\ op \in Calls /\ op.kind \in Kinds /\ ~BadCallAddress(op) /\ Fits(op, phase)
        /\ phase \in PutPhases /\ phase # "writeStatus" /\ index \in 0 .. LastIndex(phase)
        /\ Talking /\ Expects(op, phase, index, Acked, status) /\ Receiving(Acked)
    BY <1>3, PuttingFacts, TypeFacts DEF Putting, RunInv
  <1>5. Unseen = {} /\ "consume" \notin events
    <2>1. CASE main = "poll" /\ events = {"receive"}
      <3>1. events \cap Unseen = {}
        BY DEF RunInv, LinkInv
      <3>. QED
        BY <1>3, <2>1, <3>1, LineSets DEF Unseen
    <2>2. CASE main = "receive"
      <3>1. ~published /\ ~Outstanding("receive") /\ ~Outstanding("consume")
        BY <2>2, TypeFacts DEF RunInv, LinkInv
      <3>. QED
        BY <1>3, <3>1, LineSets DEF Outstanding, Unseen
    <2>. QED
      BY <1>1, <2>1, <2>2
  <1>6. events' = {}
    <2>1. CASE main = "receive" /\ events' = events
      <3>1. ~Outstanding("receive") /\ events \subseteq Lines
        BY <2>1 DEF RunInv, LinkInv
      <3>. QED
        BY <1>5, <2>1, <3>1, LineSets DEF Outstanding
    <2>. QED
      BY <1>1, <2>1
  <1>7. ~Outstanding("consume") /\ Acked = eng
    BY <1>5 DEF Outstanding, Acked
  <1>8. ~published /\ ~readyFlag
    BY <1>4, <1>7, TypeFacts DEF RunInv, LinkInv
  <1>9. toAvr = ByteOf(op, phase, index, sum)
    BY <1>3 DEF RunInv, LinkInv
  <1>10. phase \in {"sumHigh", "sumLow"} => sum = sectorChecksum(op.data)
    BY <1>4, TypeFacts DEF HostInv, SumInv
  <1>. QED
    BY <1>3, <1>4, <1>5, <1>6, <1>7, <1>8, <1>9, <1>10

LEMMA ArrivingTaken ==
  ASSUME BridgeTypes, RunInv, TakesRequest
  PROVE  LET r == Receive(eng, toAvr, status)
             n == PutNext(op, phase, index)
         IN  /\ CallsStorage(eng, toAvr, status) =>
                  /\ status = Ok
                  /\ r \in Engines /\ r.track = op.track /\ r.sector = op.sector
                  /\ \/ /\ n.phase = "readStatus"
                        /\ StorageCall(r) = "read"
                     \/ /\ n.phase = "writeStatus"
                        /\ StorageCall(r) = "write"
                        /\ r.buffer = op.data
             /\ ~CallsStorage(eng, toAvr, status) =>
                  /\ n.phase # "writeStatus"
                  /\ n.phase \in PutPhases => Expects(op, n.phase, n.index, r, status)
                  /\ n.phase \in GetPhases =>
                       Answers(op, n.phase, n.index, sdBuffer, remoteHigh, r, status, disk)
PROOF
  BY TypeFacts, ArrivingFacts, RequestByteTaken

\* The engine takes the byte, and waits for the card or for its acknowledgement.
LEMMA ReceivesKeepsRun ==
  ASSUME BridgeTypes, hostInit, RunInv, UNCHANGED host, blocked' = 0, PollReceives
  PROVE  RunInv' /\ hostInit'
PROOF
  <1>. DEFINE r == Receive(eng, toAvr, status)
              n == PutNext(op, phase, index)
              asks == CallsStorage(eng, toAvr, status)
  <1>1. /\ TakesRequest /\ eng' = r
        /\ main' = IF asks THEN "storage" ELSE "acknowledge"
        /\ UNCHANGED <<pinChange, previousControl, published, quiet, status, disk,
                       strobes, ready, ackFlag, readyFlag, toAvr, toHost>>
    BY DEF PollReceives, wires
  <1>2. /\ UNCHANGED <<hostPc, phase, index, op, sum, byte, remoteHigh, sdBuffer, timer,
                       initialized, hostInit, result>>
        /\ Talking' = Talking /\ Putting' = Putting /\ Getting' = Getting
    BY AvrFrame
  <1>3. /\ asks =>
             /\ status = Ok
             /\ r \in Engines /\ r.track = op.track /\ r.sector = op.sector
             /\ \/ n.phase = "readStatus" /\ StorageCall(r) = "read"
                \/ n.phase = "writeStatus" /\ StorageCall(r) = "write" /\ r.buffer = op.data
        /\ ~asks =>
             /\ n.phase # "writeStatus"
             /\ n.phase \in PutPhases => Expects(op, n.phase, n.index, r, status)
             /\ n.phase \in GetPhases =>
                  Answers(op, n.phase, n.index, sdBuffer, remoteHigh, r, status, disk)
    BY <1>1, ArrivingTaken
  <1>4. asks => Receiving(r)
    BY DEF CallsStorage, Receiving
  <1>5. /\ hostPc = "waitAck" /\ ~Taken /\ ~ackFlag /\ events' = {} /\ Unseen = {}
        /\ ~published /\ ~readyFlag /\ Talking
        /\ toAvr = ByteOf(op, phase, index, sum)
        /\ op.kind \in Kinds /\ Fits(op, phase) /\ phase \in PutPhases
        /\ index \in 0 .. LastIndex(phase)
    BY <1>1, ArrivingFacts
  <1>6. phase = "info" => n.phase \in {"info", "infoReply"}
    <2>1. phase = "info" => index \in 0 .. 4
      BY <1>5 DEF LastIndex, HeaderPhases
    <2>. QED
      BY <2>1 DEF PutNext, HeaderPhases
  <1>. HIDE DEF r, n, asks
  <1>7. /\ Unseen' = {} /\ \A line : ~Outstanding(line)'
        /\ Acked' = r /\ Taken' /\ DuePhase' = n.phase /\ DueIndex' = n.index
    BY <1>1, <1>2, <1>5 DEF Unseen, Outstanding, Acked, Taken, DuePhase, DueIndex, n
  <1>8. LinkInv'
    <2>1. previousControl = strobes /\ ~pinChange
      BY <1>5, LineSets, TypeFacts DEF Unseen, RunInv, LinkInv, BridgeTypes, HostLines
    <2>. QED
      BY <1>1, <1>2, <1>4, <1>5, <1>7, <2>1 DEF RunInv, LinkInv
  <1>9. DialogueInv'
    BY <1>1, <1>2, <1>3, <1>5, <1>7 DEF DialogueInv
  <1>10. timer # 0 => ~asks
    BY <1>3, <1>5, <1>6 DEF RunInv, TimeInv
  <1>11. TimeInv'
    BY <1>1, <1>2, <1>5, <1>7, <1>10 DEF RunInv, TimeInv
  <1>12. ResultIsExact'
    BY <1>2, <1>5, TypeFacts DEF ResultIsExact
  <1>. QED
    BY <1>2, <1>8, <1>9, <1>11, <1>12 DEF RunInv

\* The link is never dropped.
LEMMA NeverRejects ==
  ASSUME BridgeTypes, RunInv
  PROVE  ~PollRejectsEvents /\ ~PollRejectsRequest /\ ~PollTimesOut
PROOF
  <1>1. ~PollRejectsEvents
    <2>1. events \subseteq Lines /\ ("consume" \in events => published)
      BY DEF RunInv, LinkInv, Outstanding
    <2>. QED
      BY <2>1 DEF PollRejectsEvents, Unexpected, Lines
  <1>2. ~PollRejectsRequest
    BY ArrivingFacts DEF PollRejectsRequest
  <1>3. ~PollTimesOut
    BY FirmwareAssumption DEF PollTimesOut, LinkExpired, RunInv, TimeInv
  <1>. QED
    BY <1>1, <1>2, <1>3

\* CA1 pulses: the transport's byte is acknowledged.
LEMMA AcknowledgesKeepsRun ==
  ASSUME BridgeTypes, hostInit, RunInv, UNCHANGED host, blocked' = 0, PollAcknowledges
  PROVE  RunInv' /\ hostInit'
PROOF
  <1>1. /\ main = "acknowledge" /\ main' = "publish" /\ ackFlag' = TRUE /\ quiet' = 0
        /\ UNCHANGED <<pinChange, previousControl, events, eng, published, status, disk,
                       strobes, ready, readyFlag, toAvr, toHost>>
    BY DEF PollAcknowledges
  <1>2. /\ UNCHANGED <<hostPc, phase, index, op, sum, byte, remoteHigh, sdBuffer, timer,
                       initialized, hostInit, result>>
        /\ Talking' = Talking /\ Putting' = Putting /\ Getting' = Getting
        /\ Taken' = Taken => DuePhase' = DuePhase /\ DueIndex' = DueIndex
    BY AvrFrame
  <1>3. /\ hostPc = "waitAck" /\ ~ackFlag /\ ~Outstanding("receive")
    BY <1>1 DEF RunInv, LinkInv
  <1>4. /\ Unseen' = Unseen /\ (\A line : Outstanding(line)' = Outstanding(line))
        /\ Taken /\ Taken' /\ Acked' = Acked
    BY <1>1 DEF Unseen, Outstanding, Taken, Acked
  <1>5. LinkInv'
    BY <1>1, <1>2, <1>3, <1>4 DEF RunInv, LinkInv
  <1>6. DialogueInv'
    BY <1>1, <1>2, <1>4 DEF RunInv, DialogueInv
  <1>7. TimeInv'
    BY <1>1, <1>2, <1>4 DEF RunInv, TimeInv
  <1>. QED
    BY <1>1, <1>2, <1>5, <1>6, <1>7 DEF RunInv, ResultIsExact

\* The next byte of the reply is presented, or there is none.
LEMMA PublishesKeepsRun ==
  ASSUME BridgeTypes, hostInit, RunInv, UNCHANGED host, blocked' = 0,
         PollPublishes \/ PollHasNothingToPublish
  PROVE  RunInv' /\ hostInit'
PROOF
  <1>1. /\ main = "publish" /\ main' = "poll" /\ ~published /\ ~ready
        /\ UNCHANGED <<pinChange, previousControl, events, eng, status, disk, strobes,
                       ackFlag, toAvr>>
    BY TypeFacts DEF PollPublishes, PollHasNothingToPublish, wires
  <1>2. /\ published' = ~Receiving(eng)
        /\ readyFlag' = (readyFlag \/ ~Receiving(eng))
        /\ quiet' = 0
    <2>1. CASE PollPublishes
      BY <1>1, <2>1 DEF PollPublishes
    <2>2. CASE PollHasNothingToPublish
      <3>1. Receiving(eng) /\ published' = published /\ readyFlag' = readyFlag /\ quiet' = quiet
        BY <1>1, <2>2 DEF PollHasNothingToPublish, wires
      <3>2. quiet = 0
        BY <1>1 DEF RunInv, TimeInv
      <3>. QED
        BY <1>1, <3>1, <3>2, TypeFacts
    <2>. QED
      BY <2>1, <2>2
  <1>3. /\ UNCHANGED <<hostPc, phase, index, op, sum, byte, remoteHigh, sdBuffer, timer,
                       initialized, hostInit, result>>
        /\ Talking' = Talking /\ Putting' = Putting /\ Getting' = Getting
        /\ Taken' = Taken => DuePhase' = DuePhase /\ DueIndex' = DueIndex
    BY AvrFrame
  <1>4. ~Outstanding("consume") /\ ~readyFlag /\ hostPc # "consuming"
    BY <1>1 DEF RunInv, LinkInv
  <1>5. /\ Unseen' = Unseen /\ (\A line : Outstanding(line)' = Outstanding(line))
        /\ Taken' = Taken /\ Acked' = Acked
    BY <1>1 DEF Unseen, Outstanding, Taken, Acked
  <1>6. LinkInv'
    BY <1>1, <1>2, <1>3, <1>4, <1>5 DEF RunInv, LinkInv
  <1>7. DialogueInv'
    BY <1>1, <1>3, <1>5 DEF RunInv, DialogueInv
  <1>8. TimeInv'
    BY <1>1, <1>2, <1>3, <1>5 DEF RunInv, TimeInv
  <1>. QED
    BY <1>1, <1>3, <1>6, <1>7, <1>8 DEF RunInv, ResultIsExact

\* The card answers.
LEMMA StorageKeepsRun ==
  ASSUME BridgeTypes, hostInit, RunInv, UNCHANGED host, blocked' = 0, StorageSteps
  PROVE  RunInv' /\ hostInit'
PROOF
  <1>1. /\ main = "storage" /\ main' = "acknowledge"
        /\ UNCHANGED <<pinChange, previousControl, events, published, quiet, status, strobes,
                       ready, ackFlag, readyFlag, toAvr, toHost>>
    BY DEF StorageSteps, StorageReads, StorageWrites, StorageSyncs, wires
  <1>2. /\ UNCHANGED <<hostPc, phase, index, op, sum, byte, remoteHigh, sdBuffer, timer,
                       initialized, hostInit, result>>
        /\ Talking' = Talking /\ Putting' = Putting /\ Getting' = Getting
        /\ Taken' = Taken => DuePhase' = DuePhase /\ DueIndex' = DueIndex
    BY AvrFrame
  <1>3. /\ hostPc = "waitAck" /\ ~ackFlag /\ ~published /\ Taken /\ Talking
        /\ status = Ok /\ eng \in Engines /\ disk \in Images
    BY <1>1, TypeFacts DEF RunInv, LinkInv, DialogueInv, Taken, Talking, Putting
  <1>4. ~Outstanding("consume")
    BY <1>3 DEF RunInv, LinkInv
  <1>5. EngineOffset = OffsetOf(op)
    BY <1>1 DEF RunInv, DialogueInv, EngineOffset, OffsetOf
  <1>6. \/ DuePhase = "readStatus" /\ StorageCall(eng) = "read"
        \/ DuePhase = "writeStatus" /\ StorageCall(eng) = "write" /\ eng.buffer = op.data
    BY <1>1 DEF RunInv, DialogueInv
  <1>7. /\ Unseen' = Unseen /\ (\A line : Outstanding(line)' = Outstanding(line))
        /\ Taken' /\ DuePhase' = DuePhase /\ DueIndex' = DueIndex /\ Acked' = eng'
    BY <1>1, <1>2, <1>3, <1>4 DEF Unseen, Outstanding, Taken, Acked
  <1>8. /\ eng'.state = "Response"
        /\ Answers(op, DuePhase, DueIndex, sdBuffer, remoteHigh, eng', status, disk')
        /\ DuePhase \notin PutPhases
    <2>1. Answer(eng, Ok).state = "Response" /\ StatusReply(Answer(eng, Ok), Ok)
      BY <1>3 DEF Answer, StatusReply, Engines
    <2>2. CASE DuePhase = "readStatus" /\ StorageCall(eng) = "read"
      <3>. DEFINE data == disk[OffsetOf(op)]
      <3>1. eng' = ReadReply(eng, data) /\ disk' = disk
        BY <1>5, <2>2 DEF StorageSteps, StorageReads, StorageWrites, StorageSyncs
      <3>. HIDE DEF data
      <3>2. ReadReply(eng, data).state = "Response" /\ SectorReply(ReadReply(eng, data), 0, data)
        BY <1>3 DEF ReadReply, Answer, SectorReply, Engines
      <3>3. Answers(op, DuePhase, DueIndex, sdBuffer, remoteHigh, eng', status, disk')
        BY <1>3, <2>2, <3>1, <3>2 DEF Answers, data
      <3>. QED
        BY <2>2, <3>1, <3>2, <3>3 DEF PutPhases
    <2>3. CASE DuePhase = "writeStatus" /\ StorageCall(eng) = "write"
      <3>1. eng' = Answer(eng, Ok)
        BY <2>3 DEF StorageSteps, StorageReads, StorageWrites, StorageSyncs
      <3>. QED
        BY <1>3, <2>1, <2>3, <3>1 DEF Answers, PutPhases
    <2>. QED
      BY <1>6, <2>2, <2>3
  <1>9. LinkInv'
    BY <1>1, <1>2, <1>3, <1>4, <1>7 DEF RunInv, LinkInv
  <1>10. DialogueInv'
    BY <1>1, <1>2, <1>3, <1>7, <1>8 DEF DialogueInv
  <1>11. TimeInv'
    BY <1>1, <1>2, <1>3, <1>7 DEF RunInv, TimeInv
  <1>. QED
    BY <1>1, <1>2, <1>9, <1>10, <1>11 DEF RunInv, ResultIsExact

\* A call that the card fails is answered like any other.
LEMMA CardFailsKeepsRun ==
  ASSUME BridgeTypes, hostInit, RunInv, UNCHANGED host, blocked' = 0,
         NEW n \in 0 .. SectorBytes, StorageFails(n)
  PROVE  RunInv' /\ hostInit'
PROOF
  <1>1. /\ main = "storage" /\ main' = "acknowledge" /\ status' = IoError
        /\ UNCHANGED <<pinChange, previousControl, events, published, quiet, strobes, ready,
                       ackFlag, readyFlag, toAvr, toHost>>
    BY DEF StorageFails, wires
  <1>2. /\ UNCHANGED <<hostPc, phase, index, op, sum, byte, remoteHigh, sdBuffer, timer,
                       initialized, hostInit, result>>
        /\ Talking' = Talking /\ Putting' = Putting /\ Getting' = Getting
        /\ Taken' = Taken => DuePhase' = DuePhase /\ DueIndex' = DueIndex
    BY AvrFrame
  <1>3. /\ hostPc = "waitAck" /\ ~ackFlag /\ ~published /\ Taken /\ Talking
        /\ eng \in Engines
    BY <1>1, TypeFacts DEF RunInv, LinkInv, Taken, Talking, Putting
  <1>4. ~Outstanding("consume")
    BY <1>3 DEF RunInv, LinkInv
  <1>5. DuePhase \in {"readStatus", "writeStatus"}
    BY <1>1 DEF RunInv, DialogueInv
  <1>6. /\ Unseen' = Unseen /\ (\A line : Outstanding(line)' = Outstanding(line))
        /\ Taken' /\ DuePhase' = DuePhase /\ DueIndex' = DueIndex /\ Acked' = eng'
    BY <1>1, <1>2, <1>3, <1>4 DEF Unseen, Outstanding, Taken, Acked
  <1>7. eng'.state = "Response" /\ StatusReply(eng', IoError)
    <2>. DEFINE x == Answer(eng, IoError)
    <2>1. x.state = "Response" /\ StatusReply(x, IoError)
      BY <1>3 DEF Answer, StatusReply, Engines
    <2>2. ASSUME NEW d PROVE LET y == [x EXCEPT !.buffer = d]
                             IN  y.state = "Response" /\ StatusReply(y, IoError)
      BY <1>3 DEF Answer, StatusReply, Engines
    <2>. HIDE DEF x
    <2>3. eng' = IF StorageCall(eng) = "read"
                   THEN [x EXCEPT !.buffer = Mixed(disk[EngineOffset], n, x.buffer)]
                   ELSE x
      BY DEF StorageFails, x
    <2>. QED
      BY <2>1, <2>2, <2>3
  <1>8. /\ Answers(op, DuePhase, DueIndex, sdBuffer, remoteHigh, eng', status', disk')
        /\ DuePhase \notin PutPhases
    BY <1>1, <1>5, <1>7, Codes DEF Answers, PutPhases, IoError, Ok
  <1>9. LinkInv'
    BY <1>1, <1>2, <1>3, <1>4, <1>6 DEF RunInv, LinkInv
  <1>10. DialogueInv'
    BY <1>1, <1>2, <1>3, <1>6, <1>8 DEF DialogueInv
  <1>11. TimeInv'
    BY <1>1, <1>2, <1>3, <1>6 DEF RunInv, TimeInv
  <1>. QED
    BY <1>2, <1>3, <1>9, <1>10, <1>11 DEF RunInv, ResultIsExact

\* Every step of the AVR, in step.
LEMMA AvrStepKeepsRun ==
  ASSUME BridgeTypes, hostInit, RunInv, AvrStep
  PROVE  RunInv' /\ hostInit'
PROOF
  <1>1. UNCHANGED host /\ blocked' = IF main' = main THEN blocked ELSE 0
    BY DEF AvrStep
  <1>2. ASSUME PinChangeInterrupt PROVE RunInv' /\ hostInit'
    <2>1. UNCHANGED blocked
      BY <1>1, <1>2 DEF PinChangeInterrupt
    <2>. QED
      BY <1>1, <1>2, <2>1, InterruptKeepsRun
  <1>3. ~BoardInit
    BY DEF BoardInit, RunInv, LinkInv
  <1>4. ASSUME \E outcome \in MountOutcomes : Mount(outcome) PROVE RunInv' /\ hostInit'
    <2>1. PICK outcome \in MountOutcomes : Mount(outcome)
      BY <1>4
    <2>2. blocked' = 0
      BY <1>1, <2>1 DEF Mount
    <2>. QED
      BY <1>1, <2>1, <2>2, MountKeepsRun
  <1>5. ASSUME PollSteps PROVE RunInv' /\ hostInit'
    <2>1. ~PollRejectsEvents /\ ~PollRejectsRequest /\ ~PollTimesOut
      BY NeverRejects
    <2>2. blocked' = 0
      <3>1. main' # main
        BY <1>5, <2>1
           DEF PollSteps, PollConsumes, AfterConsume, PollReceives, TakesRequest,
               PollAcknowledges, PollPublishes, PollHasNothingToPublish
      <3>. QED
        BY <1>1, <3>1
    <2>. QED
      BY <1>1, <1>5, <2>1, <2>2, ConsumedKeepsRun, ReceivesKeepsRun, AcknowledgesKeepsRun,
         PublishesKeepsRun DEF PollSteps
  <1>6. ASSUME StorageSteps PROVE RunInv' /\ hostInit'
    <2>1. blocked' = 0
      BY <1>1, <1>6 DEF StorageSteps, StorageReads, StorageWrites, StorageSyncs
    <2>. QED
      BY <1>1, <1>6, <2>1, StorageKeepsRun
  <1>. QED
    BY <1>2, <1>3, <1>4, <1>5, <1>6 DEF AvrStep

\* Every step of the host, in step.
LEMMA HostStepKeepsRun ==
  ASSUME BridgeTypes, CardIsPrompt, hostInit, RunInv, Call \/ HostStep
  PROVE  RunInv' /\ hostInit'
PROOF
  <1>1. PinsReachAvr /\ UNCHANGED blocked
    BY DEF Call, HostStep, clock
  <1>2. ASSUME Call PROVE RunInv' /\ hostInit'
    <2>1. PICK c \in Calls : HostCalls(c)
      BY <1>2, BridgeAssumption DEF Call
    <2>. QED
      BY <1>1, <2>1, CallKeepsRun
  <1>3. ASSUME HostStep PROVE RunInv' /\ hostInit'
    <2>1. hostPc \notin {"configure", "settle"}
      BY DEF RunInv, LinkInv
    <2>2. ~HostTimesOut
      BY NeverTimesOut
    <2>3. \/ HostStrobes \/ (EdgeSeen /\ HostReleases) \/ HostAcked \/ HostGets
          \/ (EdgeSeen /\ HostConsumes)
      BY <1>3, <2>1, <2>2
         DEF HostStep, HostConfigures, HostEndsStartupStrobe, HostSettles
    <2>. QED
      BY <1>1, <2>3, PutsKeepsRun, AckedKeepsRun, GetsKeepsRun, ConsumesKeepsRun
  <1>. QED
    BY <1>2, <1>3

\* Time passes only in a mount or a storage call, or between two calls.
LEMMA TimeKeepsRun ==
  ASSUME BridgeTypes, hostInit, RunInv, ~stalled, BlockedInv, blocked \in Nat, TimePasses
  PROVE  RunInv' /\ hostInit'
PROOF
  <1>1. /\ HostWaits /\ HostTick /\ QuietTick /\ (~pinChange \/ main = "reset")
        /\ AvrBlocks \/ AvrIdles
        /\ blocked' = IF AvrBlocks THEN blocked + 1 ELSE blocked
        /\ UNCHANGED <<main, pinChange, previousControl, events, eng, published, status,
                       disk, strobes, ready, ackFlag, readyFlag, toAvr, toHost, hostPc,
                       phase, index, op, sum, byte, remoteHigh, sdBuffer, initialized,
                       hostInit, result>>
    BY DEF TimePasses, wires
  <1>2. /\ timer \in Nat /\ MountLimit \in Nat /\ CallLimit \in Nat
        /\ main # "reset" /\ ~pinChange /\ previousControl = strobes
    BY <1>1, TypeFacts, BridgeAssumption DEF RunInv, LinkInv
  <1>3. /\ Unseen' = Unseen /\ (\A line : Outstanding(line)' = Outstanding(line))
        /\ Acked' = Acked /\ Taken' = Taken /\ DuePhase' = DuePhase /\ DueIndex' = DueIndex
        /\ Talking' = Talking /\ Getting' = Getting
    BY <1>1 DEF Unseen, Outstanding, Acked, Taken, DuePhase, DueIndex, Talking, Putting, Getting
  <1>4. LinkInv'
    BY <1>1, <1>3 DEF RunInv, LinkInv
  <1>5. DialogueInv'
    BY <1>1, <1>3 DEF RunInv, DialogueInv
  <1>6. TimeInv'
    <2>1. CASE AvrIdles
      <3>1. main = "poll" /\ events = {} /\ ~AvrBlocks
        BY <2>1 DEF AvrIdles, AvrBlocks
      <3>2. \A line : ~Outstanding(line)
        BY <1>2, <3>1 DEF Outstanding, Unseen
      <3>3. Acked = eng
        BY <3>2 DEF Acked
      <3>4. hostPc # "waitAck" \/ ackFlag
        BY <3>1, <3>2 DEF RunInv, LinkInv
      <3>5. hostPc # "waitReady" \/ readyFlag
        <4>1. hostPc = "waitReady" => ~Receiving(eng)
          BY <3>3, GettingFacts DEF Getting, RunInv
        <4>. QED
          BY <3>1, <3>2, <4>1 DEF RunInv, LinkInv
      <3>6. hostPc = "idle"
        BY <1>1, <3>4, <3>5 DEF HostWaits, RunInv, LinkInv
      <3>7. timer' = timer /\ ~Active(eng)
        BY <1>1, <3>3, <3>6
           DEF HostTick, RunInv, DialogueInv, Talking, Putting, Getting, Active
      <3>. QED
        BY <1>1, <1>3, <3>1, <3>7 DEF RunInv, TimeInv, Active
    <2>2. CASE AvrBlocks
      <3>1. /\ blocked' = blocked + 1 /\ timer <= blocked
            /\ \/ main = "mount" /\ blocked < MountLimit
               \/ main = "storage" /\ blocked < CallLimit
        BY <1>1, <1>2, <2>2 DEF AvrBlocks, RunInv, TimeInv
      <3>2. hostPc = "idle" \/ hostPc = "waitAck"
        BY <1>1, <3>1 DEF HostWaits, RunInv, LinkInv, TimeInv, Getting
      <3>3. /\ timer' \in {timer, timer + 1}
            /\ hostPc = "idle" => timer' = timer
        BY <1>1 DEF HostTick
      <3>4. hostPc = "waitAck" => phase = "info" \/ Taken
        BY <3>1 DEF RunInv, TimeInv, Talking, Putting, Taken
      <3>5. timer' <= blocked' /\ (timer' <= MountLimit \/ timer' <= CallLimit)
        BY <1>2, <3>1, <3>3
      <3>. QED
        BY <1>1, <1>2, <1>3, <3>1, <3>2, <3>3, <3>4, <3>5 DEF RunInv, TimeInv
    <2>. QED
      BY <1>1, <2>1, <2>2
  <1>. QED
    BY <1>1, <1>4, <1>5, <1>6 DEF RunInv, ResultIsExact

-----------------------------------------------------------------------------
(* Until the first SDSETTLE has ended.                                     *)

\* The host's steps up to then.
LEMMA HostStepKeepsStart ==
  ASSUME BridgeTypes, ~hostInit, StartInv, blocked \in Nat,
         Call \/ HostStep, ~HostSettles
  PROVE  StartInv' /\ ~hostInit'
PROOF
  <1>1. /\ UNCHANGED <<main, previousControl, events, eng, published, quiet, status, disk,
                       blocked>>
        /\ pinChange' = (pinChange \/ strobes' # strobes)
        /\ pinChange \in BOOLEAN /\ MountLimit \in Nat
        /\ previousControl \in SUBSET Lines /\ strobes \in SUBSET Lines
    BY TypeFacts, BridgeAssumption DEF Call, HostStep, PinsReachAvr, clock
  <1>2. CASE Call
    <2>1. PICK c \in Calls : HostCalls(c)
      BY <1>2, BridgeAssumption DEF Call
    <2>2. /\ hostPc = "idle" /\ timer' = 0 /\ initialized' = FALSE
          /\ UNCHANGED <<hostInit, strobes, toAvr>>
      BY <2>1 DEF HostCalls, wires, StartInv
    <2>3. hostPc' = "configure" /\ result' = Pending
      BY <2>1, HostCallsGoes
    <2>. QED
      BY <1>1, <2>2, <2>3 DEF StartInv, Stray, Unseen, Outstanding
  <1>3. CASE \E glitch \in SUBSET Lines : HostConfigures(glitch)
    <2>1. PICK glitch \in SUBSET Lines : HostConfigures(glitch)
      BY <1>3
    <2>2. /\ hostPc = "configure" /\ hostPc' = "settle" /\ strobes' = strobes \ glitch
          /\ UNCHANGED <<timer, initialized, hostInit, result, toAvr>>
      BY <2>1 DEF HostConfigures
    <2>3. /\ timer = 0 /\ strobes = Lines /\ events = {} /\ ~pinChange
          /\ main \in {"reset", "mount", "poll"}
          /\ main # "reset" => previousControl = Lines
      BY <2>2 DEF StartInv, Stray
    <2>4. main' # "reset" => ~Outstanding("receive")'
      BY <1>1, <2>2, <2>3 DEF Outstanding, Unseen
    <2>5. main' # "reset" /\ strobes' # previousControl' => pinChange'
      BY <1>1, <2>3
    <2>6. eng.state = "SyncA" /\ ~published /\ initialized = FALSE /\ blocked \in Nat
      BY DEF StartInv
    <2>. QED
      BY <1>1, <2>2, <2>3, <2>4, <2>5, <2>6 DEF StartInv
  <1>4. CASE HostEndsStartupStrobe
    <2>1. /\ hostPc = "settle" /\ strobes # Lines /\ strobes' = Lines
          /\ toAvr' = IF "receive" \in strobes THEN toAvr ELSE 255
          /\ UNCHANGED <<hostPc, timer, initialized, hostInit, result>>
      BY <1>4 DEF HostEndsStartupStrobe, host
    <2>2. timer = 0 /\ pinChange'
      BY <1>1, <2>1 DEF StartInv
    <2>3. main # "reset" /\ Outstanding("receive")' => toAvr' = 255
      BY <1>1, <2>1 DEF StartInv, Outstanding, Unseen
    <2>. QED
      BY <1>1, <2>1, <2>2, <2>3 DEF StartInv, Stray
  <1>5. ~(HostStrobes \/ HostReleases \/ HostAcked \/ HostGets \/ HostConsumes \/ HostTimesOut)
    BY DEF HostStrobes, HostReleases, HostAcked, HostGets, HostConsumes, HostTimesOut,
           WaitExpired, StartInv
  <1>. QED
    BY <1>2, <1>3, <1>4, <1>5 DEF HostStep

\* The AVR's steps: nothing but a start-up strobe reaches it, whose byte is no
\* sync byte.
LEMMA AvrStepKeepsStart ==
  ASSUME BridgeTypes, ~hostInit, StartInv, blocked \in Nat, AvrStep
  PROVE  StartInv' /\ ~hostInit'
PROOF
  <1>1. /\ UNCHANGED <<hostPc, timer, initialized, hostInit, result>>
        /\ blocked' = IF main' = main THEN blocked ELSE 0
    BY DEF AvrStep, host
  <1>2. /\ eng \in Engines /\ timer \in Nat /\ MountLimit \in Nat /\ MainInv
        /\ Receiving(eng) /\ ~Active(eng) /\ ~published /\ events \in SUBSET Events
        /\ previousControl \in SUBSET Lines /\ strobes \in SUBSET Lines
    BY TypeFacts, BridgeAssumption DEF StartInv, Receiving, Active, BridgeTypes, IInv
  <1>3. EngineReset(eng).state = "SyncA"
    BY <1>2 DEF EngineReset, Engines
  <1>4. CASE PinChangeInterrupt
    <2>1. /\ main # "reset" /\ pinChange /\ previousControl' = strobes /\ pinChange' = FALSE
          /\ events' = events \cup Unseen
                         \cup (IF events \cap Unseen # {} THEN {"overrun"} ELSE {})
          /\ UNCHANGED <<main, eng, published, strobes, toAvr>>
      BY <1>4 DEF PinChangeInterrupt, wires, Unseen
    <2>2. Outstanding("receive")' => Outstanding("receive")
      BY <2>1 DEF Outstanding, Unseen
    <2>3. Stray
      BY <2>1 DEF Stray
    <2>. QED
      BY <1>1, <2>1, <2>2, <2>3 DEF StartInv
  <1>5. CASE BoardInit
    <2>1. /\ main = "reset" /\ main' = "mount" /\ previousControl' = strobes /\ events' = {}
          /\ pinChange' = FALSE
          /\ UNCHANGED <<eng, published, strobes, toAvr>>
      BY <1>5 DEF BoardInit, wires
    <2>2. ~Outstanding("receive")'
      BY <2>1 DEF Outstanding, Unseen
    <2>3. Stray' => strobes # Lines /\ Stray
      BY <2>1 DEF Stray
    <2>. QED
      BY <1>1, <1>2, <2>1, <2>2, <2>3 DEF StartInv
  <1>6. CASE \E outcome \in MountOutcomes : Mount(outcome)
    <2>1. /\ main = "mount" /\ main' = "poll" /\ eng' = EngineReset(eng) /\ published' = FALSE
          /\ UNCHANGED <<pinChange, previousControl, events, strobes, toAvr>>
      BY <1>6 DEF Mount, Recover
    <2>2. Outstanding("receive")' = Outstanding("receive") /\ (Stray' => Stray)
      BY <2>1 DEF Outstanding, Unseen, Stray
    <2>. QED
      BY <1>1, <1>3, <2>1, <2>2 DEF StartInv
  <1>7. CASE PollRejectsEvents
    <2>1. /\ main = "poll" /\ main' = main /\ events' = {} /\ eng' = EngineReset(eng)
          /\ published' = FALSE
          /\ UNCHANGED <<pinChange, previousControl, strobes, toAvr>>
      BY <1>7 DEF PollRejectsEvents, Recover
    <2>2. (Outstanding("receive")' => Outstanding("receive")) /\ (Stray' => Stray)
      BY <2>1 DEF Outstanding, Unseen, Stray
    <2>. QED
      BY <1>1, <1>3, <2>1, <2>2 DEF StartInv
  <1>8. CASE PollReceives
    <2>1. /\ TakesRequest /\ eng' = Receive(eng, toAvr, status)
          /\ main' = IF CallsStorage(eng, toAvr, status) THEN "storage" ELSE "acknowledge"
          /\ UNCHANGED <<pinChange, previousControl, published, strobes, toAvr>>
      BY <1>8 DEF PollReceives, wires
    <2>2. /\ main \in {"receive", "poll"} /\ events' \subseteq events /\ Stray
          /\ main = "poll" => Outstanding("receive")
      BY <2>1 DEF TakesRequest, Stray, Outstanding
    <2>3. toAvr = 255 /\ eng.state = "SyncA"
      BY <2>2 DEF StartInv
    <2>4. eng' = eng
      <3>1. toAvr # SyncFirst
        BY <2>3 DEF SyncFirst
      <3>2. Receive(eng, toAvr, status)
              = IF toAvr = SyncFirst THEN [eng EXCEPT !.state = "SyncB"] ELSE eng
        BY <2>3, Zenon DEF Receive
      <3>. QED
        BY <2>1, <3>1, <3>2
    <2>5. main' = "acknowledge"
      BY <2>1, <2>3 DEF CallsStorage
    <2>6. Outstanding("receive")' => Outstanding("receive")
      BY <2>1, <2>2 DEF Outstanding, Unseen
    <2>. QED
      BY <1>1, <2>1, <2>2, <2>3, <2>4, <2>5, <2>6 DEF StartInv
  <1>9. CASE PollAcknowledges \/ PollHasNothingToPublish
    <2>1. /\ main \in {"acknowledge", "publish"} /\ main' \in {"publish", "poll"}
          /\ UNCHANGED <<pinChange, previousControl, events, eng, published, strobes, toAvr>>
      BY <1>9 DEF PollAcknowledges, PollHasNothingToPublish, wires
    <2>2. Outstanding("receive")' = Outstanding("receive") /\ Stray
      BY <2>1 DEF Outstanding, Unseen, Stray
    <2>. QED
      BY <1>1, <2>1, <2>2 DEF StartInv
  <1>10. ~(PollConsumes \/ PollRejectsRequest \/ PollPublishes \/ PollTimesOut \/ StorageSteps)
    <2>1. ~PollConsumes
      BY <1>2 DEF PollConsumes, Unexpected
    <2>2. ~PollRejectsRequest /\ ~PollPublishes /\ ~PollTimesOut
      BY <1>2 DEF PollRejectsRequest, PollPublishes, PollTimesOut, LinkExpired
    <2>3. main # "storage"
      BY <1>2 DEF MainInv, CallIsLegal, StartInv
    <2>. QED
      BY <2>1, <2>2, <2>3 DEF StorageSteps, StorageReads, StorageWrites, StorageSyncs
  <1>. QED
    BY <1>4, <1>5, <1>6, <1>7, <1>8, <1>9, <1>10 DEF AvrStep, PollSteps

\* SDSETTLE counts, and outlasts the mount.
LEMMA TimeKeepsStart ==
  ASSUME BridgeTypes, ~hostInit, StartInv, ~stalled, BlockedInv, blocked \in Nat, TimePasses
  PROVE  StartInv' /\ ~hostInit'
PROOF
  <1>1. /\ HostWaits /\ HostTick /\ (~pinChange \/ main = "reset")
        /\ AvrBlocks \/ AvrIdles
        /\ blocked' = IF AvrBlocks THEN blocked + 1 ELSE blocked
        /\ UNCHANGED <<main, pinChange, previousControl, events, eng, published, strobes,
                       toAvr, hostPc, initialized, hostInit, result>>
    BY DEF TimePasses, wires
  <1>2. timer \in Nat /\ MountLimit \in Nat /\ MainInv /\ main # "storage"
    BY TypeFacts, BridgeAssumption DEF StartInv, BridgeTypes, IInv, MainInv, CallIsLegal
  <1>3. Stray' = Stray /\ Outstanding("receive")' = Outstanding("receive")
    BY <1>1 DEF Stray, Outstanding, Unseen
  <1>4. /\ timer' \in {timer, timer + 1}
        /\ hostPc # "settle" => timer' = timer
        /\ timer' # timer => strobes = Lines
    BY <1>1 DEF HostTick, HostWaits, StartInv
  <1>5. CASE AvrBlocks
    <2>1. main \in {"reset", "mount"} /\ blocked < MountLimit /\ blocked' = blocked + 1
      BY <1>1, <1>2, <1>5 DEF AvrBlocks
    <2>2. timer <= blocked => timer' <= blocked' /\ timer' <= MountLimit
      BY <1>2, <1>4, <2>1
    <2>. QED
      BY <1>1, <1>2, <1>3, <1>4, <2>1, <2>2 DEF StartInv
  <1>6. CASE AvrIdles
    <2>1. main = "poll" /\ events = {} /\ ~pinChange
      BY <1>1, <1>6 DEF AvrIdles
    <2>2. strobes = Lines
      BY <1>1 DEF HostWaits, StartInv, Stray
    <2>3. ~Stray
      BY <2>1, <2>2 DEF Stray
    <2>. QED
      BY <1>1, <1>3, <1>4, <2>1, <2>2, <2>3 DEF StartInv
  <1>. QED
    BY <1>1, <1>5, <1>6

\* The transport starts with both sides at rest.
LEMMA SettlesIntoRun ==
  ASSUME BridgeTypes, CardIsPrompt, ~hostInit, StartInv, BlockedInv, PinsReachAvr,
         UNCHANGED blocked, HostSettles
  PROVE  RunInv' /\ hostInit'
PROOF
  <1>1. /\ hostPc = "settle" /\ strobes = Lines /\ timer = SettleLimit
        /\ ~ackFlag' /\ ~readyFlag' /\ initialized' = TRUE /\ hostInit' = TRUE
        /\ UNCHANGED <<op, strobes, toAvr>>
    BY DEF HostSettles, ClearsFlags
  <1>2. /\ UNCHANGED <<main, previousControl, events, eng, published, quiet, status, disk>>
        /\ pinChange' = pinChange /\ Unseen' = Unseen /\ Acked' = Acked
        /\ \A line : Outstanding(line)' = Outstanding(line)
    BY <1>1, HostFrame
  <1>3. ~Stray /\ main # "reset"
    <2>1. SettleLimit \in Nat /\ MountLimit \in Nat /\ MountLimit < SettleLimit
      BY BridgeAssumption, HostAssumption DEF CardIsPrompt
    <2>. QED
      BY <1>1, <2>1 DEF StartInv, BlockedInv
  <1>4. /\ main \in {"mount", "poll"} /\ events = {} /\ ~pinChange /\ previousControl = Lines
        /\ ~published /\ Receiving(eng) /\ ~Active(eng)
    BY <1>1, <1>3 DEF StartInv, Stray, Receiving, Active
  <1>5. /\ Unseen = {} /\ (\A line : ~Outstanding(line)) /\ Acked = eng /\ eng.state = "SyncA"
        /\ ~Taken'
    BY <1>1, <1>2, <1>4 DEF Unseen, Outstanding, Acked, StartInv, Taken
  <1>6. \/ /\ BadCallAddress(op) /\ hostPc' = "idle" /\ result' = FailCode /\ timer' = 0
        \/ /\ hostPc' = "put" /\ phase' = "info" /\ index' = 0 /\ timer' = 0
           /\ result' = result
    BY DEF HostSettles, Return, Goto, PutPhases
  <1>7. LinkInv'
    BY <1>1, <1>2, <1>4, <1>5, <1>6 DEF LinkInv
  <1>8. DialogueInv'
    <2>1. Expects(op', "info", 0, Acked', status')
      BY <1>2, <1>5, ResetExpectsHeader DEF HeaderPhases
    <2>2. hostPc' = "put" => DuePhase' = "info" /\ DueIndex' = 0
      BY <1>5, <1>6 DEF DuePhase, DueIndex
    <2>3. "info" \notin GetPhases
      BY DEF GetPhases
    <2>. QED
      BY <1>2, <1>4, <1>5, <1>6, <2>1, <2>2, <2>3 DEF DialogueInv, Talking, Putting, Getting
  <1>9. TimeInv'
    BY <1>1, <1>2, <1>4, <1>6, BridgeAssumption
       DEF TimeInv, Talking, Putting, Getting, Active, BlockedInv
  <1>10. ResultIsExact'
    BY <1>1, <1>6 DEF ResultIsExact
  <1>. QED
    BY <1>1, <1>7, <1>8, <1>9, <1>10 DEF RunInv

-----------------------------------------------------------------------------
(* Every step keeps the invariant, until a fault.                          *)

LEMMA BlockedKeeps ==
  ASSUME BlockedInv, blocked \in Nat, Call \/ HostStep \/ AvrStep \/ TimePasses
  PROVE  BlockedInv' /\ blocked' \in Nat
PROOF
  <1>1. MountLimit \in Nat /\ CallLimit \in Nat
    BY BridgeAssumption
  <1>2. CASE Call \/ HostStep
    <2>1. UNCHANGED <<main, blocked>>
      BY <1>2 DEF Call, HostStep, PinsReachAvr, clock
    <2>. QED
      BY <2>1 DEF BlockedInv
  <1>3. CASE AvrStep
    <2>1. blocked' = IF main' = main THEN blocked ELSE 0
      BY <1>3 DEF AvrStep
    <2>. QED
      BY <1>1, <2>1 DEF BlockedInv
  <1>4. CASE TimePasses
    <2>1. main' = main /\ blocked' = IF AvrBlocks THEN blocked + 1 ELSE blocked
      BY <1>4 DEF TimePasses
    <2>. QED
      BY <1>1, <2>1 DEF BlockedInv, AvrBlocks
  <1>. QED
    BY <1>2, <1>3, <1>4

LEMMA InStepStep ==
  ASSUME BridgeTypes, CardIsPrompt, InStepInv, blocked \in Nat,
         Call \/ HostStep \/ AvrStep \/ TimePasses
  PROVE  InStepInv' /\ blocked' \in Nat
PROOF
  <1>1. ~stalled' /\ hostInit \in BOOLEAN
    BY TypeFacts DEF InStepInv, Call, HostStep, AvrStep, TimePasses, clock, HostTypeOK
  <1>2. BlockedInv' /\ blocked' \in Nat
    BY BlockedKeeps DEF InStepInv
  <1>3. IF hostInit' THEN RunInv' ELSE StartInv'
    <2>1. CASE hostInit
      <3>1. RunInv /\ BlockedInv /\ ~stalled
        BY <2>1 DEF InStepInv
      <3>2. RunInv' /\ hostInit'
        BY <2>1, <3>1, HostStepKeepsRun, AvrStepKeepsRun, TimeKeepsRun
      <3>. QED
        BY <3>2
    <2>2. CASE ~hostInit
      <3>1. StartInv /\ BlockedInv /\ ~stalled
        BY <2>2 DEF InStepInv
      <3>2. CASE (Call \/ HostStep) /\ ~HostSettles
        BY <2>2, <3>1, <3>2, HostStepKeepsStart
      <3>3. CASE (Call \/ HostStep) /\ HostSettles
        <4>1. PinsReachAvr /\ UNCHANGED blocked
          BY <3>3 DEF Call, HostStep, clock
        <4>2. RunInv' /\ hostInit'
          BY <2>2, <3>1, <3>3, <4>1, SettlesIntoRun
        <4>. QED
          BY <4>2
      <3>4. CASE AvrStep
        BY <2>2, <3>1, <3>4, AvrStepKeepsStart
      <3>5. CASE TimePasses
        BY <2>2, <3>1, <3>5, TimeKeepsStart
      <3>. QED
        BY <3>2, <3>3, <3>4, <3>5
    <2>. QED
      BY <1>1, <2>1, <2>2
  <1>. QED
    BY <1>1, <1>2, <1>3 DEF InStepInv

LEMMA CardFaultsAreCardFails ==
  ASSUME CardFaultsOnly, BridgeFaults
  PROVE  CardFails
PROOF
  <1>1. "avrReset" \notin Faults /\ "hostReset" \notin Faults /\ "stall" \notin Faults
        /\ "missedEdge" \notin Faults
    BY DEF CardFaultsOnly
  <1>. QED
    BY <1>1 DEF BridgeFaults, AvrIsReset, HostIsReset, HostStalls, HostMissesEdge, Fault

LEMMA CardFailsKeepsStep ==
  ASSUME BridgeTypes, InStepInv, CardFails
  PROVE  InStepInv'
PROOF
  <1>1. PICK n \in 0 .. SectorBytes : StorageFails(n)
    BY DEF CardFails
  <1>2. UNCHANGED host /\ blocked' = 0 /\ stalled' = stalled
    BY DEF CardFails
  <1>3. main = "storage" /\ main' = "acknowledge"
    BY <1>1 DEF StorageFails
  <1>4. hostInit
    <2>1. StartInv => main # "storage"
      BY DEF BridgeTypes, IInv, MainInv, CallIsLegal, StartInv
    <2>. QED
      BY <1>3, <2>1 DEF InStepInv
  <1>5. RunInv' /\ hostInit'
    BY <1>1, <1>2, <1>4, CardFailsKeepsRun DEF InStepInv
  <1>. QED
    BY <1>2, <1>3, <1>5 DEF InStepInv, BlockedInv

LEMMA JointInit == BridgeInit => JointInv
PROOF
  <1>. SUFFICES ASSUME BridgeInit PROVE JointInv
    OBVIOUS
  <1>1. /\ BridgeTypes /\ faults = 0 /\ blocked = 0 /\ ~stalled /\ MountLimit \in Nat
        /\ hostInit = FALSE
    BY InitBridgeTypes, BridgeAssumption DEF BridgeInit, InitHost
  <1>2. StartInv
    BY <1>1
       DEF StartInv, Stray, Outstanding, BridgeInit, InitHost, InitFirmware, InitWires,
           InitialEngine
  <1>3. BlockedInv
    BY <1>1 DEF BlockedInv, BridgeInit, InitFirmware
  <1>. QED
    BY <1>1, <1>2, <1>3 DEF JointInv, InStepInv

LEMMA JointStep ==
  ASSUME CardIsPrompt
  PROVE  JointInv /\ [BridgeNext]_bridge => JointInv'
PROOF
  <1>. SUFFICES ASSUME JointInv, [BridgeNext]_bridge PROVE JointInv'
    OBVIOUS
  <1>1. BridgeTypes' /\ BridgeTypes /\ faults \in Nat /\ blocked \in Nat
    BY BridgeStep DEF JointInv
  <1>2. ASSUME Call \/ HostStep \/ AvrStep \/ TimePasses PROVE JointInv'
    <2>1. faults' = faults
      BY <1>2 DEF Call, HostStep, AvrStep, TimePasses, clock
    <2>2. blocked' \in Nat
      BY <1>1, <1>2 DEF Call, HostStep, AvrStep, TimePasses, clock
    <2>3. faults = 0 \/ CardFaultsOnly => InStepInv'
      BY <1>1, <1>2, InStepStep DEF JointInv
    <2>. QED
      BY <1>1, <2>1, <2>2, <2>3 DEF JointInv
  <1>3. ASSUME BridgeFaults PROVE JointInv'
    <2>1. faults' = faults + 1
      BY <1>3
         DEF BridgeFaults, AvrIsReset, HostIsReset, CardFails, HostStalls, HostMissesEdge,
             Fault
    <2>2. blocked' \in Nat
      BY <1>1, <1>3
         DEF BridgeFaults, AvrIsReset, HostIsReset, CardFails, HostStalls, HostMissesEdge
    <2>3. CardFaultsOnly => InStepInv'
      BY <1>1, <1>3, CardFaultsAreCardFails, CardFailsKeepsStep DEF JointInv
    <2>. QED
      BY <1>1, <2>1, <2>2, <2>3 DEF JointInv
  <1>4. ASSUME HostResumes PROVE JointInv'
    <2>1. faults' = faults /\ blocked' = blocked /\ stalled
      BY <1>4 DEF HostResumes
    <2>. QED
      BY <1>1, <2>1 DEF JointInv, InStepInv
  <1>5. ASSUME UNCHANGED bridge PROVE JointInv'
    <2>1. UNCHANGED <<host, avr, disk, wires, faults, blocked, stalled>>
      BY <1>5 DEF bridge, clock
    <2>2. UNCHANGED <<hostPc, phase, index, op, sum, byte, remoteHigh, sdBuffer, timer,
                      initialized, hostInit, configured, result, main, pinChange,
                      previousControl, events, eng, published, quiet, status,
                      strobes, ready, ackFlag, readyFlag, toAvr, toHost>>
      BY <2>1 DEF host, avr, wires
    <2>3. Unseen' = Unseen /\ Stray' = Stray /\ BlockedInv' = BlockedInv
      BY <2>1, <2>2 DEF Unseen, Stray, BlockedInv
    <2>4. /\ (\A line : Outstanding(line)' = Outstanding(line))
          /\ Acked' = Acked /\ Taken' = Taken /\ DuePhase' = DuePhase /\ DueIndex' = DueIndex
          /\ Talking' = Talking /\ Getting' = Getting
      BY <2>2, <2>3 DEF Outstanding, Acked, Taken, DuePhase, DueIndex, Talking, Putting, Getting
    <2>5. StartInv => StartInv'
      BY <2>1, <2>2, <2>3, <2>4 DEF StartInv
    <2>6. LinkInv => LinkInv'
      BY <2>1, <2>2, <2>3, <2>4 DEF LinkInv
    <2>7. DialogueInv => DialogueInv'
      BY <2>1, <2>2, <2>3, <2>4 DEF DialogueInv
    <2>8. TimeInv => TimeInv'
      BY <2>1, <2>2, <2>3, <2>4 DEF TimeInv
    <2>9. ResultIsExact => ResultIsExact'
      BY <2>2 DEF ResultIsExact
    <2>10. RunInv => RunInv'
      BY <2>6, <2>7, <2>8, <2>9 DEF RunInv
    <2>. QED
      BY <1>1, <2>1, <2>2, <2>3, <2>5, <2>10 DEF JointInv, InStepInv
  <1>. QED
    BY <1>2, <1>3, <1>4, <1>5 DEF BridgeNext

LEMMA JointInvHolds ==
  ASSUME CardIsPrompt
  PROVE  BridgeSpec => []JointInv
PROOF
  BY JointInit, JointStep, PTL DEF BridgeSpec

-----------------------------------------------------------------------------
(* What the handshake promises until a fault.                              *)

\* With a card that is prompt and until a fault, a call fails exactly when its
\* address is bad or no image is mounted.
THEOREM FaultFreeCallsAreExact ==
  ASSUME CardIsPrompt
  PROVE  BridgeSpec => []CallsAreExact
PROOF
  <1>1. JointInv => CallsAreExact
    <2>. SUFFICES ASSUME JointInv, faults = 0, hostPc = "idle", result # NoResult
                  PROVE  result = IF BadCallAddress(op) \/ status # Ok THEN FailCode ELSE Ok
      BY DEF CallsAreExact
    <2>1. ~hostInit => result = NoResult
      BY DEF JointInv, InStepInv, StartInv
    <2>2. RunInv
      BY <2>1 DEF JointInv, InStepInv
    <2>. QED
      BY <2>2 DEF RunInv, ResultIsExact
  <1>. QED
    BY <1>1, JointInvHolds, PTL

\* No acknowledgement is credited to a byte that the AVR has not taken.
THEOREM AcknowledgedBytesAreTaken ==
  ASSUME CardIsPrompt
  PROVE  BridgeSpec => AckedMeansTaken
PROOF
  <1>1. JointInv /\ [BridgeNext]_bridge
          => [faults = 0 /\ hostPc = "waitAck" /\ ackFlag /\ ~ackFlag' =>
                "receive" \notin events /\ main # "receive"]_bridge
    <2>. SUFFICES ASSUME JointInv, faults = 0, hostPc = "waitAck", ackFlag
                  PROVE  "receive" \notin events /\ main # "receive"
      OBVIOUS
    <2>1. RunInv
      BY DEF JointInv, InStepInv, StartInv
    <2>. QED
      BY <2>1 DEF RunInv, LinkInv, Outstanding
  <1>. QED
    BY <1>1, JointInvHolds, PTL DEF BridgeSpec, AckedMeansTaken

\* Once the transport has settled, the AVR never drops the link.
THEOREM LinkIsNeverDropped ==
  ASSUME CardIsPrompt
  PROVE  BridgeSpec => NoRecoveryInTransfer
PROOF
  <1>1. JointInv /\ [BridgeNext]_bridge
          => [faults' = 0 /\ hostPc \notin {"configure", "settle"} =>
                ~(PollRejectsEvents \/ PollRejectsRequest \/ PollTimesOut)]_bridge
    <2>. SUFFICES ASSUME JointInv, BridgeNext, faults' = 0,
                         hostPc \notin {"configure", "settle"}
                  PROVE  ~(PollRejectsEvents \/ PollRejectsRequest \/ PollTimesOut)
      OBVIOUS
    <2>1. BridgeTypes /\ faults \in Nat
      BY DEF JointInv
    <2>2. faults' = faults \/ faults' = faults + 1
      BY DEF BridgeNext, Call, HostStep, AvrStep, BridgeFaults, AvrIsReset, HostIsReset,
             CardFails, HostStalls, HostMissesEdge, Fault, HostResumes, TimePasses, clock
    <2>3. InStepInv
      BY <2>1, <2>2 DEF JointInv
    <2>4. CASE hostInit
      BY <2>1, <2>3, <2>4, NeverRejects DEF InStepInv
    <2>5. CASE ~hostInit
      <3>1. ~Stray /\ ~published /\ eng.state = "SyncA"
        BY <2>3, <2>5 DEF InStepInv, StartInv
      <3>. QED
        BY <3>1
           DEF Stray, PollRejectsEvents, Unexpected, PollRejectsRequest, TakesRequest,
               PollTimesOut, LinkExpired, Active
    <2>. QED
      BY <2>4, <2>5
  <1>. QED
    BY <1>1, JointInvHolds, PTL DEF BridgeSpec, NoRecoveryInTransfer

-----------------------------------------------------------------------------
(***************************************************************************)
(* While at most the card fails, the bridge is an SD volume.               *)
(***************************************************************************)

\* The write that is under way is unsettled, and has been made when its status
\* is on its way back.
WritesInv ==
  /\ result = Pending /\ op.kind = "write" /\ ~BadCallAddress(op) =>
       [offset |-> OffsetOf(op), data |-> op.data] \in unsettled
  /\ Talking /\ DuePhase = "writeStatus" /\ main # "storage" /\ status = Ok =>
       disk[OffsetOf(op)] = op.data

\* SdVolume's copies of the protocol's vocabulary.
LEMMA VolumeVocabulary ==
  /\ Volume!Ok = Ok /\ Volume!FailCode = FailCode /\ Volume!ChecksumCode = ChecksumCode
  /\ Volume!NoResult = NoResult /\ Volume!Pending = Pending
  /\ Volume!Buffers = Buffers /\ Volume!Calls = Calls
  /\ Volume!NoCall = NoCall /\ Volume!ZeroBuffer = ZeroBuffer
  /\ \A c : Volume!BadCallAddress(c) <=> BadCallAddress(c)
  /\ \A c : Volume!OffsetOf(c) = OffsetOf(c)
  /\ \A first, n, rest : Volume!Mixed(first, n, rest) = Mixed(first, n, rest)
PROOF
  <1>1. /\ Volume!Ok = Ok /\ Volume!FailCode = FailCode /\ Volume!ChecksumCode = ChecksumCode
        /\ Volume!NoResult = NoResult /\ Volume!Pending = Pending
    BY DEF Volume!Ok, Volume!FailCode, Volume!ChecksumCode, Volume!NoResult, Volume!Pending,
           Ok, FailCode, ChecksumCode, NoResult, Pending
  <1>2. /\ Volume!Buffers = Buffers /\ Volume!Calls = Calls
        /\ Volume!NoCall = NoCall /\ Volume!ZeroBuffer = ZeroBuffer
    BY DEF Volume!Buffers, Volume!Byte, Volume!Calls, Volume!Kinds, Volume!NoCall,
           Volume!ZeroBuffer, Buffers, Byte, Calls, Kinds, NoCall, ZeroBuffer
  <1>3. \A c : Volume!BadCallAddress(c) <=> BadCallAddress(c)
    BY DEF Volume!BadCallAddress, Volume!validAddress, BadCallAddress, validAddress
  <1>4. \A c : Volume!OffsetOf(c) = OffsetOf(c)
    BY DEF Volume!OffsetOf, Volume!fileOffset, OffsetOf, fileOffset
  <1>5. \A first, n, rest : Volume!Mixed(first, n, rest) = Mixed(first, n, rest)
    BY DEF Volume!Mixed, Mixed
  <1>. QED
    BY <1>1, <1>2, <1>3, <1>4, <1>5

\* A step that moves neither the card nor the call is no step of the volume.
LEMMA VolumeStutters ==
  ASSUME UNCHANGED <<disk, op, result, sdBuffer, unsettled>>
  PROVE  UNCHANGED Volume!volumeVars
PROOF
  BY Zenon DEF Volume!volumeVars

\* A call asks.
LEMMA CallIsVolumeStep ==
  ASSUME BridgeTypes, Call
  PROVE  Volume!Asks
         /\ (result' = Pending /\ op'.kind = "write" /\ ~BadCallAddress(op') =>
               [offset |-> OffsetOf(op'), data |-> op'.data] \in unsettled')
PROOF
  <1>1. PICK c \in Calls : HostCalls(c) /\ RememberWrite(c)
    BY BridgeAssumption DEF Call
  <1>2. op' = c /\ hostPc = "idle" /\ UNCHANGED <<disk, sdBuffer>>
    BY <1>1 DEF Call, PinsReachAvr, HostCalls
  <1>3. result # Pending
    BY <1>2, TypeFacts
  <1>4. \/ result' = FailCode /\ BadCallAddress(c)
        \/ result' = Pending
    BY <1>1, HostCallsGoes
  <1>. DEFINE w == [offset |-> OffsetOf(c), data |-> c.data]
  <1>5. /\ c.kind = "write" /\ ~BadCallAddress(c) => unsettled' = unsettled \cup {w}
        /\ ~(c.kind = "write" /\ ~BadCallAddress(c)) => unsettled' = unsettled
    BY <1>1 DEF RememberWrite, OffsetOf
  <1>6. Volume!Attempted(c) = IF c.kind = "write" /\ ~BadCallAddress(c) THEN {w} ELSE {}
    BY VolumeVocabulary, Zenon DEF Volume!Attempted
  <1>. HIDE DEF w
  <1>7. unsettled' = unsettled \cup Volume!Attempted(c)
    BY <1>5, <1>6
  <1>8. Volume!Asks
    BY <1>2, <1>3, <1>4, <1>7, VolumeVocabulary, Zenon DEF Volume!Asks
  <1>9. c.kind = "write" /\ ~BadCallAddress(c) => w \in unsettled'
    BY <1>5
  <1>. QED
    BY <1>2, <1>8, <1>9 DEF w

\* A byte of the reply fills the buffer, moves the script on, or ends the call.
LEMMA ConsumedIsVolumeStep ==
  ASSUME BridgeTypes, hostInit, RunInv, WritesInv, HostConsumes, SettleWrites,
         PinsReachAvr, HostInv'
  PROVE  /\ \/ Volume!Fills \/ Volume!Succeeds \/ Volume!Fails
            \/ UNCHANGED Volume!volumeVars
         /\ WritesInv'
PROOF
  <1>1. /\ hostPc = "consuming" /\ UNCHANGED <<op, ackFlag, main, status, disk>>
        /\ eng \in Engines /\ disk \in Images
        /\ unsettled' = IF result' = Ok THEN {} ELSE unsettled
    BY TypeFacts DEF HostConsumes, PinsReachAvr, SettleWrites
  <1>2. /\ op \in Calls /\ ~BadCallAddress(op) /\ result = Pending /\ Talking
        /\ ~Taken /\ DuePhase = phase /\ main # "storage"
        /\ Answers(op, phase, index, sdBuffer, remoteHigh, Acked, status, disk)
    BY <1>1, GettingFacts, TypeFacts DEF Getting, RunInv
  <1>3. Acked = eng /\ byte = ResponseByte(eng)
    BY <1>1 DEF RunInv, LinkInv, Acked
  <1>4. \/ /\ result' = result
           /\ phase' # "writeStatus"
           /\ sdBuffer' # sdBuffer => op.kind = "read"
        \/ /\ hostPc' = "idle"
           /\ result' = IF status = Ok THEN Ok ELSE FailCode
           /\ sdBuffer' = sdBuffer
           /\ op.kind = "write" /\ status = Ok => phase = "writeStatus"
           /\ op.kind = "read" /\ status = Ok => sdBuffer = disk[OffsetOf(op)]
    BY <1>1, <1>2, <1>3, ReplyByteUsed DEF BridgeTypes
  <1>5. Ok # Pending /\ FailCode # Pending /\ FailCode # Ok
    BY Codes
  <1>6. WritesInv'
    <2>1. DuePhase' = phase'
      BY <1>1, <1>2 DEF Taken, DuePhase
    <2>. QED
      BY <1>1, <1>2, <1>4, <1>5, <2>1 DEF WritesInv, Talking, Putting, Getting
  <1>7. CASE result' = result
    <2>1. UNCHANGED <<disk, op, unsettled>>
      BY <1>1, <1>2, <1>5, <1>7
    <2>2. CASE sdBuffer' = sdBuffer
      BY <1>6, <1>7, <2>1, <2>2, VolumeStutters
    <2>3. CASE sdBuffer' # sdBuffer
      <3>1. op.kind = "read" /\ sdBuffer' \in Buffers
        BY <1>2, <1>4, <1>5, <1>7, <2>3 DEF HostInv, HostTypeOK
      <3>2. Volume!Fills
        BY <1>2, <1>7, <2>1, <3>1, VolumeVocabulary, Zenon DEF Volume!Fills
      <3>. QED
        BY <1>6, <3>2
    <2>. QED
      BY <2>2, <2>3
  <1>8. CASE result' # result
    <2>1. /\ result' = IF status = Ok THEN Ok ELSE FailCode
          /\ sdBuffer' = sdBuffer
          /\ op.kind = "write" /\ status = Ok => phase = "writeStatus"
          /\ op.kind = "read" /\ status = Ok => sdBuffer = disk[OffsetOf(op)]
      BY <1>4, <1>8
    <2>2. CASE status = Ok
      <3>1. op.kind = "write" => disk[OffsetOf(op)] = op.data
        BY <1>2, <2>1, <2>2 DEF WritesInv
      <3>2. sdBuffer' = IF op.kind = "read" THEN disk[OffsetOf(op)] ELSE sdBuffer
        BY <2>1, <2>2
      <3>3. result' = Ok /\ unsettled' = {}
        BY <1>1, <2>1, <2>2
      <3>4. Volume!Succeeds
        BY <1>1, <1>2, <3>1, <3>2, <3>3, VolumeVocabulary, Zenon DEF Volume!Succeeds
      <3>. QED
        BY <1>6, <3>4
    <2>3. CASE status # Ok
      <3>1. result' = FailCode /\ unsettled' = unsettled
        BY <1>1, <1>5, <2>1, <2>3
      <3>2. result' \in IF op.kind = "read" THEN {FailCode, ChecksumCode} ELSE {FailCode}
        BY <3>1
      <3>3. unsettled' \in SUBSET unsettled
        BY <3>1
      <3>4. Volume!Fails
        BY <1>1, <1>2, <2>1, <3>2, <3>3, VolumeVocabulary, Zenon DEF Volume!Fails
      <3>. QED
        BY <1>6, <3>4
    <2>. QED
      BY <2>2, <2>3
  <1>. QED
    BY <1>7, <1>8

\* The other steps of a host that has settled.
LEMMA HostIsVolumeStep ==
  ASSUME BridgeTypes, CardIsPrompt, hostInit, RunInv, WritesInv, HostStep, HostInv'
  PROVE  /\ \/ Volume!Fills \/ Volume!Succeeds \/ Volume!Fails
            \/ UNCHANGED Volume!volumeVars
         /\ WritesInv'
PROOF
  <1>1. PinsReachAvr /\ SettleWrites
    BY DEF HostStep
  <1>2. /\ hostPc \notin {"configure", "settle"} /\ ~HostTimesOut
    BY NeverTimesOut DEF RunInv, LinkInv
  <1>3. CASE HostConsumes
    BY <1>1, <1>3, ConsumedIsVolumeStep
  <1>4. CASE HostStrobes \/ HostReleases \/ HostAcked \/ HostGets
    <2>1. /\ UNCHANGED <<op, sdBuffer, main, status, disk>>
          /\ hostPc \in {"put", "strobing", "waitAck", "waitReady"}
      BY <1>1, <1>4 DEF PinsReachAvr, HostStrobes, HostReleases, HostAcked, HostGets
    <2>2. result = Pending /\ Talking
      BY <2>1, TypeFacts DEF Talking, Putting, Getting
    <2>3. result' = result /\ DuePhase' = DuePhase
      <3>1. CASE HostStrobes \/ HostReleases \/ HostGets
        <4>1. UNCHANGED <<op, phase, index, ackFlag, main, result>>
          BY <2>1, <3>1 DEF HostStrobes, HostReleases, HostGets
        <4>2. Taken' <=> Taken
          BY <4>1 DEF Taken
        <4>3. DuePhase' = DuePhase
          BY <4>1, <4>2, Zenon DEF DuePhase
        <4>. QED
          BY <4>1, <4>3
      <3>2. CASE HostAcked
        <4>. DEFINE n == PutNext(op, phase, index)
        <4>1. hostPc = "waitAck" /\ ackFlag /\ ~ackFlag' /\ AfterPut
          BY <3>2 DEF HostAcked, AckSeen
        <4>2. /\ op.kind \in Kinds /\ Fits(op, phase) /\ phase \in PutPhases
              /\ index \in 0 .. LastIndex(phase) /\ HostTypeOK
          BY <4>1, PuttingFacts, TypeFacts DEF Putting, RunInv
        <4>3. Goto(n.phase, n.index)
          BY <4>1, <4>2, AfterPutGoes
        <4>4. main \notin {"storage", "acknowledge"}
          BY <4>1 DEF RunInv, LinkInv
        <4>5. DuePhase = n.phase
          BY <4>1 DEF DuePhase, Taken
        <4>. HIDE DEF n
        <4>6. phase' = n.phase /\ result' = result
          BY <4>3 DEF Goto
        <4>7. DuePhase' = phase'
          BY <2>1, <4>1, <4>4 DEF DuePhase, Taken
        <4>. QED
          BY <4>5, <4>6, <4>7
      <3>. QED
        BY <1>4, <3>1, <3>2
    <2>4. unsettled' = unsettled
      BY <1>1, <2>2, <2>3, Codes DEF SettleWrites
    <2>5. UNCHANGED Volume!volumeVars
      BY <2>1, <2>3, <2>4, VolumeStutters
    <2>6. WritesInv'
      BY <2>1, <2>2, <2>3, <2>4 DEF WritesInv
    <2>. QED
      BY <2>5, <2>6
  <1>. QED
    BY <1>2, <1>3, <1>4
       DEF HostStep, HostConfigures, HostEndsStartupStrobe, HostSettles

\* A write lands, whole or in part, while the AVR is in its storage call.
LEMMA StorageIsVolumeStep ==
  ASSUME BridgeTypes, hostInit, RunInv, WritesInv, UNCHANGED <<host, unsettled>>,
         StorageSteps \/ \E n \in 0 .. SectorBytes : StorageFails(n)
  PROVE  /\ \/ \E w \in unsettled, n \in 0 .. SectorBytes : Volume!Lands(w, n)
            \/ UNCHANGED Volume!volumeVars
         /\ WritesInv'
PROOF
  <1>. DEFINE w == [offset |-> OffsetOf(op), data |-> op.data]
  <1>1. main = "storage" /\ UNCHANGED <<op, result, sdBuffer, unsettled, phase, index, hostPc>>
    BY DEF StorageSteps, StorageReads, StorageWrites, StorageSyncs, StorageFails, host
  <1>2. /\ hostPc = "waitAck" /\ Talking /\ result = Pending /\ op \in Calls
        /\ disk \in Images /\ eng \in Engines
        /\ ~BadCallAddress(op) /\ Fits(op, phase) /\ phase \in PutPhases
        /\ op.kind \in Kinds /\ index \in 0 .. LastIndex(phase)
    <2>1. hostPc = "waitAck"
      BY <1>1 DEF RunInv, LinkInv
    <2>. QED
      BY <2>1, PuttingFacts, TypeFacts DEF Putting, RunInv
  <1>3. /\ EngineOffset = OffsetOf(op)
        /\ \/ DuePhase = "readStatus" /\ StorageCall(eng) = "read"
           \/ DuePhase = "writeStatus" /\ StorageCall(eng) = "write" /\ eng.buffer = op.data
    BY <1>1 DEF RunInv, DialogueInv, EngineOffset, OffsetOf
  <1>4. Taken /\ Taken' /\ DuePhase' = DuePhase
    BY <1>1 DEF StorageSteps, StorageReads, StorageWrites, StorageSyncs, StorageFails, Taken,
                DuePhase
  <1>5. CASE DuePhase = "readStatus"
    <2>1. disk' = disk
      BY <1>1, <1>3, <1>5
         DEF StorageSteps, StorageReads, StorageWrites, StorageSyncs, StorageFails, TearsWrite
    <2>2. UNCHANGED Volume!volumeVars
      BY <1>1, <2>1, VolumeStutters
    <2>. QED
      BY <1>1, <1>4, <1>5, <2>2 DEF WritesInv
  <1>6. CASE DuePhase = "writeStatus"
    <2>1. op.kind = "write"
      <3>1. DuePhase = PutNext(op, phase, index).phase
        BY <1>4 DEF DuePhase
      <3>2. Fits(op, DuePhase)
        BY <1>2, <3>1, PutNextFits
      <3>. QED
        BY <1>6, <3>2 DEF Fits, WritePhases
    <2>2. w \in unsettled
      BY <1>2, <2>1 DEF WritesInv
    <2>3. OffsetOf(op) \in Offsets /\ op.data \in Buffers
      BY <1>2, <2>1, CallInImage DEF Calls
    <2>4. Mixed(op.data, SectorBytes, disk[OffsetOf(op)]) = op.data
      BY <2>3, GeometryAssumption DEF Mixed, Buffers
    <2>5. \E k \in 0 .. SectorBytes :
            disk' = [disk EXCEPT ![OffsetOf(op)] = Mixed(op.data, k, @)]
      <3>1. CASE StorageSteps
        <4>1. disk' = [disk EXCEPT ![OffsetOf(op)] = op.data]
          BY <1>3, <1>6, <3>1 DEF StorageSteps, StorageReads, StorageWrites, StorageSyncs
        <4>2. SectorBytes \in 0 .. SectorBytes
          BY GeometryAssumption
        <4>. QED
          BY <2>4, <4>1, <4>2
      <3>2. CASE \E n \in 0 .. SectorBytes : StorageFails(n)
        <4>1. PICK n \in 0 .. SectorBytes : StorageFails(n)
          BY <3>2
        <4>2. disk' = [disk EXCEPT ![EngineOffset] = Mixed(eng.buffer, n, @)]
          BY <1>1, <1>3, <1>6, <4>1 DEF StorageFails, TearsWrite
        <4>. QED
          BY <1>3, <1>6, <4>2
      <3>. QED
        BY <3>1, <3>2
    <2>6. PICK k \in 0 .. SectorBytes :
            disk' = [disk EXCEPT ![OffsetOf(op)] = Mixed(op.data, k, @)]
      BY <2>5
    <2>7. Volume!Lands(w, k)
      <3>1. w.offset = OffsetOf(op) /\ w.data = op.data
        OBVIOUS
      <3>. HIDE DEF w
      <3>2. disk' = [disk EXCEPT ![w.offset] = Mixed(w.data, k, @)]
        BY <2>6, <3>1
      <3>. QED
        BY <1>1, <2>2, <3>2, VolumeVocabulary, Zenon DEF Volume!Lands
    <2>8. status' = Ok => disk'[OffsetOf(op)] = op.data
      <3>1. CASE StorageSteps
        <4>1. disk' = [disk EXCEPT ![OffsetOf(op)] = op.data]
          BY <1>3, <1>6, <3>1 DEF StorageSteps, StorageReads, StorageWrites, StorageSyncs
        <4>. QED
          BY <1>2, <2>3, <4>1 DEF Images
      <3>2. CASE \E n \in 0 .. SectorBytes : StorageFails(n)
        BY <3>2 DEF StorageFails, IoError, Ok
      <3>. QED
        BY <3>1, <3>2
    <2>9. WritesInv'
      BY <1>1, <2>2, <2>8 DEF WritesInv
    <2>. QED
      BY <2>2, <2>7, <2>9
  <1>. QED
    BY <1>3, <1>5, <1>6


\* The AVR moves on, and neither the card nor what has been taken changes.
LEMMA QuietAvrIsVolumeStep ==
  ASSUME WritesInv, UNCHANGED <<host, unsettled, disk, status>>, main # "storage",
         Taken' <=> Taken
  PROVE  UNCHANGED Volume!volumeVars /\ WritesInv'
PROOF
  <1>1. UNCHANGED <<op, result, sdBuffer, phase, index, hostPc>>
    BY DEF host
  <1>2. DuePhase' = DuePhase
    BY <1>1, Zenon DEF DuePhase
  <1>3. Talking' = Talking
    BY <1>1 DEF Talking, Putting, Getting
  <1>4. UNCHANGED Volume!volumeVars
    BY <1>1, VolumeStutters
  <1>. QED
    BY <1>1, <1>2, <1>3, <1>4 DEF WritesInv

\* The AVR's steps, of which only the storage call moves the card.
LEMMA AvrIsVolumeStep ==
  ASSUME BridgeTypes, CardIsPrompt, hostInit, RunInv, WritesInv, AvrStep
  PROVE  /\ \/ \E w \in unsettled, n \in 0 .. SectorBytes : Volume!Lands(w, n)
            \/ UNCHANGED Volume!volumeVars
         /\ WritesInv'
PROOF
  <1>1. /\ UNCHANGED <<host, history, unsettled>>
        /\ UNCHANGED <<op, result, sdBuffer, phase, index, hostPc>>
    BY DEF AvrStep, host, history
  <1>2. CASE StorageSteps
    BY <1>1, <1>2, StorageIsVolumeStep
  <1>3. CASE PinChangeInterrupt \/ PollHasNothingToPublish \/ PollPublishes \/ PollConsumes
    <2>1. /\ main # "storage" \/ (main' = main /\ PinChangeInterrupt)
          /\ UNCHANGED <<disk, status, ackFlag>>
          /\ \/ main' = main
             \/ main \in {"publish", "poll"} /\ main' \in {"poll", "receive", "publish"}
      BY <1>3
         DEF PinChangeInterrupt, PollHasNothingToPublish, PollPublishes, PollConsumes,
             AfterConsume, wires
    <2>2. Taken' <=> Taken
      BY <2>1 DEF Taken
    <2>3. UNCHANGED Volume!volumeVars
      BY <1>1, <2>1, VolumeStutters
    <2>4. CASE main # "storage"
      BY <1>1, <2>1, <2>2, <2>4, QuietAvrIsVolumeStep
    <2>5. CASE main = "storage"
      <3>1. main' = main
        BY <2>1, <2>5
      <3>. QED
        BY <1>1, <2>1, <2>3, <2>5, <3>1 DEF WritesInv
    <2>. QED
      BY <2>4, <2>5
  <1>4. CASE PollAcknowledges
    <2>1. /\ main = "acknowledge" /\ main' = "publish" /\ ackFlag' = TRUE
          /\ UNCHANGED <<disk, status>>
      BY <1>4 DEF PollAcknowledges
    <2>2. Taken' <=> Taken
      BY <2>1 DEF Taken
    <2>. QED
      BY <1>1, <2>1, <2>2, QuietAvrIsVolumeStep
  <1>5. CASE \E outcome \in MountOutcomes : Mount(outcome)
    <2>1. main = "mount" /\ main' = "poll" /\ UNCHANGED <<disk, ackFlag>>
      BY <1>5 DEF Mount
    <2>2. ~ackFlag /\ (Talking => phase = "info")
      BY <2>1 DEF RunInv, TimeInv
    <2>3. ~Taken' /\ DuePhase' = phase
      BY <1>1, <2>1, <2>2 DEF Taken, DuePhase
    <2>4. Talking' = Talking
      BY <1>1 DEF Talking, Putting, Getting
    <2>5. UNCHANGED Volume!volumeVars
      BY <1>1, <2>1, VolumeStutters
    <2>. QED
      BY <1>1, <2>1, <2>2, <2>3, <2>4, <2>5 DEF WritesInv
  <1>6. CASE PollReceives
    <2>. DEFINE n == PutNext(op, phase, index)
                asks == CallsStorage(eng, toAvr, status)
    <2>1. /\ TakesRequest /\ UNCHANGED <<disk, status>>
          /\ main' = IF asks THEN "storage" ELSE "acknowledge"
      BY <1>6 DEF PollReceives
    <2>2. ~asks => n.phase # "writeStatus"
      BY <2>1, ArrivingTaken
    <2>3. DuePhase' = n.phase
      BY <1>1, <2>1 DEF DuePhase, Taken
    <2>4. UNCHANGED Volume!volumeVars
      BY <1>1, <2>1, VolumeStutters
    <2>. HIDE DEF n, asks
    <2>. QED
      BY <1>1, <2>1, <2>2, <2>3, <2>4 DEF WritesInv
  <1>7. ~PollRejectsEvents /\ ~PollRejectsRequest /\ ~PollTimesOut
    BY NeverRejects
  <1>8. ~BoardInit
    BY DEF BoardInit, RunInv, LinkInv
  <1>. QED
    BY <1>2, <1>3, <1>4, <1>5, <1>6, <1>7, <1>8 DEF AvrStep, PollSteps


\* Before the transport has settled nothing is written, and a call waits or
\* fails for its address.
LEMMA StartIsVolumeStep ==
  ASSUME BridgeTypes, ~hostInit, StartInv, WritesInv, HostStep \/ AvrStep
  PROVE  /\ Volume!Fails \/ UNCHANGED Volume!volumeVars
         /\ WritesInv'
PROOF
  <1>1. /\ hostPc \in {"configure", "settle"} \/ hostPc = "idle"
        /\ hostPc = "idle" <=> result # Pending
        /\ main # "storage" /\ ~Talking
    BY TypeFacts DEF StartInv, BridgeTypes, IInv, MainInv, CallIsLegal, Talking, Putting, Getting
  <1>2. CASE AvrStep
    <2>1. UNCHANGED <<op, result, sdBuffer, phase, index, hostPc, unsettled>>
      BY <1>2 DEF AvrStep, host, history
    <2>2. disk' = disk
      BY <1>1, <1>2
         DEF AvrStep, PollSteps, PinChangeInterrupt, BoardInit, Mount, PollRejectsEvents,
             PollConsumes, PollRejectsRequest, PollReceives, PollAcknowledges, PollPublishes,
             PollHasNothingToPublish, PollTimesOut, StorageSteps, StorageReads,
             StorageWrites, StorageSyncs
    <2>3. ~Talking'
      BY <1>1, <2>1 DEF Talking, Putting, Getting
    <2>. QED
      BY <2>1, <2>2, <2>3, VolumeStutters DEF WritesInv
  <1>3. CASE HostStep /\ ~HostSettles
    <2>1. /\ UNCHANGED <<op, result, sdBuffer, disk>>
          /\ hostPc # "idle" /\ hostPc' \in {"configure", "settle"}
      BY <1>1, <1>3
         DEF HostStep, PinsReachAvr, HostConfigures, HostEndsStartupStrobe, HostStrobes,
             HostReleases, HostAcked, HostGets, HostConsumes, HostTimesOut, WaitExpired, host
    <2>2. unsettled' = unsettled
      BY <1>1, <1>3, <2>1, Codes DEF HostStep, SettleWrites
    <2>3. ~Talking'
      BY <2>1 DEF Talking, Putting, Getting
    <2>. QED
      BY <2>1, <2>2, <2>3, VolumeStutters DEF WritesInv
  <1>4. CASE HostStep /\ HostSettles
    <2>1. /\ UNCHANGED <<op, sdBuffer, disk, main, status>> /\ hostPc = "settle"
          /\ ~ackFlag' /\ unsettled' = IF result' = Ok THEN {} ELSE unsettled
      BY <1>4 DEF HostStep, SettleWrites, PinsReachAvr, HostSettles, ClearsFlags
    <2>2. result = Pending
      BY <1>1, <2>1
    <2>3. CASE BadCallAddress(op)
      <3>1. hostPc' = "idle" /\ result' = FailCode
        BY <1>4, <2>3 DEF HostSettles, Return
      <3>2. unsettled' = unsettled /\ FailCode # Pending
        BY <2>1, <3>1, Codes
      <3>3. result' \in IF op.kind = "read" THEN {FailCode, ChecksumCode} ELSE {FailCode}
        BY <3>1
      <3>4. unsettled' \in SUBSET unsettled
        BY <3>2
      <3>5. Volume!Fails
        BY <2>1, <2>2, <3>3, <3>4, VolumeVocabulary, Zenon DEF Volume!Fails
      <3>6. ~Talking'
        BY <3>1 DEF Talking, Putting, Getting
      <3>. QED
        BY <3>1, <3>2, <3>5, <3>6 DEF WritesInv
    <2>4. CASE ~BadCallAddress(op)
      <3>1. phase' = "info" /\ result' = result
        BY <1>4, <2>4 DEF HostSettles, Goto
      <3>2. unsettled' = unsettled
        BY <2>1, <2>2, <3>1, Codes
      <3>3. index' = 0
        BY <1>4, <2>4 DEF HostSettles, Goto
      <3>4. DuePhase' = "info"
        <4>1. PutNext(op', "info", 0).phase = "info"
          BY DEF PutNext, HeaderPhases
        <4>. QED
          BY <3>1, <3>3, <4>1 DEF DuePhase
      <3>5. UNCHANGED Volume!volumeVars
        BY <2>1, <3>1, <3>2, VolumeStutters
      <3>. QED
        BY <1>1, <2>1, <2>2, <3>1, <3>2, <3>4, <3>5 DEF WritesInv
    <2>. QED
      BY <2>3, <2>4
  <1>. QED
    BY <1>2, <1>3, <1>4


\* A call begins.
LEMMA CallKeepsWrites ==
  ASSUME BridgeTypes, WritesInv, Call
  PROVE  WritesInv'
PROOF
  <1>1. PICK c \in Calls : HostCalls(c)
    BY BridgeAssumption DEF Call
  <1>2. result' = Pending /\ op'.kind = "write" /\ ~BadCallAddress(op') =>
          [offset |-> OffsetOf(op'), data |-> op'.data] \in unsettled'
    BY CallIsVolumeStep
  <1>3. Talking' => DuePhase' = "info"
    <2>1. hostPc = "idle"
      BY <1>1 DEF HostCalls
    <2>2. /\ hostPc' \in {"idle", "configure", "put"}
          /\ hostPc' = "put" => phase' = "info" /\ index' = 0
      BY <1>1, <2>1, HostCallsGoes
    <2>3. PutNext(op', "info", 0).phase = "info"
      BY DEF PutNext, HeaderPhases
    <2>. QED
      BY <2>1, <2>2, <2>3 DEF DuePhase, Talking, Putting, Getting
  <1>. QED
    BY <1>2, <1>3 DEF WritesInv

LEMMA VolumeInitially == BridgeInit => Volume!VolumeInit /\ WritesInv
PROOF
  <1>. SUFFICES ASSUME BridgeInit PROVE Volume!VolumeInit /\ WritesInv
    OBVIOUS
  <1>1. /\ disk = InitialImage /\ op = NoCall /\ result = NoResult /\ sdBuffer = ZeroBuffer
        /\ unsettled = {} /\ hostPc = "idle"
    BY DEF BridgeInit, InitHost, InitFirmware
  <1>2. Volume!VolumeInit
    BY <1>1, VolumeVocabulary, Zenon DEF Volume!VolumeInit
  <1>3. WritesInv
    BY <1>1, Codes DEF WritesInv, Talking, Putting, Getting
  <1>. QED
    BY <1>2, <1>3

\* Every step of the bridge is one of the volume, or none.
LEMMA BridgeStepIsVolumeStep ==
  ASSUME CardIsPrompt, CardFaultsOnly
  PROVE  JointInv /\ WritesInv /\ [BridgeNext]_bridge
           => WritesInv' /\ [Volume!VolumeNext]_(Volume!volumeVars)
PROOF
  <1>. SUFFICES ASSUME JointInv, WritesInv, [BridgeNext]_bridge
                PROVE  WritesInv' /\ [Volume!VolumeNext]_(Volume!volumeVars)
    OBVIOUS
  <1>1. /\ BridgeTypes /\ BridgeTypes' /\ HostInv' /\ InStepInv
        /\ hostInit => RunInv
        /\ ~hostInit => StartInv
    BY BridgeStep DEF JointInv, BridgeTypes, InStepInv
  <1>2. ASSUME Call PROVE WritesInv' /\ Volume!VolumeNext
    BY <1>1, <1>2, CallIsVolumeStep, CallKeepsWrites DEF Volume!VolumeNext
  <1>3. ASSUME HostStep
        PROVE  WritesInv' /\ (Volume!VolumeNext \/ UNCHANGED Volume!volumeVars)
    <2>1. CASE hostInit
      <3>1. /\ \/ Volume!Fills \/ Volume!Succeeds \/ Volume!Fails
               \/ UNCHANGED Volume!volumeVars
            /\ WritesInv'
        BY <1>1, <1>3, <2>1, HostIsVolumeStep
      <3>. QED
        BY <3>1, Zenon DEF Volume!VolumeNext
    <2>2. CASE ~hostInit
      <3>1. (Volume!Fails \/ UNCHANGED Volume!volumeVars) /\ WritesInv'
        BY <1>1, <1>3, <2>2, StartIsVolumeStep
      <3>. QED
        BY <3>1, Zenon DEF Volume!VolumeNext
    <2>. QED
      BY <2>1, <2>2
  <1>4. ASSUME AvrStep
        PROVE  WritesInv' /\ (Volume!VolumeNext \/ UNCHANGED Volume!volumeVars)
    <2>1. CASE hostInit
      <3>1. /\ \/ \E w \in unsettled, n \in 0 .. SectorBytes : Volume!Lands(w, n)
               \/ UNCHANGED Volume!volumeVars
            /\ WritesInv'
        BY <1>1, <1>4, <2>1, AvrIsVolumeStep
      <3>. QED
        BY <3>1, Zenon DEF Volume!VolumeNext
    <2>2. CASE ~hostInit
      <3>1. (Volume!Fails \/ UNCHANGED Volume!volumeVars) /\ WritesInv'
        BY <1>1, <1>4, <2>2, StartIsVolumeStep
      <3>. QED
        BY <3>1, Zenon DEF Volume!VolumeNext
    <2>. QED
      BY <2>1, <2>2
  <1>5. ASSUME BridgeFaults
        PROVE  WritesInv' /\ (Volume!VolumeNext \/ UNCHANGED Volume!volumeVars)
    <2>1. /\ UNCHANGED <<host, unsettled>>
          /\ \E n \in 0 .. SectorBytes : StorageFails(n)
      BY <1>5, CardFaultsAreCardFails DEF CardFails
    <2>2. main = "storage"
      BY <2>1 DEF StorageFails
    <2>3. hostInit
      BY <1>1, <2>2 DEF BridgeTypes, IInv, MainInv, CallIsLegal, StartInv
    <2>4. /\ \/ \E w \in unsettled, n \in 0 .. SectorBytes : Volume!Lands(w, n)
             \/ UNCHANGED Volume!volumeVars
          /\ WritesInv'
      BY <1>1, <2>1, <2>3, StorageIsVolumeStep
    <2>. QED
      BY <2>4, Zenon DEF Volume!VolumeNext
  <1>6. ASSUME HostResumes \/ TimePasses \/ UNCHANGED bridge
        PROVE  WritesInv' /\ UNCHANGED Volume!volumeVars
    <2>1. UNCHANGED <<op, result, sdBuffer, phase, index, hostPc, unsettled, disk, status,
                      main, ackFlag>>
      BY <1>6 DEF HostResumes, TimePasses, bridge, host, avr, wires, history
    <2>2. Talking' = Talking /\ DuePhase' = DuePhase
      BY <2>1 DEF Talking, Putting, Getting, DuePhase, Taken
    <2>3. UNCHANGED Volume!volumeVars
      BY <2>1, VolumeStutters
    <2>. QED
      BY <2>1, <2>2, <2>3 DEF WritesInv
  <1>. QED
    BY <1>2, <1>3, <1>4, <1>5, <1>6 DEF BridgeNext

\* While at most the card fails, the bridge is an SD volume: a call that
\* succeeds has done what it was asked, and a sector changes only to all or the
\* first bytes of a WRITE that was meant for it.
THEOREM BridgeIsAVolume ==
  ASSUME CardIsPrompt, CardFaultsOnly
  PROVE  BridgeSpec => ImplementsVolume
PROOF
  <1>1. JointInv /\ WritesInv /\ [BridgeNext]_bridge
          => WritesInv' /\ [Volume!VolumeNext]_(Volume!volumeVars)
    BY BridgeStepIsVolumeStep
  <1>. QED
    BY <1>1, VolumeInitially, JointInvHolds, PTL
       DEF BridgeSpec, ImplementsVolume, Volume!VolumeSpec

\* And once the card has failed no call succeeds: the engine answers with
\* IoError until the AVR is reset.
THEOREM FaultedCardNeverSucceeds ==
  ASSUME CardIsPrompt, CardFaultsOnly
  PROVE  BridgeSpec => FaultedStorageNeverSucceeds
PROOF
  <1>1. JointInv /\ [BridgeNext]_bridge
          => [status = IoError /\ result = Pending => result' # Ok]_bridge
    <2>. SUFFICES ASSUME JointInv, BridgeNext, status = IoError, result = Pending
                  PROVE  result' # Ok
      BY Codes DEF bridge, host
    <2>1. /\ BridgeTypes /\ hostPc # "idle" /\ Ok # Pending /\ FailCode # Ok
          /\ status # Ok
          /\ hostInit => RunInv
          /\ ~hostInit => StartInv
      BY TypeFacts, Codes DEF JointInv, InStepInv, IoError
    <2>2. ~Call
      BY <2>1 DEF Call, HostCalls
    <2>3. ASSUME AvrStep \/ BridgeFaults \/ HostResumes \/ TimePasses
          PROVE  result' = result
      BY <2>3, CardFaultsAreCardFails DEF AvrStep, CardFails, HostResumes, TimePasses, host
    <2>4. ASSUME HostStep, ~HostConsumes PROVE result' \in {result, FailCode}
      <3>1. CASE HostAcked
        <4>1. hostPc = "waitAck" /\ AfterPut
          BY <3>1 DEF HostAcked
        <4>2. /\ Fits(op, phase) /\ phase \in PutPhases /\ index \in 0 .. LastIndex(phase)
              /\ HostTypeOK
          BY <2>1, <4>1, PuttingFacts, TypeFacts DEF Putting, StartInv, RunInv
        <4>3. \E p, i : Goto(p, i)
          BY <4>1, <4>2, AfterPutGoes
        <4>. QED
          BY <4>3 DEF Goto
      <3>2. CASE ~HostAcked
        BY <2>4, <3>2
           DEF HostStep, HostConfigures, HostEndsStartupStrobe, HostSettles, HostStrobes,
               HostReleases, HostGets, HostTimesOut, Timeout, Return, Goto, host
      <3>. QED
        BY <3>1, <3>2
    <2>5. ASSUME HostConsumes PROVE result' # Ok
      <3>1. Getting /\ hostPc = "consuming"
        BY <2>5 DEF HostConsumes, Getting
      <3>2. hostInit
        BY <2>1, <3>1 DEF StartInv
      <3>3. /\ Answers(op, phase, index, sdBuffer, remoteHigh, Acked, status, disk)
            /\ ~BadCallAddress(op)
        BY <2>1, <3>1, <3>2, GettingFacts DEF RunInv
      <3>4. Acked = eng /\ byte = ResponseByte(eng)
        BY <2>1, <3>1, <3>2 DEF RunInv, LinkInv, Acked
      <3>5. result' = result \/ result' = IF status = Ok THEN Ok ELSE FailCode
        BY <2>1, <2>5, <3>3, <3>4, TypeFacts, ReplyByteUsed DEF BridgeTypes
      <3>. QED
        BY <2>1, <3>5
    <2>. QED
      BY <2>1, <2>2, <2>3, <2>4, <2>5 DEF BridgeNext
  <1>. QED
    BY <1>1, JointInvHolds, PTL DEF BridgeSpec, FaultedStorageNeverSucceeds

=============================================================================
