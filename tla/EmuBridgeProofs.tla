--------------------------- MODULE EmuBridgeProofs ---------------------------
(***************************************************************************)
(* FLEX and the ROM transport on the emulated SD bridge: for every         *)
(* geometry, every sequence of calls and any number of failures of the     *)
(* image file, the two stay in step byte by byte, so that no call waits,   *)
(* every call returns what it should, and the emulator is an SD volume.    *)
(***************************************************************************)
EXTENDS EmuBridge, SdProofs

-----------------------------------------------------------------------------
(* The emulator's SD bridge, whatever program runs on the 6800.  The       *)
(* engine's part is SdProofs; what is left is the PIA around it.           *)

EmuInv == EmuTypeOK /\ EngineInv(eng)

-----------------------------------------------------------------------------

\* A legal READ or WRITE names a sector of the image.
LEMMA LegalCallInImage ==
  ASSUME NEW e \in Engines, CallIsLegal(e), StorageCall(e) \in {"read", "write"}
  PROVE  CallOffset(e) \in Offsets
PROOF
  <1>1. validAddress(e.track, e.sector)
    BY DEF CallIsLegal
  <1>2. e.track \in Nat /\ e.sector \in Nat
    BY DEF Engines, Byte
  <1>3. e.track \in 0 .. Tracks - 1 /\ e.sector \in 1 .. SectorsPerTrack
    BY <1>1, <1>2, GeometryAssumption DEF validAddress
  <1>. QED
    BY <1>3 DEF CallOffset, Offsets

\* A mix of two buffers is a buffer.
LEMMA MixedBuffers ==
  ASSUME NEW first \in Buffers, NEW n, NEW rest \in Buffers
  PROVE  Mixed(first, n, rest) \in Buffers
PROOF
  BY DEF Mixed, Buffers

\* The file's answer to a legal call.
LEMMA FileAnswersKeepInv ==
  ASSUME NEW e \in Engines, CallIsLegal(e), disk \in Images, FileAnswers(e)
  PROVE  /\ eng' \in Engines /\ EngineInv(eng')
         /\ disk' \in Images
         /\ \A offset \in Offsets : disk'[offset] # disk[offset] =>
              StorageCall(e) = "write" /\ offset = CallOffset(e)
PROOF
  <1>1. Ok \in Byte
    BY StatusBytes DEF StorageStatuses, MountStatuses
  <1>2. Answer(e, Ok) \in Engines /\ EngineInv(Answer(e, Ok))
    BY <1>1, AnswerKeepsEngine
  <1>3. CASE StorageCall(e) = "read"
    <2>1. disk[CallOffset(e)] \in Buffers
      BY <1>3, LegalCallInImage DEF Images
    <2>2. eng' = ReadReply(e, disk[CallOffset(e)]) /\ disk' = disk
      BY <1>3 DEF FileAnswers
    <2>. QED
      BY <2>1, <2>2, ReadReplyKeepsEngine
  <1>4. CASE StorageCall(e) = "write"
    <2>1. e.buffer \in Buffers /\ CallOffset(e) \in Offsets
      BY <1>4, LegalCallInImage DEF Engines
    <2>2. eng' = Answer(e, Ok) /\ disk' = [disk EXCEPT ![CallOffset(e)] = e.buffer]
      BY <1>4 DEF FileAnswers
    <2>. QED
      BY <1>2, <1>4, <2>1, <2>2 DEF Images
  <1>5. CASE StorageCall(e) = "sync"
    BY <1>2, <1>5 DEF FileAnswers
  <1>. QED
    BY <1>3, <1>4, <1>5 DEF StorageCall

\* A failure of the file in a legal call.
LEMMA FileFailsKeepsInv ==
  ASSUME NEW e \in Engines, CallIsLegal(e), disk \in Images, NEW n, FileFails(e, n)
  PROVE  /\ eng' \in Engines /\ EngineInv(eng')
         /\ disk' \in Images
         /\ \A offset \in Offsets : disk'[offset] # disk[offset] =>
              StorageCall(e) = "write" /\ offset = CallOffset(e)
PROOF
  <1>. DEFINE a == Answer(e, IoError)
  <1>1. IoError \in Byte
    BY StatusBytes DEF StorageStatuses
  <1>2. a \in Engines /\ EngineInv(a)
    BY <1>1, AnswerKeepsEngine
  <1>3. CASE StorageCall(e) = "read"
    <2>. DEFINE partly == Mixed(disk[CallOffset(e)], n, a.buffer)
    <2>1. partly \in Buffers
      BY <1>2, <1>3, LegalCallInImage, MixedBuffers DEF Images, Engines
    <2>2. eng' = [a EXCEPT !.buffer = partly] /\ disk' = disk
      BY <1>3 DEF FileFails
    <2>3. a.state = "Response" /\ a.readReply = FALSE /\ a.outAt = 0 /\ a.outSize = 1
      BY DEF Answer, Engines
    <2>. HIDE DEF a, partly
    <2>4. eng' \in Engines
      BY <1>2, <2>1, <2>2 DEF Engines
    <2>5. EngineInv(eng')
      BY <1>2, <2>1, <2>2, <2>3
         DEF EngineInv, PayloadIsSummed, BufferIsSummed, ReplyIsDue, Engines
    <2>. QED
      BY <2>2, <2>4, <2>5
  <1>4. CASE StorageCall(e) = "write"
    <2>. DEFINE torn == Mixed(e.buffer, n, disk[CallOffset(e)])
    <2>1. CallOffset(e) \in Offsets /\ torn \in Buffers
      BY <1>4, LegalCallInImage, MixedBuffers DEF Images, Engines
    <2>2. eng' = a /\ disk' = [disk EXCEPT ![CallOffset(e)] = torn]
      BY <1>4 DEF FileFails
    <2>. HIDE DEF torn
    <2>. QED
      BY <1>2, <1>4, <2>1, <2>2 DEF Images
  <1>5. CASE StorageCall(e) = "sync"
    BY <1>2, <1>5 DEF FileFails
  <1>. QED
    BY <1>3, <1>4, <1>5 DEF StorageCall

\* publish() of a sound engine keeps the PIA's types.
LEMMA PublishKeepsTypes ==
  ASSUME NEW e \in Engines, EngineInv(e), NEW held \in BOOLEAN, NEW flag \in BOOLEAN,
         toHost \in Byte, Publish(e, held, flag)
  PROVE  published' \in BOOLEAN /\ readyFlag' \in BOOLEAN /\ toHost' \in Byte
PROOF
  BY ResponseByteIsByte DEF Publish

\* What a received byte does besides keeps the types.
LEMMA ByteReceivedKeepsTypes ==
  ASSUME EmuTypeOK, eng' \in Engines, EngineInv(eng'), ByteReceived
  PROVE  /\ WiresTypeOK(Byte)'
         /\ seen' \in SUBSET Lines
         /\ published' \in BOOLEAN
PROOF
  <1>1. published' \in BOOLEAN /\ readyFlag' \in BOOLEAN /\ toHost' \in Byte
    BY PublishKeepsTypes DEF ByteReceived, EmuTypeOK, WiresTypeOK
  <1>. QED
    BY <1>1 DEF ByteReceived, EmuTypeOK, WiresTypeOK, Lines

-----------------------------------------------------------------------------
(* The invariant.                                                          *)

LEMMA EmuInitInv == EmuInit => EmuInv
PROOF
  <1>. SUFFICES ASSUME EmuInit PROVE EmuInv
    OBVIOUS
  <1>1. 0 \in Byte
    BY SmallBytes
  <1>2. InitialImage \in Images
    BY EmulatorAssumption
  <1>. QED
    BY <1>1, <1>2, InitialEngineIsEngine
       DEF EmuInit, InitPia, InitWires, EmuInv, EmuTypeOK, WiresTypeOK, Lines

\* What a byte that the engine takes does to the file, answered or failed.
LEMMA RequestKeepsInv ==
  ASSUME EmuInv,
         PiaReceives \/ \E n \in 0 .. SectorBytes : PiaReceivesButFileFails(n)
  PROVE  /\ EmuInv'
         /\ \A offset \in Offsets : disk'[offset] # disk[offset] =>
              /\ CallsStorage(eng, toAvr, status)
              /\ StorageCall(Receive(eng, toAvr, status)) = "write"
              /\ offset = CallOffset(Receive(eng, toAvr, status))
PROOF
  <1>. DEFINE e == Receive(eng, toAvr, status)
  <1>1. /\ eng \in Engines /\ EngineInv(eng) /\ toAvr \in Byte /\ disk \in Images
        /\ status \in StorageStatuses /\ status \in {Ok, IoError} /\ EmuTypeOK
    BY DEF EmuInv, EmuTypeOK, WiresTypeOK, StorageStatuses, MountStatuses
  <1>2. Receiving(eng) /\ ByteReceived
    BY DEF PiaReceives, PiaReceivesButFileFails
  <1>3. /\ e \in Engines /\ EngineInv(e)
        /\ CallsStorage(eng, toAvr, status) => CallIsLegal(e)
    BY <1>1, <1>2, ReceiveKeepsEngine
  <1>. HIDE DEF e
  <1>4. /\ eng' \in Engines /\ EngineInv(eng') /\ disk' \in Images
        /\ status' \in {Ok, IoError}
        /\ \A offset \in Offsets : disk'[offset] # disk[offset] =>
             /\ CallsStorage(eng, toAvr, status)
             /\ StorageCall(e) = "write"
             /\ offset = CallOffset(e)
    <2>1. CASE PiaReceives /\ CallsStorage(eng, toAvr, status)
      <3>1. FileAnswers(e) /\ status' = status
        BY <2>1 DEF PiaReceives, e
      <3>. QED
        BY <1>1, <1>3, <2>1, <3>1, FileAnswersKeepInv
    <2>2. CASE PiaReceives /\ ~CallsStorage(eng, toAvr, status)
      <3>1. eng' = e /\ disk' = disk /\ status' = status
        BY <2>2 DEF PiaReceives, e
      <3>. QED
        BY <1>1, <1>3, <3>1
    <2>3. CASE \E n \in 0 .. SectorBytes : PiaReceivesButFileFails(n)
      <3>1. PICK n \in 0 .. SectorBytes : PiaReceivesButFileFails(n)
        BY <2>3
      <3>2. FileFails(e, n) /\ CallsStorage(eng, toAvr, status)
        BY <3>1 DEF PiaReceivesButFileFails, e
      <3>3. status' = IoError
        BY <3>2 DEF FileFails
      <3>. QED
        BY <1>1, <1>3, <3>2, <3>3, FileFailsKeepsInv
    <2>. QED
      BY <2>1, <2>2, <2>3
  <1>5. WiresTypeOK(Byte)' /\ seen' \in SUBSET Lines /\ published' \in BOOLEAN
    BY <1>1, <1>2, <1>4, ByteReceivedKeepsTypes
  <1>. QED
    BY <1>4, <1>5 DEF EmuInv, EmuTypeOK, WiresTypeOK, e

\* Every step keeps the invariant.
LEMMA EmuNextInv == EmuInv /\ [EmuNext]_emu => EmuInv'
PROOF
  <1>. SUFFICES ASSUME EmuInv, [EmuNext]_emu PROVE EmuInv'
    OBVIOUS
  <1>1. EmuTypeOK /\ EngineInv(eng) /\ eng \in Engines
    BY DEF EmuInv, EmuTypeOK
  <1>2. CASE PiaReceives \/ \E n \in 0 .. SectorBytes : PiaReceivesButFileFails(n)
    BY <1>2, RequestKeepsInv
  <1>3. CASE PiaRejectsRequest
    <2>1. eng' \in Engines /\ EngineInv(eng')
      BY <1>1, <1>3, ResetKeepsEngine DEF PiaRejectsRequest
    <2>2. WiresTypeOK(Byte)' /\ seen' \in SUBSET Lines /\ published' \in BOOLEAN
      BY <1>1, <1>3, <2>1, ByteReceivedKeepsTypes DEF PiaRejectsRequest
    <2>. QED
      BY <1>1, <1>3, <2>1, <2>2 DEF EmuInv, EmuTypeOK, PiaRejectsRequest
  <1>4. CASE PiaConsumes
    <2>1. eng' \in Engines /\ EngineInv(eng')
      BY <1>1, <1>4, AcknowledgeKeepsEngine DEF PiaConsumes
    <2>2. published' \in BOOLEAN /\ readyFlag' \in BOOLEAN /\ toHost' \in Byte
      BY <1>1, <1>4, <2>1, PublishKeepsTypes DEF PiaConsumes, EmuTypeOK, WiresTypeOK
    <2>. QED
      BY <1>1, <1>4, <2>1, <2>2 DEF EmuInv, EmuTypeOK, WiresTypeOK, PiaConsumes, Lines
  <1>5. CASE PiaSeesFall
    BY <1>1, <1>5 DEF EmuInv, EmuTypeOK, WiresTypeOK, PiaSeesFall, wires
  <1>6. CASE ArbitraryProgram
    <2>1. toAvr' \in Byte
      BY <1>1, <1>6, EmulatorAssumption DEF ArbitraryProgram, EmuTypeOK, WiresTypeOK
    <2>2. strobes' \in SUBSET Lines
      BY <1>1, <1>6 DEF ArbitraryProgram, EmuTypeOK, WiresTypeOK
    <2>. QED
      BY <1>1, <1>6, <2>1, <2>2 DEF EmuInv, EmuTypeOK, WiresTypeOK, ArbitraryProgram, pia
  <1>7. CASE UNCHANGED emu
    BY <1>1, <1>7 DEF EmuInv, EmuTypeOK, WiresTypeOK, emu, pia, wires
  <1>. QED
    BY <1>2, <1>3, <1>4, <1>5, <1>6, <1>7 DEF EmuNext, PiaSteps, PiaFaults

LEMMA EmuInvariant == EmuSpec => []EmuInv
PROOF
  BY EmuInitInv, EmuNextInv, PTL DEF EmuSpec

\* Whatever program runs on the 6800, the emulator's SD bridge never indexes
\* its staging buffer, its reply or the image outside (EmuTypeOK).
THEOREM EmuTypeCorrect == EmuSpec => []EmuTypeOK
PROOF
  <1>1. EmuInv => EmuTypeOK
    BY DEF EmuInv
  <1>. QED
    BY <1>1, EmuInvariant, PTL

\* The image file changes only when a WRITE request has come in whole.
FileStepIsVerified ==
  \A offset \in Offsets : disk'[offset] # disk[offset] =>
    /\ RequestRises
    /\ eng.state = "ChecksumLow"
    /\ eng.command = CommandWrite
    /\ status = Ok
    /\ validAddress(eng.track, eng.sector)
    /\ offset = CallOffset(eng)
    /\ 256 * eng.checksumHigh + toAvr = sectorChecksum(eng.buffer)

LEMMA FileIsWrittenByRequests ==
  ASSUME EmuInv, EmuNext
  PROVE  FileStepIsVerified
PROOF
  <1>. SUFFICES ASSUME NEW offset \in Offsets,
                       disk'[offset] # disk[offset]
                PROVE  /\ RequestRises
                       /\ eng.state = "ChecksumLow"
                       /\ eng.command = CommandWrite
                       /\ status = Ok
                       /\ validAddress(eng.track, eng.sector)
                       /\ offset = CallOffset(eng)
                       /\ 256 * eng.checksumHigh + toAvr = sectorChecksum(eng.buffer)
    BY DEF FileStepIsVerified
  <1>. DEFINE e == Receive(eng, toAvr, status)
  <1>1. PiaReceives \/ \E n \in 0 .. SectorBytes : PiaReceivesButFileFails(n)
    BY DEF EmuNext, PiaSteps, PiaFaults, PiaRejectsRequest, PiaConsumes, PiaSeesFall,
           ArbitraryProgram
  <1>2. RequestRises /\ Receiving(eng)
    BY <1>1 DEF PiaReceives, PiaReceivesButFileFails
  <1>3. /\ CallsStorage(eng, toAvr, status)
        /\ StorageCall(e) = "write"
        /\ offset = CallOffset(e)
    BY <1>1, RequestKeepsInv
  <1>4. /\ eng \in Engines /\ EngineInv(eng) /\ toAvr \in Byte
        /\ status \in StorageStatuses
    BY DEF EmuInv, EmuTypeOK, WiresTypeOK, StorageStatuses, MountStatuses
  <1>5. WriteIsVerified(eng, toAvr, status)
    BY <1>2, <1>3, <1>4, ReceiveKeepsEngine
  <1>6. e.state = eng.state /\ e.state = "ChecksumLow"
    BY <1>3 DEF CallsStorage, StorageCall
  <1>7. e = FinishPayload(eng, toAvr, status)
    BY <1>6 DEF Receive
  <1>8. e = eng
    <2>1. eng.state = "ChecksumLow"
      BY <1>6
    <2>2. LET r == FinishPayload(eng, toAvr, status)
          IN  r.state # "Response" => r = eng
      BY <1>4, <2>1, FinishPayloadKeepsEngine
    <2>3. e.state # "Response" => e = eng
      BY <1>7, <2>2, Zenon
    <2>. HIDE DEF e
    <2>. QED
      BY <1>6, <2>3
  <1>. QED
    BY <1>2, <1>3, <1>5, <1>6, <1>8 DEF WriteIsVerified

\* Whatever program runs on the 6800, the image file changes only in the sector
\* of a WRITE whose checksum bytes are the sum of the very payload that was
\* staged, and only while no I/O error is latched (FileChangesOnlyByWrite).
THEOREM OnlyWritesChangeTheFile == EmuSpec => FileChangesOnlyByWrite
PROOF
  <1>1. EmuInv /\ [EmuNext]_emu => [FileStepIsVerified]_emu
    BY FileIsWrittenByRequests
  <1>. QED
    BY <1>1, EmuInvariant, PTL DEF EmuSpec, FileChangesOnlyByWrite, FileStepIsVerified

-----------------------------------------------------------------------------
(* The transport on the emulator: the invariant.                           *)

\* The engine when it has seen CB2 rise.
Acked == IF "consume" \in strobes \ seen THEN AcknowledgeResponse(eng) ELSE eng

\* The byte that is due next: the transport may yet have to see that the last
\* one was taken.
DuePhase == IF ackFlag THEN PutNext(op, phase, index).phase ELSE phase
DueIndex == IF ackFlag THEN PutNext(op, phase, index).index ELSE index

\* How far each line is in its handshake, and what the latches hold.
LinkInv ==
  /\ hostPc \in {"idle", "put", "waitReady"} => strobes = Lines /\ seen \in {Lines, {"receive"}}
  /\ hostPc \in {"configure", "settle"} => strobes = Lines /\ seen = Lines
  /\ hostPc = "strobing" => strobes = {"consume"} /\ seen \in {Lines, {"consume"}}
  /\ hostPc = "waitAck" => strobes = Lines /\ seen \in {Lines, {"consume"}}
  /\ hostPc = "consuming" => strobes = {"receive"} /\ seen \in {Lines, {"receive"}}
  /\ ackFlag <=> hostPc = "waitAck" /\ seen = Lines
  /\ published <=> ~Receiving(eng)
  /\ readyFlag <=> published /\ hostPc # "consuming" /\ "consume" \in seen
  /\ readyFlag => toHost = ResponseByte(eng)
  /\ hostPc = "consuming" => byte = ResponseByte(eng)
  /\ hostPc = "waitAck" => toAvr = ByteOf(op, phase, index, sum)
  /\ "consume" \in strobes \ seen => published

\* Transport and engine are at the same byte.
DialogueInv ==
  /\ ~Talking => Acked.state = "SyncA"
  /\ Talking /\ DuePhase \in PutPhases => Expects(op, DuePhase, DueIndex, Acked, status)
  /\ Talking /\ DuePhase \in GetPhases =>
       Answers(op, DuePhase, DueIndex, sdBuffer, remoteHigh, Acked, status, disk)

\* Until the file fails, it holds what the successful WRITEs stored, and the
\* data of the WRITE whose status is on its way.
VolumeInv ==
  /\ wanted \in Images
  /\ status = Ok => disk = IF Talking /\ DuePhase = "writeStatus"
                             THEN [wanted EXCEPT ![OffsetOf(op)] = op.data]
                             ELSE wanted

PartsInv == LinkInv /\ DialogueInv /\ VolumeInv /\ EmuCallsAreExact

BridgeInv == HostInv /\ EmuInv /\ PartsInv

-----------------------------------------------------------------------------
(* Facts.                                                                  *)

\* In the middle of an instruction the engine has not seen its strobe yet.
LEMMA DoneIsAcked ==
  ASSUME PiaIsDone
  PROVE  Acked = eng
PROOF
  BY DEF PiaIsDone, Acked

\* What EmuInv says that the proofs below use.
LEMMA EmuFacts ==
  ASSUME EmuInv
  PROVE  /\ eng \in Engines /\ EngineInv(eng) /\ disk \in Images
         /\ status \in {Ok, IoError} /\ status \in StorageStatuses
         /\ toAvr \in Byte /\ toHost \in Byte
PROOF
  BY DEF EmuInv, EmuTypeOK, WiresTypeOK, StorageStatuses, MountStatuses

-----------------------------------------------------------------------------
(* The steps of the host.                                                  *)

LEMMA EmuCallKeepsParts ==
  ASSUME BridgeInv, EmuCall
  PROVE  PartsInv'
PROOF
  <1>1. PICK call \in Calls : HostCalls(call)
    BY EmuBridgeAssumption DEF EmuCall
  <1>2. /\ PiaIsDone /\ hostPc = "idle" /\ op' = call
        /\ UNCHANGED <<seen, eng, published, status, disk, wanted>>
        /\ UNCHANGED <<strobes, ready, ackFlag, readyFlag, toAvr, toHost>>
        /\ UNCHANGED <<sum, byte, remoteHigh, sdBuffer>>
    BY <1>1 DEF EmuCall, HostCalls, pia, wires
  <1>3. strobes = Lines /\ seen = Lines /\ ~ackFlag /\ Acked = eng /\ eng.state = "SyncA"
    BY <1>2, DoneIsAcked
       DEF BridgeInv, PartsInv, LinkInv, DialogueInv, PiaIsDone, Talking, Putting, Getting
  <1>4. Acked' = eng
    BY <1>2, <1>3 DEF Acked
  <1>5. /\ hostPc' \in {"idle", "put", "configure"}
        /\ hostPc' = "idle" => BadCallAddress(call) /\ result' = FailCode
        /\ hostPc' = "put" => phase' = "info" /\ index' = 0
    BY <1>1, <1>2, HostCallsGoes
  <1>6. LinkInv'
    BY <1>2, <1>3, <1>5 DEF BridgeInv, PartsInv, LinkInv
  <1>7. DuePhase' = phase' /\ DueIndex' = index'
    BY <1>2, <1>3 DEF DuePhase, DueIndex
  <1>8. DialogueInv'
    <2>1. CASE hostPc' # "put"
      BY <1>2, <1>3, <1>4, <1>5, <2>1 DEF DialogueInv, Talking, Putting, Getting
    <2>2. CASE hostPc' = "put"
      <3>1. Expects(call, "info", 0, eng, status)
        BY <1>3, ResetExpectsHeader DEF HeaderPhases
      <3>2. "info" \notin GetPhases
        BY DEF GetPhases
      <3>. QED
        BY <1>2, <1>4, <1>5, <1>7, <2>2, <3>1, <3>2 DEF DialogueInv, Talking, Putting, Getting
    <2>. QED
      BY <2>1, <2>2
  <1>9. VolumeInv'
    BY <1>2, <1>5, <1>7
       DEF BridgeInv, PartsInv, VolumeInv, Talking, Putting, Getting
  <1>10. EmuCallsAreExact'
    BY <1>2, <1>5, Codes DEF EmuCallsAreExact
  <1>. QED
    BY <1>6, <1>8, <1>9, <1>10 DEF PartsInv

\* SDINIT.
LEMMA EmuInitialisesKeepsParts ==
  ASSUME BridgeInv, PiaIsDone, UNCHANGED <<pia, disk>>, RememberWrite,
         HostConfigures({}) \/ HostSettles
  PROVE  PartsInv'
PROOF
  <1>1. /\ hostPc \in {"configure", "settle"} /\ result = Pending
        /\ UNCHANGED <<seen, eng, published, status, disk, op, sum, byte, remoteHigh,
                       sdBuffer, ready, toAvr, toHost>>
    BY DEF BridgeInv, HostInv, HostConfigures, HostSettles, pia
  <1>2. /\ strobes = Lines /\ seen = Lines /\ ~ackFlag /\ eng.state = "SyncA"
        /\ ~published /\ ~readyFlag
    BY <1>1, DoneIsAcked
       DEF BridgeInv, PartsInv, LinkInv, DialogueInv, Talking, Putting, Getting, Receiving
  <1>3. CASE HostConfigures({})
    <2>1. hostPc' = "settle" /\ strobes' = Lines /\ result' = result
          /\ UNCHANGED <<phase, index, ackFlag, readyFlag>>
      BY <1>2, <1>3, LineSets DEF HostConfigures
    <2>2. wanted' = wanted
      BY <1>1, <2>1, Codes DEF RememberWrite
    <2>3. Acked' = eng
      BY <1>1, <1>2, <2>1 DEF Acked
    <2>4. LinkInv'
      BY <1>1, <1>2, <2>1 DEF BridgeInv, PartsInv, LinkInv
    <2>5. DialogueInv' /\ VolumeInv' /\ EmuCallsAreExact'
      BY <1>1, <1>2, <2>1, <2>2, <2>3
         DEF BridgeInv, PartsInv, DialogueInv, VolumeInv, EmuCallsAreExact,
             Talking, Putting, Getting
    <2>. QED
      BY <2>4, <2>5 DEF PartsInv
  <1>4. CASE HostSettles
    <2>1. /\ ~ackFlag' /\ ~readyFlag' /\ strobes' = Lines
          /\ IF BadCallAddress(op) THEN Return(FailCode) ELSE Goto("info", 0)
      BY <1>2, <1>4 DEF HostSettles, ClearsFlags
    <2>2. /\ BadCallAddress(op) => hostPc' = "idle" /\ result' = FailCode
          /\ ~BadCallAddress(op) =>
               hostPc' = "put" /\ phase' = "info" /\ index' = 0 /\ result' = result
      BY <2>1 DEF Return, Goto, PutPhases
    <2>3. wanted' = wanted
      BY <1>1, <2>2, Codes DEF RememberWrite
    <2>4. Acked' = eng
      BY <1>1, <1>2, <2>1 DEF Acked
    <2>5. LinkInv'
      BY <1>1, <1>2, <2>1, <2>2, LineSets DEF BridgeInv, PartsInv, LinkInv
    <2>6. DuePhase' = phase' /\ DueIndex' = index'
      BY <2>1 DEF DuePhase, DueIndex
    <2>7. DialogueInv'
      <3>1. CASE BadCallAddress(op)
        BY <1>2, <2>2, <2>4, <3>1 DEF DialogueInv, Talking, Putting, Getting
      <3>2. CASE ~BadCallAddress(op)
        <4>1. Expects(op, "info", 0, eng, status)
          BY <1>2, ResetExpectsHeader DEF HeaderPhases
        <4>2. "info" \notin GetPhases
          BY DEF GetPhases
        <4>. QED
          BY <1>1, <2>2, <2>4, <2>6, <3>2, <4>1, <4>2
             DEF DialogueInv, Talking, Putting, Getting
      <3>. QED
        BY <3>1, <3>2
    <2>8. VolumeInv'
      BY <1>1, <2>2, <2>3, <2>6
         DEF BridgeInv, PartsInv, VolumeInv, Talking, Putting, Getting
    <2>9. EmuCallsAreExact'
      BY <1>1, <2>2, Codes DEF EmuCallsAreExact
    <2>. QED
      BY <2>5, <2>7, <2>8, <2>9 DEF PartsInv
  <1>. QED
    BY <1>3, <1>4

\* What BridgeInv says of a call that puts a byte.
LEMMA PuttingFacts ==
  ASSUME BridgeInv, Putting
  PROVE  /\ op \in Calls /\ op.kind \in Kinds /\ ~BadCallAddress(op) /\ Fits(op, phase)
         /\ phase \in PutPhases /\ phase \notin GetPhases /\ phase # "writeStatus"
         /\ index \in 0 .. LastIndex(phase)
         /\ OutgoingByte = ByteOf(op, phase, index, sum) /\ OutgoingByte \in Byte
         /\ HostTypeOK /\ Talking /\ result = Pending /\ hostPc # "idle"
PROOF
  <1>1. /\ HostTypeOK /\ op \in Calls /\ Talking /\ result = Pending /\ hostPc # "idle"
    BY DEF BridgeInv, HostInv, HostTypeOK, Talking, Putting
  <1>2. /\ ~BadCallAddress(op) /\ Fits(op, phase) /\ phase \in PutPhases
        /\ index \in 0 .. LastIndex(phase)
    BY <1>1 DEF BridgeInv, HostInv, ScriptInv
  <1>3. phase \notin GetPhases /\ phase # "writeStatus"
    BY <1>2 DEF PutPhases, GetPhases
  <1>. QED
    BY <1>1, <1>2, <1>3, OutgoingByteIs DEF Calls

\* SDPUT.
LEMMA EmuPutsKeepsParts ==
  ASSUME BridgeInv, PiaIsDone, UNCHANGED <<pia, disk>>, RememberWrite,
         HostStrobes \/ HostReleases
  PROVE  PartsInv'
PROOF
  <1>1. /\ hostPc \in {"put", "strobing"}
        /\ UNCHANGED <<seen, eng, published, status, disk, op, byte, remoteHigh, sdBuffer,
                       phase, index, result, ackFlag, readyFlag, toHost>>
    BY DEF HostStrobes, HostReleases, pia
  <1>2. /\ phase \in PutPhases /\ phase \notin GetPhases /\ phase # "writeStatus"
        /\ index \in 0 .. LastIndex(phase)
        /\ OutgoingByte = ByteOf(op, phase, index, sum)
        /\ Talking /\ result = Pending
    BY <1>1, PuttingFacts DEF Putting
  <1>3. wanted' = wanted
    BY <1>1, <1>2, Codes DEF RememberWrite
  <1>4. ~ackFlag /\ Acked = eng /\ DuePhase = phase /\ DueIndex = index
    BY <1>1, DoneIsAcked DEF BridgeInv, PartsInv, LinkInv, DuePhase, DueIndex
  <1>5. Expects(op, phase, index, eng, status)
    BY <1>2, <1>4 DEF BridgeInv, PartsInv, DialogueInv
  <1>6. Receiving(eng) /\ ~published /\ ~readyFlag
    BY <1>2, <1>5, ExpectingReceives DEF BridgeInv, PartsInv, LinkInv
  <1>7. CASE HostStrobes
    <2>1. hostPc = "put" /\ hostPc' = "strobing" /\ strobes' = strobes \ {"receive"}
      BY <1>7 DEF HostStrobes
    <2>2. seen = Lines /\ strobes' = {"consume"}
      BY <2>1, LineSets DEF BridgeInv, PartsInv, LinkInv, PiaIsDone
    <2>3. Acked' = eng /\ DuePhase' = phase /\ DueIndex' = index /\ Talking'
      BY <1>1, <1>4, <2>1, <2>2, LineSets
         DEF Acked, DuePhase, DueIndex, Talking, Putting
    <2>4. LinkInv'
      BY <1>1, <1>4, <1>6, <2>1, <2>2, LineSets DEF LinkInv
    <2>. QED
      BY <1>1, <1>2, <1>3, <1>4, <1>5, <2>1, <2>3, <2>4
         DEF BridgeInv, PartsInv, DialogueInv, VolumeInv, EmuCallsAreExact
  <1>8. CASE HostReleases
    <2>1. /\ hostPc = "strobing" /\ hostPc' = "waitAck" /\ sum' = sum
          /\ strobes' = strobes \cup {"receive"} /\ toAvr' = OutgoingByte
      BY <1>8 DEF HostReleases
    <2>2. seen = {"consume"} /\ strobes' = Lines
      BY <2>1, LineSets DEF BridgeInv, PartsInv, LinkInv, PiaIsDone
    <2>3. Acked' = eng /\ DuePhase' = phase /\ DueIndex' = index /\ Talking'
      BY <1>1, <1>4, <2>1, <2>2, LineSets
         DEF Acked, DuePhase, DueIndex, Talking, Putting
    <2>4. LinkInv'
      BY <1>1, <1>2, <1>4, <1>6, <2>1, <2>2, LineSets DEF LinkInv
    <2>. QED
      BY <1>1, <1>2, <1>3, <1>4, <1>5, <2>1, <2>3, <2>4
         DEF BridgeInv, PartsInv, DialogueInv, VolumeInv, EmuCallsAreExact
  <1>. QED
    BY <1>7, <1>8

LEMMA EmuAckedKeepsParts ==
  ASSUME BridgeInv, PiaIsDone, UNCHANGED <<pia, disk>>, RememberWrite, HostAcked
  PROVE  PartsInv'
PROOF
  <1>. DEFINE n == PutNext(op, phase, index)
  <1>1. /\ hostPc = "waitAck" /\ ackFlag /\ ~ackFlag' /\ AfterPut
        /\ UNCHANGED <<seen, eng, published, status, disk, op, sum, byte, remoteHigh,
                       sdBuffer, strobes, readyFlag, toAvr, toHost>>
    BY DEF HostAcked, AckSeen, pia
  <1>2. /\ op.kind \in Kinds /\ Fits(op, phase) /\ phase \in PutPhases
        /\ index \in 0 .. LastIndex(phase) /\ HostTypeOK /\ Talking /\ result = Pending
    BY <1>1, PuttingFacts DEF Putting
  <1>3. /\ n.phase \in PutPhases \cup GetPhases /\ n.index \in 0 .. LastIndex(n.phase)
    BY <1>2, PutNextFits
  <1>4. Goto(n.phase, n.index)
    BY <1>1, <1>2, AfterPutGoes
  <1>5. DuePhase = n.phase /\ DueIndex = n.index /\ Acked = eng
    BY <1>1, DoneIsAcked DEF DuePhase, DueIndex
  <1>. HIDE DEF n
  <1>6. /\ hostPc' \in {"put", "waitReady"} /\ result' = result
        /\ phase' = n.phase /\ index' = n.index
    BY <1>2, <1>3, <1>4, GotoKeepsTypes
  <1>7. wanted' = wanted
    BY <1>2, <1>6, Codes DEF RememberWrite
  <1>8. strobes = Lines /\ seen = Lines
    BY <1>1 DEF BridgeInv, PartsInv, LinkInv
  <1>9. /\ DuePhase' = DuePhase /\ DueIndex' = DueIndex /\ Acked' = Acked /\ Talking'
    BY <1>1, <1>5, <1>6, <1>8 DEF DuePhase, DueIndex, Acked, Talking, Putting, Getting
  <1>10. LinkInv'
    BY <1>1, <1>6, <1>8 DEF BridgeInv, PartsInv, LinkInv
  <1>. QED
    BY <1>1, <1>2, <1>6, <1>7, <1>9, <1>10
       DEF BridgeInv, PartsInv, DialogueInv, VolumeInv, EmuCallsAreExact

\* What BridgeInv says of a call that gets a byte, between two instructions.
LEMMA GettingFacts ==
  ASSUME BridgeInv, PiaIsDone, Getting
  PROVE  /\ op \in Calls /\ ~BadCallAddress(op) /\ Fits(op, phase)
         /\ phase \in GetPhases /\ index \in 0 .. LastIndex(phase)
         /\ HostTypeOK /\ Talking /\ result = Pending /\ hostPc # "idle"
         /\ ~ackFlag /\ Acked = eng /\ DuePhase = phase /\ DueIndex = index
         /\ phase \notin PutPhases
         /\ Answers(op, phase, index, sdBuffer, remoteHigh, eng, status, disk)
         /\ published
PROOF
  <1>1. /\ HostTypeOK /\ op \in Calls /\ Talking /\ result = Pending /\ hostPc # "idle"
    BY DEF BridgeInv, HostInv, HostTypeOK, Talking, Getting
  <1>2. /\ ~BadCallAddress(op) /\ Fits(op, phase) /\ phase \in GetPhases
        /\ index \in 0 .. LastIndex(phase)
    BY <1>1 DEF BridgeInv, HostInv, ScriptInv
  <1>3. ~ackFlag /\ Acked = eng /\ DuePhase = phase /\ DueIndex = index
    BY DoneIsAcked DEF BridgeInv, PartsInv, LinkInv, DuePhase, DueIndex, Getting
  <1>4. Answers(op, phase, index, sdBuffer, remoteHigh, eng, status, disk)
    BY <1>1, <1>2, <1>3 DEF BridgeInv, PartsInv, DialogueInv
  <1>5. published
    BY <1>4 DEF Answers, Receiving, BridgeInv, PartsInv, LinkInv
  <1>6. phase \notin PutPhases
    BY <1>2 DEF PutPhases, GetPhases
  <1>. QED
    BY <1>1, <1>2, <1>3, <1>4, <1>5, <1>6

\* SDGET reads the byte.
LEMMA EmuGetsKeepsParts ==
  ASSUME BridgeInv, PiaIsDone, UNCHANGED <<pia, disk>>, RememberWrite, HostGets
  PROVE  PartsInv'
PROOF
  <1>1. /\ hostPc = "waitReady" /\ hostPc' = "consuming" /\ readyFlag /\ ~readyFlag'
        /\ byte' = toHost /\ strobes' = strobes \ {"consume"}
        /\ UNCHANGED <<seen, eng, published, status, disk, op, sum, remoteHigh, sdBuffer,
                       phase, index, result, ackFlag, toAvr, toHost>>
    BY DEF HostGets, pia
  <1>2. /\ phase \in GetPhases /\ Talking /\ result = Pending /\ ~ackFlag
        /\ Acked = eng /\ DuePhase = phase /\ DueIndex = index /\ published
        /\ phase \notin PutPhases
        /\ Answers(op, phase, index, sdBuffer, remoteHigh, eng, status, disk)
    BY <1>1, GettingFacts DEF Getting
  <1>3. wanted' = wanted
    BY <1>1, <1>2, Codes DEF RememberWrite
  <1>4. seen = Lines /\ strobes' = {"receive"} /\ toHost = ResponseByte(eng)
    BY <1>1, LineSets DEF BridgeInv, PartsInv, LinkInv, PiaIsDone
  <1>5. Acked' = eng /\ DuePhase' = phase /\ DueIndex' = index /\ Talking'
    BY <1>1, <1>2, <1>4, LineSets DEF Acked, DuePhase, DueIndex, Talking, Getting
  <1>6. LinkInv'
    BY <1>1, <1>2, <1>4, LineSets DEF BridgeInv, PartsInv, LinkInv
  <1>. QED
    BY <1>1, <1>2, <1>3, <1>5, <1>6
       DEF BridgeInv, PartsInv, DialogueInv, VolumeInv, EmuCallsAreExact

\* SDGET acknowledges the byte and the caller uses it.
LEMMA EmuConsumesKeepsParts ==
  ASSUME BridgeInv, PiaIsDone, UNCHANGED <<pia, disk>>, RememberWrite, HostConsumes
  PROVE  PartsInv'
PROOF
  <1>. DEFINE a == AcknowledgeResponse(eng)
  <1>1. /\ hostPc = "consuming" /\ strobes' = strobes \cup {"consume"}
        /\ UNCHANGED <<seen, eng, published, status, disk, op, byte, ackFlag, readyFlag,
                       toAvr, toHost>>
    BY DEF HostConsumes, pia
  <1>2. /\ op \in Calls /\ ~BadCallAddress(op) /\ Fits(op, phase)
        /\ phase \in GetPhases /\ Talking /\ result = Pending /\ ~ackFlag
        /\ Acked = eng /\ DuePhase = phase /\ DueIndex = index /\ published
        /\ Answers(op, phase, index, sdBuffer, remoteHigh, eng, status, disk)
    BY <1>1, GettingFacts DEF Getting
  <1>3. /\ eng \in Engines /\ disk \in Images /\ status \in {Ok, IoError}
    BY EmuFacts DEF BridgeInv
  <1>4. /\ seen = {"receive"} /\ strobes' = Lines /\ byte = ResponseByte(eng) /\ ~readyFlag
    BY <1>1, LineSets DEF BridgeInv, PartsInv, LinkInv, PiaIsDone
  <1>5. Acked' = a /\ DuePhase' = phase' /\ DueIndex' = index'
    BY <1>1, <1>2, <1>4, LineSets DEF Acked, DuePhase, DueIndex
  <1>6. \/ /\ hostPc' \in {"put", "waitReady"} /\ result' = result
           /\ phase # "writeStatus" /\ phase' # "writeStatus"
           /\ hostPc' = "put" =>
                phase' \in PutPhases /\ Expects(op, phase', index', a, status)
           /\ hostPc' = "waitReady" =>
                /\ phase' \in GetPhases
                /\ Answers(op, phase', index', sdBuffer', remoteHigh', a, status, disk)
        \/ /\ hostPc' = "idle" /\ a.state = "SyncA"
           /\ result' = IF status = Ok THEN Ok ELSE FailCode
           /\ sdBuffer' = sdBuffer
           /\ op.kind = "write" /\ status = Ok => phase = "writeStatus"
           /\ op.kind = "read" /\ status = Ok => sdBuffer = disk[OffsetOf(op)]
    BY <1>1, <1>2, <1>3, <1>4, ReplyByteUsed DEF BridgeInv
  <1>. HIDE DEF a
  <1>7. hostPc' \in {"idle", "put", "waitReady"}
    BY <1>6
  <1>8. LinkInv'
    BY <1>1, <1>2, <1>4, <1>7, LineSets DEF BridgeInv, PartsInv, LinkInv
  <1>9. DialogueInv'
    <2>1. PutPhases \cap GetPhases = {}
      BY DEF PutPhases, GetPhases
    <2>. QED
      BY <1>1, <1>5, <1>6, <2>1 DEF DialogueInv, Talking, Putting, Getting
  <1>10. CASE hostPc' # "idle"
    <2>1. wanted' = wanted
      BY <1>2, <1>6, <1>10, Codes DEF RememberWrite
    <2>2. VolumeInv'
      BY <1>1, <1>2, <1>5, <1>6, <1>10, <2>1
         DEF BridgeInv, PartsInv, VolumeInv
    <2>. QED
      BY <1>8, <1>9, <1>10, <2>2 DEF PartsInv, EmuCallsAreExact
  <1>11. CASE hostPc' = "idle"
    <2>1. /\ result' = IF status = Ok THEN Ok ELSE FailCode
          /\ sdBuffer' = sdBuffer
          /\ op.kind = "write" /\ status = Ok => phase = "writeStatus"
          /\ op.kind = "read" /\ status = Ok => sdBuffer = disk[OffsetOf(op)]
      BY <1>6, <1>11
    <2>2. phase = "writeStatus" => op.kind = "write"
      BY <1>2 DEF Fits, WritePhases
    <2>3. status = Ok => disk = IF phase = "writeStatus"
                                  THEN [wanted EXCEPT ![OffsetOf(op)] = op.data]
                                  ELSE wanted
      BY <1>2 DEF BridgeInv, PartsInv, VolumeInv
    <2>4. wanted' = IF status = Ok /\ op.kind = "write"
                      THEN [wanted EXCEPT ![OffsetOf(op)] = op.data]
                      ELSE wanted
      BY <1>2, <2>1, Codes DEF RememberWrite, OffsetOf
    <2>5. wanted' \in Images /\ (status = Ok => disk = wanted')
      <3>1. op.data \in Buffers
        BY <1>2 DEF Calls
      <3>2. wanted' \in Images
        BY <2>4, <3>1 DEF BridgeInv, PartsInv, VolumeInv, Images
      <3>. QED
        BY <2>1, <2>2, <2>3, <2>4, <3>2
    <2>6. VolumeInv'
      BY <1>1, <1>11, <2>5 DEF VolumeInv, Talking, Putting, Getting
    <2>7. EmuCallsAreExact'
      BY <1>1, <1>2, <2>1, <2>5, Codes DEF EmuCallsAreExact, OffsetOf
    <2>. QED
      BY <1>8, <1>9, <2>6, <2>7 DEF PartsInv
  <1>. QED
    BY <1>10, <1>11

\* SDWAIT never finds its flag clear.
LEMMA NeverWaits ==
  ASSUME BridgeInv, PiaIsDone
  PROVE  /\ hostPc = "waitAck" => ackFlag
         /\ hostPc = "waitReady" => readyFlag
PROOF
  <1>1. hostPc = "waitAck" => ackFlag
    BY DEF BridgeInv, PartsInv, LinkInv, PiaIsDone
  <1>2. ASSUME hostPc = "waitReady" PROVE readyFlag
    <2>1. published
      BY <1>2, GettingFacts DEF Getting
    <2>. QED
      BY <1>2, <2>1, LineSets DEF BridgeInv, PartsInv, LinkInv, PiaIsDone
  <1>. QED
    BY <1>1, <1>2

-----------------------------------------------------------------------------
(* The steps of the emulator.                                              *)

\* A falling strobe.
LEMMA SeesFallKeepsParts ==
  ASSUME BridgeInv, PiaSeesFall, UNCHANGED <<host, wanted>>
  PROVE  PartsInv'
PROOF
  <1>1. /\ seen \ strobes # {} /\ seen' = seen \cap strobes
        /\ UNCHANGED <<eng, published, status, disk, strobes, ackFlag, readyFlag, toAvr,
                       toHost, hostPc, op, sum, byte, remoteHigh, sdBuffer, phase, index,
                       result, wanted>>
    BY DEF PiaSeesFall, wires, host
  <1>2. /\ hostPc \in {"strobing", "consuming"} /\ seen = Lines /\ ~ackFlag
        /\ hostPc = "strobing" => strobes = {"consume"}
        /\ hostPc = "consuming" => strobes = {"receive"}
    BY <1>1, LineSets DEF BridgeInv, HostInv, HostTypeOK, PartsInv, LinkInv, Lines
  <1>3. seen' = strobes
    BY <1>1, <1>2, LineSets
  <1>4. hostPc = "strobing" => ~published
    <2>1. ASSUME hostPc = "strobing" PROVE Receiving(eng)
      <3>1. /\ phase \in PutPhases /\ index \in 0 .. LastIndex(phase) /\ Talking
        BY <2>1, PuttingFacts DEF Putting
      <3>2. Acked = eng /\ DuePhase = phase /\ DueIndex = index
        BY <1>2, <2>1, LineSets DEF Acked, DuePhase, DueIndex
      <3>3. Expects(op, phase, index, eng, status)
        BY <3>1, <3>2 DEF BridgeInv, PartsInv, DialogueInv
      <3>. QED
        BY <3>1, <3>3, ExpectingReceives
    <2>. QED
      BY <2>1 DEF BridgeInv, PartsInv, LinkInv
  <1>5. Acked' = Acked /\ DuePhase' = DuePhase /\ DueIndex' = DueIndex /\ Talking' = Talking
    BY <1>1, <1>2, <1>3, LineSets
       DEF Acked, DuePhase, DueIndex, Talking, Putting, Getting
  <1>6. LinkInv'
    BY <1>1, <1>2, <1>3, <1>4, LineSets DEF BridgeInv, PartsInv, LinkInv
  <1>. QED
    BY <1>1, <1>2, <1>5, <1>6
       DEF BridgeInv, PartsInv, DialogueInv, VolumeInv, EmuCallsAreExact

\* The acknowledgement of a byte.
LEMMA ConsumesKeepsParts ==
  ASSUME BridgeInv, PiaConsumes, UNCHANGED <<host, wanted>>
  PROVE  PartsInv'
PROOF
  <1>. DEFINE a == AcknowledgeResponse(eng)
  <1>1. /\ "consume" \in strobes \ seen /\ seen' = seen \cup {"consume"}
        /\ UNCHANGED <<status, disk, strobes, ackFlag, toAvr,
                       hostPc, op, sum, byte, remoteHigh, sdBuffer, phase, index,
                       result, wanted>>
    BY DEF PiaConsumes, host
  <1>2. /\ hostPc \in {"idle", "put", "waitReady"} /\ seen = {"receive"} /\ strobes = Lines
        /\ published /\ ~ackFlag
    <2>1. seen # Lines /\ seen # {"consume"} /\ "consume" \in strobes
      BY <1>1, LineSets
    <2>. QED
      BY <1>1, <2>1, LineSets DEF BridgeInv, HostInv, HostTypeOK, PartsInv, LinkInv
  <1>3. seen' = Lines
    BY <1>1, <1>2, LineSets
  <1>4. eng' = a /\ Publish(eng', FALSE, FALSE)
    BY <1>2 DEF PiaConsumes
  <1>5. /\ published' <=> ~Receiving(eng')
        /\ readyFlag' <=> ~Receiving(eng')
        /\ readyFlag' => toHost' = ResponseByte(eng')
    BY <1>4 DEF Publish
  <1>6. Acked = a /\ Acked' = a
    BY <1>1, <1>2, <1>3, <1>4, LineSets DEF Acked
  <1>7. DuePhase' = DuePhase /\ DueIndex' = DueIndex /\ Talking' = Talking
    BY <1>1 DEF DuePhase, DueIndex, Talking, Putting, Getting
  <1>. HIDE DEF a
  <1>8. LinkInv'
    BY <1>1, <1>2, <1>3, <1>5, LineSets DEF BridgeInv, PartsInv, LinkInv
  <1>. QED
    BY <1>1, <1>6, <1>7, <1>8
       DEF BridgeInv, PartsInv, DialogueInv, VolumeInv, EmuCallsAreExact

\* A byte arrives only when the transport has put one, and the engine takes it.
LEMMA ArrivingFacts ==
  ASSUME BridgeInv, RequestRises
  PROVE  /\ hostPc = "waitAck" /\ seen = {"consume"} /\ strobes = Lines
         /\ ~ackFlag /\ Acked = eng /\ Receiving(eng) /\ ~published /\ ~readyFlag
         /\ toAvr = ByteOf(op, phase, index, sum)
         /\ op \in Calls /\ op.kind \in Kinds /\ ~BadCallAddress(op) /\ Fits(op, phase)
         /\ phase \in PutPhases /\ phase # "writeStatus" /\ index \in 0 .. LastIndex(phase)
         /\ Expects(op, phase, index, eng, status)
         /\ phase \in {"sumHigh", "sumLow"} => sum = sectorChecksum(op.data)
         /\ Talking
PROOF
  <1>1. "receive" \in strobes /\ "receive" \notin seen
    BY DEF RequestRises
  <1>2. hostPc = "waitAck" /\ seen = {"consume"} /\ strobes = Lines
    BY <1>1, LineSets DEF BridgeInv, HostInv, HostTypeOK, PartsInv, LinkInv
  <1>3. ~ackFlag /\ toAvr = ByteOf(op, phase, index, sum)
    BY <1>2, LineSets DEF BridgeInv, PartsInv, LinkInv
  <1>4. Acked = eng /\ DuePhase = phase /\ DueIndex = index
    BY <1>2, <1>3 DEF Acked, DuePhase, DueIndex
  <1>5. /\ op \in Calls /\ op.kind \in Kinds /\ ~BadCallAddress(op) /\ Fits(op, phase)
        /\ phase \in PutPhases /\ phase # "writeStatus" /\ index \in 0 .. LastIndex(phase)
        /\ Talking
    BY <1>2, PuttingFacts DEF Putting
  <1>6. Expects(op, phase, index, eng, status)
    BY <1>4, <1>5 DEF BridgeInv, PartsInv, DialogueInv
  <1>7. Receiving(eng) /\ ~published /\ ~readyFlag
    BY <1>5, <1>6, ExpectingReceives DEF BridgeInv, PartsInv, LinkInv
  <1>8. phase \in {"sumHigh", "sumLow"} => sum = sectorChecksum(op.data)
    BY <1>5 DEF BridgeInv, HostInv, SumInv
  <1>. QED
    BY <1>2, <1>3, <1>4, <1>5, <1>6, <1>7, <1>8

\* What the engine makes of the byte that arrives.
LEMMA ArrivingTaken ==
  ASSUME BridgeInv, RequestRises
  PROVE  LET r == Receive(eng, toAvr, status)
             n == PutNext(op, phase, index)
         IN  /\ CallsStorage(eng, toAvr, status) =>
                  /\ status = Ok
                  /\ r \in Engines /\ r.track = op.track /\ r.sector = op.sector
                  /\ \/ /\ n.phase = "readStatus"
                        /\ StorageCall(r) = "read"
                     \/ /\ n.phase = "writeStatus"
                        /\ StorageCall(r) = "write"
                        /\ r.buffer = op.data
             /\ ~CallsStorage(eng, toAvr, status) =>
                  /\ n.phase # "writeStatus"
                  /\ n.phase \in PutPhases => Expects(op, n.phase, n.index, r, status)
                  /\ n.phase \in GetPhases =>
                       Answers(op, n.phase, n.index, sdBuffer, remoteHigh, r, status, disk)
PROOF
  <1>1. eng \in Engines /\ EngineInv(eng)
    BY EmuFacts DEF BridgeInv
  <1>. QED
    BY <1>1, ArrivingFacts, RequestByteTaken

\* PiaReceives and its failure leave the transport at its next byte.
LEMMA ReceivedKeepsParts ==
  ASSUME BridgeInv, RequestRises, ByteReceived, UNCHANGED <<host, wanted>>,
         NEW n, n = PutNext(op, phase, index),
         n.phase \in PutPhases => Expects(op, n.phase, n.index, eng', status'),
         n.phase \in GetPhases =>
           Answers(op, n.phase, n.index, sdBuffer, remoteHigh, eng', status', disk'),
         status' = Ok => disk' = IF n.phase = "writeStatus"
                                   THEN [wanted EXCEPT ![OffsetOf(op)] = op.data]
                                   ELSE wanted
  PROVE  PartsInv'
PROOF
  <1>1. /\ hostPc = "waitAck" /\ seen = {"consume"} /\ strobes = Lines
        /\ ~published /\ ~readyFlag /\ Talking
        /\ toAvr = ByteOf(op, phase, index, sum)
    BY ArrivingFacts
  <1>2. /\ seen' = seen \cup {"receive"} /\ ackFlag' = TRUE
        /\ Publish(eng', published, readyFlag)
        /\ UNCHANGED <<strobes, toAvr, hostPc, op, sum, byte, remoteHigh, sdBuffer, phase,
                       index, result, wanted>>
    BY DEF ByteReceived, host
  <1>3. seen' = Lines
    BY <1>1, <1>2, LineSets
  <1>4. /\ published' <=> ~Receiving(eng')
        /\ readyFlag' <=> ~Receiving(eng')
        /\ readyFlag' => toHost' = ResponseByte(eng')
    BY <1>1, <1>2 DEF Publish
  <1>5. Acked' = eng' /\ DuePhase' = n.phase /\ DueIndex' = n.index /\ Talking'
    BY <1>1, <1>2, <1>3 DEF Acked, DuePhase, DueIndex, Talking, Putting
  <1>6. LinkInv'
    BY <1>1, <1>2, <1>3, <1>4, LineSets DEF LinkInv
  <1>7. DialogueInv'
    BY <1>2, <1>5 DEF DialogueInv
  <1>8. VolumeInv'
    BY <1>2, <1>5 DEF BridgeInv, PartsInv, VolumeInv
  <1>9. EmuCallsAreExact'
    BY <1>1, <1>2 DEF EmuCallsAreExact
  <1>. QED
    BY <1>6, <1>7, <1>8, <1>9 DEF PartsInv

LEMMA ReceivesKeepsParts ==
  ASSUME BridgeInv, PiaReceives, UNCHANGED <<host, wanted>>
  PROVE  PartsInv'
PROOF
  <1>. DEFINE r == Receive(eng, toAvr, status)
              n == PutNext(op, phase, index)
  <1>1. RequestRises /\ ByteReceived /\ status' = status
    BY DEF PiaReceives
  <1>2. /\ CallsStorage(eng, toAvr, status) =>
             /\ status = Ok
             /\ r \in Engines /\ r.track = op.track /\ r.sector = op.sector
             /\ \/ n.phase = "readStatus" /\ StorageCall(r) = "read"
                \/ n.phase = "writeStatus" /\ StorageCall(r) = "write" /\ r.buffer = op.data
        /\ ~CallsStorage(eng, toAvr, status) =>
             /\ n.phase # "writeStatus"
             /\ n.phase \in PutPhases => Expects(op, n.phase, n.index, r, status)
             /\ n.phase \in GetPhases =>
                  Answers(op, n.phase, n.index, sdBuffer, remoteHigh, r, status, disk)
    BY <1>1, ArrivingTaken
  <1>3. status = Ok => disk = wanted
    <2>1. DuePhase # "writeStatus"
      BY <1>1, ArrivingFacts DEF DuePhase
    <2>. QED
      BY <2>1 DEF BridgeInv, PartsInv, VolumeInv
  <1>4. CASE CallsStorage(eng, toAvr, status)
    <2>1. FileAnswers(r)
      BY <1>4 DEF PiaReceives
    <2>2. CallOffset(r) = OffsetOf(op) /\ status = Ok /\ r \in Engines
      BY <1>2, <1>4 DEF CallOffset, OffsetOf
    <2>3. Answer(r, Ok).state = "Response" /\ StatusReply(Answer(r, Ok), Ok)
      BY <2>2 DEF Answer, StatusReply, Engines
    <2>. HIDE DEF r
    <2>4. CASE n.phase = "readStatus" /\ StorageCall(r) = "read"
      <3>1. eng' = ReadReply(r, disk[OffsetOf(op)]) /\ disk' = disk
        BY <2>1, <2>2, <2>4 DEF FileAnswers
      <3>. DEFINE data == disk[OffsetOf(op)]
      <3>2. eng'.state = "Response" /\ SectorReply(eng', 0, data)
        <4>. HIDE DEF data
        <4>1. ReadReply(r, data).state = "Response" /\ SectorReply(ReadReply(r, data), 0, data)
          BY <2>2 DEF ReadReply, Answer, SectorReply, Engines
        <4>. QED
          BY <3>1, <4>1 DEF data
      <3>3. Answers(op, n.phase, n.index, sdBuffer, remoteHigh, eng', status', disk')
        BY <1>1, <2>2, <2>4, <3>1, <3>2 DEF Answers
      <3>4. n.phase \notin PutPhases
        BY <2>4 DEF PutPhases
      <3>. HIDE DEF n
      <3>. QED
        BY <1>1, <1>3, <2>2, <2>4, <3>1, <3>3, <3>4, ReceivedKeepsParts DEF n
    <2>5. CASE n.phase = "writeStatus" /\ StorageCall(r) = "write" /\ r.buffer = op.data
      <3>1. /\ eng' = Answer(r, Ok)
            /\ disk' = [disk EXCEPT ![OffsetOf(op)] = op.data]
        BY <2>1, <2>2, <2>5 DEF FileAnswers
      <3>2. Answers(op, n.phase, n.index, sdBuffer, remoteHigh, eng', status', disk')
        BY <1>1, <2>2, <2>3, <2>5, <3>1 DEF Answers
      <3>3. n.phase \notin PutPhases
        BY <2>5 DEF PutPhases
      <3>. HIDE DEF n
      <3>. QED
        BY <1>1, <1>3, <2>2, <2>5, <3>1, <3>2, <3>3, ReceivedKeepsParts DEF n
    <2>. QED
      BY <1>2, <1>4, <2>4, <2>5 DEF r
  <1>5. CASE ~CallsStorage(eng, toAvr, status)
    <2>1. eng' = r /\ disk' = disk
      BY <1>5 DEF PiaReceives
    <2>. HIDE DEF r, n
    <2>. QED
      BY <1>1, <1>2, <1>3, <1>5, <2>1, ReceivedKeepsParts DEF n
  <1>. QED
    BY <1>4, <1>5

LEMMA FailureKeepsParts ==
  ASSUME BridgeInv, PiaFaults, UNCHANGED <<host, wanted>>
  PROVE  PartsInv'
PROOF
  <1>. DEFINE r == Receive(eng, toAvr, status)
              n == PutNext(op, phase, index)
  <1>1. PICK k \in 0 .. SectorBytes : PiaReceivesButFileFails(k)
    BY DEF PiaFaults
  <1>2. RequestRises /\ ByteReceived /\ CallsStorage(eng, toAvr, status) /\ FileFails(r, k)
    BY <1>1 DEF PiaReceivesButFileFails
  <1>3. r \in Engines /\ n.phase \in {"readStatus", "writeStatus"}
    BY <1>2, ArrivingTaken
  <1>. HIDE DEF r, n
  <1>4. status' = IoError /\ IoError # Ok
    BY <1>2 DEF FileFails, IoError, Ok
  <1>5. eng'.state = "Response" /\ StatusReply(eng', IoError)
    <2>. DEFINE x == Answer(r, IoError)
    <2>1. x.state = "Response" /\ StatusReply(x, IoError)
      BY <1>3 DEF Answer, StatusReply, Engines
    <2>2. ASSUME NEW b PROVE LET y == [x EXCEPT !.buffer = b]
                             IN  y.state = "Response" /\ StatusReply(y, IoError)
      BY <1>3 DEF Answer, StatusReply, Engines
    <2>. HIDE DEF x
    <2>3. eng' = IF StorageCall(r) = "read"
                   THEN [x EXCEPT !.buffer = Mixed(disk[CallOffset(r)], k, x.buffer)]
                   ELSE x
      BY <1>2 DEF FileFails, x
    <2>. QED
      BY <2>1, <2>2, <2>3
  <1>6. Answers(op, n.phase, n.index, sdBuffer, remoteHigh, eng', status', disk')
    BY <1>3, <1>4, <1>5 DEF Answers
  <1>7. n.phase \notin PutPhases
    BY <1>3 DEF PutPhases
  <1>. QED
    BY <1>2, <1>4, <1>6, <1>7, ReceivedKeepsParts DEF n

-----------------------------------------------------------------------------
(* Every step keeps the invariant.                                         *)

LEMMA BridgeInitInv == EmuBridgeInit => BridgeInv
PROOF
  <1>. SUFFICES ASSUME EmuBridgeInit PROVE BridgeInv
    OBVIOUS
  <1>1. HostInv /\ EmuInv
    BY InitHostInv, EmuInitInv DEF EmuBridgeInit
  <1>2. /\ hostPc = "idle" /\ result = NoResult /\ status = Ok /\ disk = wanted
        /\ strobes = Lines /\ seen = Lines /\ ~ackFlag /\ ~readyFlag /\ ~published
        /\ eng.state = "SyncA" /\ wanted \in Images
    BY EmulatorAssumption
       DEF EmuBridgeInit, InitHost, EmuInit, InitPia, InitWires, InitialEngine
  <1>3. LinkInv
    BY <1>2 DEF LinkInv, Receiving
  <1>4. DialogueInv /\ VolumeInv /\ EmuCallsAreExact
    BY <1>2 DEF DialogueInv, VolumeInv, EmuCallsAreExact, Acked, Talking, Putting, Getting
  <1>. QED
    BY <1>1, <1>3, <1>4 DEF BridgeInv, PartsInv

LEMMA HostStepKeepsEmuInv ==
  ASSUME BridgeInv, UNCHANGED <<pia, disk>>,
         \/ \E call \in Calls : HostCalls(call)
         \/ HostConfigures({}) \/ HostSettles \/ HostStrobes \/ HostReleases
         \/ HostAcked \/ HostGets \/ HostConsumes \/ HostTimesOut
  PROVE  EmuInv'
PROOF
  <1>1. EmuTypeOK /\ EngineInv(eng) /\ WiresTypeOK(Byte)
    BY DEF BridgeInv, EmuInv, EmuTypeOK
  <1>2. WiresTypeOK(Byte)'
    <2>1. CASE \E call \in Calls : HostCalls(call)
      BY <1>1, <2>1 DEF HostCalls, wires, WiresTypeOK
    <2>2. CASE HostConfigures({}) \/ HostSettles \/ HostStrobes
      BY <1>1, <2>2
         DEF HostConfigures, HostSettles, ClearsFlags, HostStrobes, WiresTypeOK
    <2>3. CASE HostReleases
      <3>1. OutgoingByte \in Byte
        BY <2>3, PuttingFacts DEF Putting, HostReleases
      <3>2. strobes \cup {"receive"} \in SUBSET Lines
        BY <1>1, LineSets DEF WiresTypeOK
      <3>. QED
        BY <1>1, <2>3, <3>1, <3>2 DEF HostReleases, WiresTypeOK
    <2>4. CASE HostAcked \/ HostGets \/ HostTimesOut
      BY <1>1, <2>4 DEF HostAcked, HostGets, HostTimesOut, wires, WiresTypeOK
    <2>5. CASE HostConsumes
      <3>1. strobes \cup {"consume"} \in SUBSET Lines
        BY <1>1, LineSets DEF WiresTypeOK
      <3>. QED
        BY <1>1, <2>5, <3>1 DEF HostConsumes, WiresTypeOK
    <2>. QED
      BY <2>1, <2>2, <2>3, <2>4, <2>5
  <1>. QED
    BY <1>1, <1>2 DEF EmuInv, EmuTypeOK, pia

\* The loops of SDSETTLE count; those of SDWAIT have nothing to count.
LEMMA WaitingKeepsInv ==
  ASSUME BridgeInv, EmuHostWaits
  PROVE  BridgeInv' /\ hostPc = "settle"
PROOF
  <1>1. /\ PiaIsDone /\ hostPc # "idle" /\ HostWaits /\ HostTick
        /\ UNCHANGED <<pia, disk, wires, hostPc, phase, index, op, sum, byte, remoteHigh,
                       sdBuffer, initialized, hostInit, configured, result, wanted>>
    BY DEF EmuHostWaits, emu
  <1>2. hostPc = "settle" /\ timer < SettleLimit /\ timer' = timer + 1
    BY <1>1, NeverWaits DEF HostWaits, HostTick
  <1>3. timer' \in 0 .. WaitLimit + SettleLimit
    BY <1>2, HostAssumption DEF BridgeInv, HostInv, HostTypeOK
  <1>4. HostInv'
    BY <1>1, <1>3
       DEF BridgeInv, HostInv, HostTypeOK, ScriptInv, SumInv, Talking, Putting, Getting
  <1>5. EmuInv'
    BY <1>1 DEF BridgeInv, EmuInv, EmuTypeOK, WiresTypeOK, pia, wires
  <1>6. PartsInv'
    BY <1>1, <1>2
       DEF BridgeInv, PartsInv, LinkInv, DialogueInv, VolumeInv, EmuCallsAreExact,
           Acked, DuePhase, DueIndex, Talking, Putting, Getting, pia, wires
  <1>. QED
    BY <1>2, <1>4, <1>5, <1>6 DEF BridgeInv

LEMMA BridgeNextInv == BridgeInv /\ [EmuBridgeNext]_emuBridge => BridgeInv'
PROOF
  <1>. SUFFICES ASSUME BridgeInv, [EmuBridgeNext]_emuBridge PROVE BridgeInv'
    OBVIOUS
  <1>1. HostInv /\ EmuInv /\ toHost \in Byte
    BY EmuFacts DEF BridgeInv
  <1>2. CASE EmuCall
    <2>1. PICK call \in Calls : HostCalls(call)
      BY <1>2, EmuBridgeAssumption DEF EmuCall
    <2>2. HostInv'
      BY <1>1, <2>1, HostCallsKeepsInv
    <2>3. EmuInv'
      BY <1>2, <2>1, HostStepKeepsEmuInv DEF EmuCall
    <2>. QED
      BY <1>2, <2>2, <2>3, EmuCallKeepsParts DEF BridgeInv
  <1>3. CASE EmuHostStep
    <2>1. PiaIsDone /\ UNCHANGED <<pia, disk>> /\ RememberWrite
      BY <1>3 DEF EmuHostStep
    <2>2. ~HostTimesOut
      BY <2>1, NeverWaits DEF HostTimesOut, WaitExpired
    <2>3. \/ HostConfigures({}) \/ HostSettles \/ HostStrobes \/ HostReleases
          \/ HostAcked \/ HostGets \/ HostConsumes
      BY <1>3, <2>2 DEF EmuHostStep
    <2>4. HostInv'
      BY <1>1, <2>3, SettlingKeepsInv, PuttingKeepsInv, GettingKeepsInv
    <2>5. EmuInv'
      BY <2>1, <2>3, HostStepKeepsEmuInv
    <2>6. PartsInv'
      BY <2>1, <2>3, EmuInitialisesKeepsParts, EmuPutsKeepsParts, EmuAckedKeepsParts,
         EmuGetsKeepsParts, EmuConsumesKeepsParts
    <2>. QED
      BY <2>4, <2>5, <2>6 DEF BridgeInv
  <1>4. ASSUME UNCHANGED host PROVE HostInv'
    BY <1>1, <1>4
       DEF host, HostInv, HostTypeOK, ScriptInv, SumInv, Talking, Putting, Getting
  <1>5. CASE EmuAnswers
    <2>1. PiaSteps /\ UNCHANGED host /\ UNCHANGED wanted
      BY <1>5 DEF EmuAnswers
    <2>2. EmuInv'
      BY <1>1, <2>1, EmuNextInv DEF EmuNext
    <2>3. ~PiaRejectsRequest
      BY ArrivingFacts DEF PiaRejectsRequest
    <2>4. PartsInv'
      BY <2>1, <2>3, ReceivesKeepsParts, ConsumesKeepsParts, SeesFallKeepsParts DEF PiaSteps
    <2>. QED
      BY <1>4, <2>1, <2>2, <2>4 DEF BridgeInv
  <1>6. CASE EmuFails
    <2>1. PiaFaults /\ UNCHANGED host /\ UNCHANGED wanted
      BY <1>6 DEF EmuFails
    <2>2. EmuInv'
      BY <1>1, <2>1, EmuNextInv DEF EmuNext
    <2>3. PartsInv'
      BY <2>1, FailureKeepsParts
    <2>. QED
      BY <1>4, <2>1, <2>2, <2>3 DEF BridgeInv
  <1>7. CASE EmuHostWaits
    BY <1>7, WaitingKeepsInv
  <1>8. CASE UNCHANGED emuBridge
    <2>1. /\ UNCHANGED host
          /\ UNCHANGED <<seen, eng, published, status, disk, wanted>>
          /\ UNCHANGED <<strobes, ready, ackFlag, readyFlag, toAvr, toHost>>
      BY <1>8 DEF emuBridge, emu, pia, wires
    <2>2. EmuInv'
      BY <1>1, <2>1 DEF EmuInv, EmuTypeOK, WiresTypeOK
    <2>3. PartsInv'
      BY <2>1
         DEF BridgeInv, PartsInv, LinkInv, DialogueInv, VolumeInv, EmuCallsAreExact,
             Acked, DuePhase, DueIndex, Talking, Putting, Getting, host
    <2>. QED
      BY <1>4, <2>1, <2>2, <2>3 DEF BridgeInv
  <1>. QED
    BY <1>2, <1>3, <1>5, <1>6, <1>7, <1>8 DEF EmuBridgeNext

LEMMA BridgeInvariant == EmuBridgeSpec => []BridgeInv
PROOF
  BY BridgeInitInv, BridgeNextInv, PTL DEF EmuBridgeSpec

-----------------------------------------------------------------------------
(* The theorems.                                                           *)

\* In the emulator a call of FLEX fails exactly when its address is bad or the
\* image file has failed, and a READ that succeeds returns what the last
\* successful WRITE of that sector stored (EmuCallsAreExact): for every
\* geometry, every sequence of calls and every moment and extent of a failure.
THEOREM EmulatedCallsAreExact == EmuBridgeSpec => []EmuCallsAreExact
PROOF
  <1>1. BridgeInv => EmuCallsAreExact
    BY DEF BridgeInv, PartsInv
  <1>. QED
    BY <1>1, BridgeInvariant, PTL

\* The transport never counts in SDWAIT on the emulator (EmuNeverTimesOut): its
\* flag is set in the instruction that raised the strobe.
THEOREM EmulatedTransportNeverWaits == EmuBridgeSpec => EmuNeverTimesOut
PROOF
  <1>. DEFINE A == HostWaits /\ hostPc # "idle" /\ timer' > timer => hostPc = "settle"
  <1>1. BridgeInv /\ [EmuBridgeNext]_emuBridge => [A]_emuBridge
    <2>. SUFFICES ASSUME BridgeInv, EmuBridgeNext, HostWaits, hostPc # "idle", timer' > timer
                  PROVE  hostPc = "settle"
      OBVIOUS
    <2>1. timer \in Nat
      BY HostAssumption DEF BridgeInv, HostInv, HostTypeOK
    <2>2. timer' # 0 /\ timer' # timer
      BY <2>1
    <2>3. ~EmuCall
      BY <2>2 DEF EmuCall, HostCalls
    <2>4. ASSUME EmuHostStep PROVE hostPc = "settle"
      BY <2>4, NeverWaits DEF EmuHostStep, HostWaits
    <2>5. ~EmuAnswers /\ ~EmuFails
      BY <2>2 DEF EmuAnswers, EmuFails, host
    <2>6. ASSUME EmuHostWaits PROVE hostPc = "settle"
      BY <2>6, WaitingKeepsInv
    <2>. QED
      BY <2>3, <2>4, <2>5, <2>6 DEF EmuBridgeNext
  <1>. QED
    BY <1>1, BridgeInvariant, PTL DEF EmuBridgeSpec, EmuNeverTimesOut

\* The same of a transport that talks to the emulator: the file changes only by
\* a WRITE request whose sum is right (FileChangesOnlyByWrite).
THEOREM OnlyCallsChangeTheFile == EmuBridgeSpec => FileChangesOnlyByWrite
PROOF
  <1>1. BridgeInv /\ [EmuBridgeNext]_emuBridge => [FileStepIsVerified]_emu
    <2>. SUFFICES ASSUME BridgeInv, [EmuBridgeNext]_emuBridge, disk' # disk
                  PROVE  FileStepIsVerified
      BY DEF FileStepIsVerified
    <2>1. ~EmuCall /\ ~EmuHostStep /\ ~EmuHostWaits
      BY DEF EmuCall, EmuHostStep, EmuHostWaits, emu
    <2>2. EmuAnswers \/ EmuFails
      BY <2>1 DEF EmuBridgeNext, emuBridge, emu
    <2>3. EmuNext
      BY <2>2 DEF EmuAnswers, EmuFails, EmuNext
    <2>. QED
      BY <2>3, FileIsWrittenByRequests DEF BridgeInv
  <1>. QED
    BY <1>1, BridgeInvariant, PTL
       DEF EmuBridgeSpec, FileChangesOnlyByWrite, FileStepIsVerified

-----------------------------------------------------------------------------
(* The emulator is an SD volume.                                           *)

\* The writes that may still land.
Unsettled ==
  IF result = Pending /\ op.kind = "write" /\ ~BadCallAddress(op)
    THEN {[offset |-> OffsetOf(op), data |-> op.data]}
    ELSE {}

\* SdVolume's copies of the protocol's vocabulary.
LEMMA VolumeVocabulary ==
  /\ Volume!Ok = Ok /\ Volume!FailCode = FailCode /\ Volume!ChecksumCode = ChecksumCode
  /\ Volume!NoResult = NoResult /\ Volume!Pending = Pending
  /\ Volume!Buffers = Buffers /\ Volume!Calls = Calls
  /\ Volume!NoCall = NoCall /\ Volume!ZeroBuffer = ZeroBuffer
  /\ \A c : Volume!BadCallAddress(c) <=> BadCallAddress(c)
  /\ \A c : Volume!OffsetOf(c) = OffsetOf(c)
  /\ \A first, n, rest : Volume!Mixed(first, n, rest) = Mixed(first, n, rest)
PROOF
  <1>1. /\ Volume!Ok = Ok /\ Volume!FailCode = FailCode /\ Volume!ChecksumCode = ChecksumCode
        /\ Volume!NoResult = NoResult /\ Volume!Pending = Pending
    BY DEF Volume!Ok, Volume!FailCode, Volume!ChecksumCode, Volume!NoResult, Volume!Pending,
           Ok, FailCode, ChecksumCode, NoResult, Pending
  <1>2. /\ Volume!Buffers = Buffers /\ Volume!Calls = Calls
        /\ Volume!NoCall = NoCall /\ Volume!ZeroBuffer = ZeroBuffer
    BY DEF Volume!Buffers, Volume!Byte, Volume!Calls, Volume!Kinds, Volume!NoCall,
           Volume!ZeroBuffer, Buffers, Byte, Calls, Kinds, NoCall, ZeroBuffer
  <1>3. \A c : Volume!BadCallAddress(c) <=> BadCallAddress(c)
    BY DEF Volume!BadCallAddress, Volume!validAddress, BadCallAddress, validAddress
  <1>4. \A c : Volume!OffsetOf(c) = OffsetOf(c)
    BY DEF Volume!OffsetOf, Volume!fileOffset, OffsetOf, fileOffset
  <1>5. \A first, n, rest : Volume!Mixed(first, n, rest) = Mixed(first, n, rest)
    BY DEF Volume!Mixed, Mixed
  <1>. QED
    BY <1>1, <1>2, <1>3, <1>4, <1>5

\* SdVolume's actions on the emulator's state.
LEMMA VolumeActions ==
  /\ Volume!Asks <=>
       /\ result # Pending
       /\ op' \in Calls
       /\ result' \in IF BadCallAddress(op') THEN {FailCode, Pending} ELSE {Pending}
       /\ Unsettled' = Unsettled \cup
                         (IF op'.kind = "write" /\ ~BadCallAddress(op')
                            THEN {[offset |-> OffsetOf(op'), data |-> op'.data]} ELSE {})
       /\ UNCHANGED <<disk, sdBuffer>>
  /\ \A w, n : Volume!Lands(w, n) <=>
       /\ w \in Unsettled
       /\ disk' = [disk EXCEPT ![w.offset] = Mixed(w.data, n, @)]
       /\ UNCHANGED <<op, result, sdBuffer, Unsettled>>
  /\ Volume!Fills <=>
       /\ result = Pending
       /\ op.kind = "read"
       /\ sdBuffer' \in Buffers
       /\ UNCHANGED <<disk, op, result, Unsettled>>
  /\ Volume!Succeeds <=>
       /\ result = Pending
       /\ ~BadCallAddress(op)
       /\ op.kind = "write" => disk[OffsetOf(op)] = op.data
       /\ sdBuffer' = IF op.kind = "read" THEN disk[OffsetOf(op)] ELSE sdBuffer
       /\ result' = Ok
       /\ Unsettled' = {}
       /\ UNCHANGED <<disk, op>>
  /\ Volume!Fails <=>
       /\ result = Pending
       /\ result' \in IF op.kind = "read" THEN {FailCode, ChecksumCode} ELSE {FailCode}
       /\ Unsettled' \in SUBSET Unsettled
       /\ UNCHANGED <<disk, op, sdBuffer>>
PROOF
  <1>1. Volume!Asks <=>
          /\ result # Pending
          /\ op' \in Calls
          /\ result' \in IF BadCallAddress(op') THEN {FailCode, Pending} ELSE {Pending}
          /\ Unsettled' = Unsettled \cup
                            (IF op'.kind = "write" /\ ~BadCallAddress(op')
                               THEN {[offset |-> OffsetOf(op'), data |-> op'.data]} ELSE {})
          /\ UNCHANGED <<disk, sdBuffer>>
    BY VolumeVocabulary, Zenon DEF Volume!Asks, Volume!Attempted, Unsettled, OffsetOf
  <1>2. \A w, n : Volume!Lands(w, n) <=>
          /\ w \in Unsettled
          /\ disk' = [disk EXCEPT ![w.offset] = Mixed(w.data, n, @)]
          /\ UNCHANGED <<op, result, sdBuffer, Unsettled>>
    BY VolumeVocabulary, Zenon DEF Volume!Lands, Unsettled, OffsetOf
  <1>3. Volume!Fills <=>
          /\ result = Pending
          /\ op.kind = "read"
          /\ sdBuffer' \in Buffers
          /\ UNCHANGED <<disk, op, result, Unsettled>>
    BY VolumeVocabulary, Zenon DEF Volume!Fills, Unsettled, OffsetOf
  <1>4. Volume!Succeeds <=>
          /\ result = Pending
          /\ ~BadCallAddress(op)
          /\ op.kind = "write" => disk[OffsetOf(op)] = op.data
          /\ sdBuffer' = IF op.kind = "read" THEN disk[OffsetOf(op)] ELSE sdBuffer
          /\ result' = Ok
          /\ Unsettled' = {}
          /\ UNCHANGED <<disk, op>>
    BY VolumeVocabulary, Zenon DEF Volume!Succeeds, Unsettled, OffsetOf
  <1>5. Volume!Fails <=>
          /\ result = Pending
          /\ result' \in IF op.kind = "read" THEN {FailCode, ChecksumCode} ELSE {FailCode}
          /\ Unsettled' \in SUBSET Unsettled
          /\ UNCHANGED <<disk, op, sdBuffer>>
    BY VolumeVocabulary, Zenon DEF Volume!Fails, Unsettled, OffsetOf
  <1>. QED
    BY <1>1, <1>2, <1>3, <1>4, <1>5

\* A step that moves neither the file nor the call is no step of the volume.
LEMMA VolumeStutters ==
  ASSUME UNCHANGED <<disk, op, result, sdBuffer>>
  PROVE  UNCHANGED Volume!volumeVars
PROOF
  BY Zenon DEF Volume!volumeVars

\* The mapping of `unsettled' in EmuBridge, by name.
LEMMA VolumeNextIs ==
  Volume!VolumeNext <=>
    \/ Volume!Asks
    \/ \E w \in Unsettled, n \in 0 .. SectorBytes : Volume!Lands(w, n)
    \/ Volume!Fills
    \/ Volume!Succeeds
    \/ Volume!Fails
    \/ Volume!Restarts
PROOF
  BY Zenon DEF Volume!VolumeNext, Unsettled, OffsetOf

LEMMA VolumeInitially == EmuBridgeInit => Volume!VolumeInit
PROOF
  BY VolumeVocabulary, Codes
     DEF EmuBridgeInit, InitHost, EmuInit, InitPia, Volume!VolumeInit

LEMMA AskedIsVolumeStep ==
  ASSUME EmuCall, BridgeInv
  PROVE  Volume!Asks
PROOF
  <1>1. PICK call \in Calls : HostCalls(call)
    BY EmuBridgeAssumption DEF EmuCall
  <1>2. op' = call /\ hostPc = "idle" /\ UNCHANGED <<disk, sdBuffer>>
    BY <1>1 DEF EmuCall, HostCalls
  <1>3. result # Pending
    BY <1>2 DEF BridgeInv, HostInv
  <1>4. \/ result' = FailCode /\ BadCallAddress(call)
        \/ result' = Pending
    BY <1>1, HostCallsGoes
  <1>5. Unsettled = {}
    BY <1>3 DEF Unsettled
  <1>6. FailCode # Pending
    BY Codes
  <1>7. Unsettled' = Unsettled \cup
                      (IF op'.kind = "write" /\ ~BadCallAddress(op')
                         THEN {[offset |-> OffsetOf(op'), data |-> op'.data]} ELSE {})
    BY <1>2, <1>4, <1>5, <1>6 DEF Unsettled
  <1>. QED
    BY <1>2, <1>3, <1>4, <1>7, VolumeActions

\* A call whose address turns out to be bad when the PIA has been configured.
LEMMA SettledIsVolumeStep ==
  ASSUME BridgeInv, HostSettles, UNCHANGED disk
  PROVE  Volume!Fails \/ UNCHANGED Volume!volumeVars
PROOF
  <1>1. hostPc = "settle" /\ UNCHANGED <<op, sdBuffer>>
    BY DEF HostSettles
  <1>2. result = Pending
    BY <1>1 DEF BridgeInv, HostInv
  <1>3. CASE BadCallAddress(op)
    <2>1. result' = FailCode /\ Unsettled' = {}
      BY <1>1, <1>3, Codes DEF HostSettles, Return, Unsettled
    <2>. QED
      BY <1>1, <1>2, <2>1, VolumeActions
  <1>4. CASE ~BadCallAddress(op)
    <2>1. result' = result
      BY <1>4 DEF HostSettles, Goto
    <2>. QED
      BY <1>1, <2>1, VolumeStutters
  <1>. QED
    BY <1>3, <1>4

\* A byte of the reply fills the buffer, moves the script on, or ends the call.
LEMMA ConsumedIsVolumeStep ==
  ASSUME BridgeInv, PiaIsDone, HostConsumes, HostInv', UNCHANGED <<pia, disk>>
  PROVE  Volume!Fills \/ Volume!Succeeds \/ Volume!Fails \/ UNCHANGED Volume!volumeVars
PROOF
  <1>1. /\ hostPc = "consuming" /\ UNCHANGED op
        /\ eng \in Engines /\ disk \in Images /\ byte = ResponseByte(eng)
    BY EmuFacts DEF HostConsumes, BridgeInv, PartsInv, LinkInv
  <1>2. /\ op \in Calls /\ ~BadCallAddress(op) /\ result = Pending
        /\ DuePhase = phase /\ Talking
        /\ Answers(op, phase, index, sdBuffer, remoteHigh, eng, status, disk)
    BY <1>1, GettingFacts DEF Getting
  <1>3. \/ /\ result' = result
           /\ sdBuffer' # sdBuffer => op.kind = "read"
        \/ /\ result' = IF status = Ok THEN Ok ELSE FailCode
           /\ sdBuffer' = sdBuffer
           /\ op.kind = "write" /\ status = Ok => phase = "writeStatus"
           /\ op.kind = "read" /\ status = Ok => sdBuffer = disk[OffsetOf(op)]
    BY <1>1, <1>2, ReplyByteUsed DEF BridgeInv
  <1>4. CASE result' = result /\ sdBuffer' = sdBuffer
    BY <1>1, <1>4, VolumeStutters
  <1>5. CASE result' = result /\ sdBuffer' # sdBuffer
    <2>1. op.kind = "read" /\ sdBuffer' \in Buffers
      BY <1>2, <1>3, <1>5, Codes DEF HostInv, HostTypeOK
    <2>2. Unsettled' = Unsettled
      BY <1>1, <1>5 DEF Unsettled
    <2>. QED
      BY <1>1, <1>2, <1>5, <2>1, <2>2, VolumeActions
  <1>6. CASE result' # result
    <2>1. /\ result' = IF status = Ok THEN Ok ELSE FailCode
          /\ sdBuffer' = sdBuffer
          /\ op.kind = "write" /\ status = Ok => phase = "writeStatus"
          /\ op.kind = "read" /\ status = Ok => sdBuffer = disk[OffsetOf(op)]
      BY <1>3, <1>6
    <2>2. Unsettled' = {}
      BY <2>1, Codes DEF Unsettled
    <2>3. CASE status = Ok
      <3>1. ASSUME op.kind = "write" PROVE disk[OffsetOf(op)] = op.data
        <4>1. OffsetOf(op) \in Offsets
          BY <1>2, <3>1, CallInImage
        <4>2. disk = [wanted EXCEPT ![OffsetOf(op)] = op.data] /\ wanted \in Images
          BY <1>2, <2>1, <2>3, <3>1 DEF BridgeInv, PartsInv, VolumeInv
        <4>. QED
          BY <4>1, <4>2 DEF Images
      <3>2. sdBuffer' = IF op.kind = "read" THEN disk[OffsetOf(op)] ELSE sdBuffer
        BY <2>1, <2>3
      <3>3. result' = Ok
        BY <2>1, <2>3
      <3>. QED
        BY <1>1, <1>2, <2>2, <3>1, <3>2, <3>3, VolumeActions
    <2>4. CASE status # Ok
      <3>1. result' = FailCode
        BY <2>1, <2>4
      <3>2. Unsettled' \in SUBSET Unsettled
        BY <2>2
      <3>. QED
        BY <1>1, <1>2, <2>1, <3>1, <3>2, VolumeActions
    <2>. QED
      BY <2>3, <2>4
  <1>. QED
    BY <1>4, <1>5, <1>6

\* The byte that ends a WRITE request lands it, whole or torn.
LEMMA ArrivedIsVolumeStep ==
  ASSUME BridgeInv, UNCHANGED host,
         PiaReceives \/ \E n \in 0 .. SectorBytes : PiaReceivesButFileFails(n)
  PROVE  \/ \E w \in Unsettled, n \in 0 .. SectorBytes : Volume!Lands(w, n)
         \/ UNCHANGED Volume!volumeVars
PROOF
  <1>. DEFINE r == Receive(eng, toAvr, status)
              w == [offset |-> OffsetOf(op), data |-> op.data]
              n == PutNext(op, phase, index)
  <1>1. RequestRises /\ UNCHANGED <<op, result, sdBuffer>>
    BY DEF PiaReceives, PiaReceivesButFileFails, host
  <1>2. /\ op \in Calls /\ ~BadCallAddress(op) /\ Talking /\ result = Pending
        /\ Fits(op, phase) /\ phase \in PutPhases /\ op.kind \in Kinds
        /\ index \in 0 .. LastIndex(phase)
    BY <1>1, ArrivingFacts, PuttingFacts DEF Putting
  <1>3. Unsettled' = Unsettled
    BY <1>1, Zenon DEF Unsettled
  <1>4. Fits(op, n.phase)
    BY <1>2, PutNextFits
  <1>5. CallsStorage(eng, toAvr, status) =>
          /\ r \in Engines /\ r.track = op.track /\ r.sector = op.sector
          /\ \/ n.phase = "readStatus" /\ StorageCall(r) = "read"
             \/ n.phase = "writeStatus" /\ StorageCall(r) = "write" /\ r.buffer = op.data
    BY <1>1, ArrivingTaken
  <1>6. CASE disk' = disk
    BY <1>1, <1>6, VolumeStutters
  <1>7. CASE disk' # disk
    <2>. HIDE DEF r, n
    <2>1. CallsStorage(eng, toAvr, status) /\ StorageCall(r) = "write"
          /\ \E k \in 0 .. SectorBytes :
               disk' = [disk EXCEPT ![CallOffset(r)] = Mixed(r.buffer, k, @)]
      <3>1. CASE PiaReceives
        <4>1. CallsStorage(eng, toAvr, status) /\ FileAnswers(r)
          BY <1>7, <3>1 DEF PiaReceives, r
        <4>2. StorageCall(r) = "write"
          BY <1>5, <1>7, <4>1 DEF FileAnswers
        <4>3. disk' = [disk EXCEPT ![CallOffset(r)] = r.buffer]
          BY <4>1, <4>2 DEF FileAnswers
        <4>4. r.buffer \in Buffers
          BY <1>5, <4>1 DEF Engines
        <4>5. Mixed(r.buffer, SectorBytes, disk[CallOffset(r)]) = r.buffer
          BY <4>4, GeometryAssumption DEF Mixed, Buffers
        <4>6. SectorBytes \in 0 .. SectorBytes
          BY GeometryAssumption
        <4>. QED
          BY <4>1, <4>2, <4>3, <4>5, <4>6
      <3>2. CASE \E k \in 0 .. SectorBytes : PiaReceivesButFileFails(k)
        <4>1. PICK k \in 0 .. SectorBytes : PiaReceivesButFileFails(k)
          BY <3>2
        <4>2. CallsStorage(eng, toAvr, status) /\ FileFails(r, k)
          BY <4>1 DEF PiaReceivesButFileFails, r
        <4>. QED
          BY <1>7, <4>2 DEF FileFails
      <3>. QED
        BY <3>1, <3>2
    <2>2. PICK k \in 0 .. SectorBytes :
            disk' = [disk EXCEPT ![CallOffset(r)] = Mixed(r.buffer, k, @)]
      BY <2>1
    <2>3. n.phase = "writeStatus" /\ r.buffer = op.data /\ CallOffset(r) = OffsetOf(op)
      BY <1>5, <2>1 DEF CallOffset, OffsetOf
    <2>4. op.kind = "write"
      BY <1>4, <2>3 DEF Fits, WritePhases
    <2>5. w \in Unsettled
      BY <1>2, <2>4 DEF Unsettled
    <2>6. disk' = [disk EXCEPT ![w.offset] = Mixed(w.data, k, @)]
      BY <2>2, <2>3
    <2>7. Volume!Lands(w, k)
      <3>. HIDE DEF w
      <3>. QED
        BY <1>1, <1>3, <2>5, <2>6, VolumeActions
    <2>. QED
      BY <2>5, <2>7
  <1>. QED
    BY <1>6, <1>7

LEMMA BridgeStepIsVolumeStep ==
  BridgeInv /\ BridgeInv' /\ [EmuBridgeNext]_emuBridge
    => [Volume!VolumeNext]_(Volume!volumeVars)
PROOF
  <1>. SUFFICES ASSUME BridgeInv, BridgeInv', [EmuBridgeNext]_emuBridge
                PROVE  Volume!VolumeNext \/ UNCHANGED Volume!volumeVars
    OBVIOUS
  <1>1. CASE EmuCall
    BY <1>1, AskedIsVolumeStep DEF Volume!VolumeNext
  <1>2. CASE EmuHostStep
    <2>1. PiaIsDone /\ UNCHANGED <<pia, disk>>
      BY <1>2 DEF EmuHostStep
    <2>2. ~HostTimesOut
      BY <2>1, NeverWaits DEF HostTimesOut, WaitExpired
    <2>3. CASE HostSettles
      BY <2>1, <2>3, SettledIsVolumeStep DEF Volume!VolumeNext
    <2>4. CASE HostConsumes
      BY <2>1, <2>4, ConsumedIsVolumeStep DEF BridgeInv, Volume!VolumeNext
    <2>5. CASE HostConfigures({}) \/ HostStrobes \/ HostReleases \/ HostGets
      <3>1. UNCHANGED <<disk, op, result, sdBuffer>>
        BY <2>1, <2>5 DEF HostConfigures, HostStrobes, HostReleases, HostGets
      <3>. QED
        BY <3>1, VolumeStutters
    <2>6. CASE HostAcked
      <3>1. Putting /\ UNCHANGED <<disk, op, sdBuffer>> /\ AfterPut
        BY <2>1, <2>6 DEF HostAcked, Putting
      <3>2. result' = result
        BY <3>1, PuttingFacts, AfterPutGoes DEF Goto
      <3>. QED
        BY <3>1, <3>2, VolumeStutters
    <2>. QED
      BY <1>2, <2>2, <2>3, <2>4, <2>5, <2>6 DEF EmuHostStep
  <1>3. CASE EmuAnswers
    <2>1. PiaSteps /\ UNCHANGED host
      BY <1>3 DEF EmuAnswers
    <2>2. ~PiaRejectsRequest
      BY ArrivingFacts DEF PiaRejectsRequest
    <2>3. CASE PiaReceives
      BY <2>1, <2>3, ArrivedIsVolumeStep, VolumeNextIs
    <2>4. CASE PiaConsumes \/ PiaSeesFall
      BY <2>1, <2>4, VolumeStutters DEF PiaConsumes, PiaSeesFall, host
    <2>. QED
      BY <2>1, <2>2, <2>3, <2>4 DEF PiaSteps
  <1>4. CASE EmuFails
    BY <1>4, ArrivedIsVolumeStep, VolumeNextIs
       DEF EmuFails, PiaFaults
  <1>5. CASE EmuHostWaits
    BY <1>5, VolumeStutters DEF EmuHostWaits, emu
  <1>6. CASE UNCHANGED emuBridge
    BY <1>6, VolumeStutters DEF emuBridge, emu, host
  <1>. QED
    BY <1>1, <1>2, <1>3, <1>4, <1>5, <1>6 DEF EmuBridgeNext

\* The emulator is an SD volume (SdVolume): between its call and its return a
\* WRITE may land, whole or, when the file fails, in part; when it has returned
\* nothing is left to land.
THEOREM EmulatorIsAVolume == EmuBridgeSpec => ImplementsVolume
PROOF
  <1>1. BridgeInv /\ BridgeInv' /\ [EmuBridgeNext]_emuBridge
          => [Volume!VolumeNext]_(Volume!volumeVars)
    BY BridgeStepIsVolumeStep
  <1>. QED
    BY <1>1, VolumeInitially, BridgeInvariant, PTL
       DEF EmuBridgeSpec, ImplementsVolume, Volume!VolumeSpec
=============================================================================
