------------------------------ MODULE SdEngine ------------------------------
(***************************************************************************)
(* sdbridge::Engine (sd_bridge/src/protocol.h): the request parser and     *)
(* reply generator of the bridge, as operators on an engine record.  The   *)
(* AVR firmware and the emulator's SD PIA both run this class, so it has   *)
(* no variables of its own.                                                *)
(*                                                                         *)
(* receive() is split where it calls storage: Receive does what happens    *)
(* before the call and StorageCall names the call the engine is left in;   *)
(* Answer and ReadReply finish it with what storage returned.              *)
(***************************************************************************)
EXTENDS SdProtocol

EngineStates == { "SyncA", "SyncB", "Opcode", "Track", "Sector",
                  "Payload", "ChecksumHigh", "ChecksumLow", "Response" }

Engines == [ state : EngineStates,
             command : Byte,
             track : Byte,
             sector : Byte,
             checksumHigh : Byte,
             received : 0 .. SectorBytes,
             outAt : 0 .. SectorBytes + 5,
             outSize : {0, 1, 6, SectorBytes + 3},
             checksum : Word,
             readReply : BOOLEAN,
             reply : [1 .. 6 -> Byte],
             buffer : Buffers ]

\* The engine is a static object: zeroed, then reset by its constructor.
InitialEngine == [ state |-> "SyncA",
                   command |-> 0,
                   track |-> 0,
                   sector |-> 0,
                   checksumHigh |-> 0,
                   received |-> 0,
                   outAt |-> 0,
                   outSize |-> 0,
                   checksum |-> 0,
                   readReply |-> FALSE,
                   reply |-> [n \in 1 .. 6 |-> 0],
                   buffer |-> [n \in 0 .. SectorBytes - 1 |-> 0] ]

\* reset() forgets the transaction and leaves the data of the last one.
EngineReset(e) == [ e EXCEPT !.state = "SyncA",
                             !.received = 0,
                             !.outAt = 0,
                             !.outSize = 0,
                             !.readReply = FALSE ]

Receiving(e) == e.state # "Response"
Active(e) == e.state # "SyncA"

Answer(e, status) == [ e EXCEPT !.reply = [@ EXCEPT ![1] = status],
                                !.outAt = 0,
                                !.outSize = 1,
                                !.readReply = FALSE,
                                !.state = "Response" ]

\* A successful READ: the sector, framed by its status and its checksum.
ReadReply(e, data) == [ Answer(e, Ok) EXCEPT !.buffer = data,
                                             !.checksum = sectorChecksum(data),
                                             !.readReply = TRUE,
                                             !.outSize = SectorBytes + 3 ]

\* responseByte(): the byte at outAt of the current reply.
ResponseByte(e) ==
  CASE ~e.readReply \/ e.outAt = 0 -> e.reply[e.outAt + 1]
    [] e.readReply /\ e.outAt \in 1 .. SectorBytes -> e.buffer[e.outAt - 1]
    [] e.readReply /\ e.outAt = SectorBytes + 1 -> HighByte(e.checksum)
    [] e.readReply /\ e.outAt > SectorBytes + 1 -> LowByte(e.checksum)

AcknowledgeResponse(e) ==
  CASE Receiving(e) -> e
    [] ~Receiving(e) /\ e.outAt + 1 = e.outSize -> EngineReset(e)
    [] OTHER -> [e EXCEPT !.outAt = @ + 1]

-----------------------------------------------------------------------------

\* SdStorage refuses a call on a storage that is not Ok, or past the image.
StorageRefusal(track, sector, status) ==
  CASE status # Ok -> status
    [] status = Ok /\ fileOffset(track, sector) > ImageBytes - SectorBytes
         -> BadAddress
    [] OTHER -> Ok

\* The storage call an engine waits in, in the state it had when it called.
StorageCall(e) ==
  CASE e.state = "ChecksumLow" -> "write"
    [] e.state = "Sector" /\ e.command = CommandRead -> "read"
    [] OTHER -> "sync"

\* read() and write(): go on waiting for the card, or refuse at once.
SectorCall(e, status) ==
  LET refusal == StorageRefusal(e.track, e.sector, status)
  IN  IF refusal = Ok THEN e ELSE Answer(e, refusal)

\* The WRITE branch of dispatch().
StartPayload(e) == [e EXCEPT !.received = 0, !.checksum = 0, !.state = "Payload"]

\* dispatch(), up to the storage call.  `status` is storage_.status().
Dispatch(e, status) ==
  CASE e.command \notin {CommandRead, CommandWrite} /\ (e.track # 0 \/ e.sector # 0)
         -> Answer(e, BadAddress)
    [] e.command = CommandInfo /\ e.track = 0 /\ e.sector = 0
         -> [Answer(e, Ok) EXCEPT !.reply = InfoReply, !.outSize = 6]
    [] e.command = CommandStatus /\ e.track = 0 /\ e.sector = 0
         -> Answer(e, status)
    [] e.command = CommandRead
         -> IF ~validAddress(e.track, e.sector)
              THEN Answer(e, BadAddress)
              ELSE SectorCall(e, status)
    [] e.command = CommandWrite -> StartPayload(e)
    [] e.command = CommandSync /\ e.track = 0 /\ e.sector = 0
         -> IF status = Ok THEN e ELSE Answer(e, status)
    [] OTHER -> Answer(e, BadCommand)

\* Mutant: the end of the payload is noticed one byte late.
PayloadByteOneTooMany(e, value) ==
  [e EXCEPT !.buffer = [@ EXCEPT ![e.received] = value],
            !.received = @ + 1,
            !.checksum = Add16(@, value),
            !.state = IF e.received = SectorBytes THEN "ChecksumHigh" ELSE "Payload"]

\* One byte of a WRITE payload, stored and summed.
PayloadByte(e, value) ==
  [e EXCEPT !.buffer = [@ EXCEPT ![e.received] = value],
            !.received = @ + 1,
            !.checksum = Add16(@, value),
            !.state = IF e.received + 1 = SectorBytes THEN "ChecksumHigh" ELSE "Payload"]

\* Mutant: only the high byte of the checksum is compared.
FinishPayloadHalfChecked(e, low, status) ==
  CASE ~validAddress(e.track, e.sector) -> Answer(e, BadAddress)
    [] validAddress(e.track, e.sector) /\ HighByte(e.checksum) # e.checksumHigh
         -> Answer(e, BadChecksum)
    [] OTHER -> SectorCall(e, status)

\* The end of a WRITE request, up to the storage call.
FinishPayload(e, low, status) ==
  CASE ~validAddress(e.track, e.sector) -> Answer(e, BadAddress)
    [] validAddress(e.track, e.sector) /\ e.checksum # 256 * e.checksumHigh + low
         -> Answer(e, BadChecksum)
    [] OTHER -> SectorCall(e, status)

\* receive(), up to the storage call; only called while Receiving(e).
Receive(e, value, status) ==
  CASE e.state = "SyncA" ->
         IF value = SyncFirst THEN [e EXCEPT !.state = "SyncB"] ELSE e
    [] e.state = "SyncB" ->
         [e EXCEPT !.state = CASE value = SyncSecond -> "Opcode"
                               [] value = SyncFirst -> "SyncB"
                               [] OTHER -> "SyncA"]
    [] e.state = "Opcode" -> [e EXCEPT !.command = value, !.state = "Track"]
    [] e.state = "Track" -> [e EXCEPT !.track = value, !.state = "Sector"]
    [] e.state = "Sector" -> Dispatch([e EXCEPT !.sector = value], status)
    [] e.state = "Payload" -> PayloadByte(e, value)
    [] e.state = "ChecksumHigh" ->
         [e EXCEPT !.checksumHigh = value, !.state = "ChecksumLow"]
    [] e.state = "ChecksumLow" -> FinishPayload(e, value, status)

\* Whether Receive(e, value, status) ended in a storage call: only then do
\* the last byte of a header and the last byte of a payload leave the state.
CallsStorage(e, value, status) ==
  /\ e.state \in {"Sector", "ChecksumLow"}
  /\ Receive(e, value, status).state = e.state

=============================================================================
