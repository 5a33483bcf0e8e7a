------------------------------ MODULE EmuSdPia ------------------------------
(***************************************************************************)
(* The emulator's SD bridge (emu/src/devices/sdBridgePia.cpp): a 6821 with *)
(* the firmware's request engine and an image file behind it.  It takes    *)
(* the place of the AVR on the wires.  A write to CRA or CRB that raises a *)
(* strobe is answered before the write returns: the byte is received, the  *)
(* file is read or written, the flag is set and the reply is published.    *)
(*                                                                         *)
(* Of the registers only what the wires tell is kept: a strobe is high     *)
(* when bits 3-5 of its control register are 111 and low when they are     *)
(* 110, U2 is PA and U3 is PB.  There is no line CB1 to hold: `ready' is   *)
(* always low.                                                             *)
(***************************************************************************)
EXTENDS SdEngine, SdWires

CONSTANTS InitialImage,  \* the image file when the emulator starts
          WireBytes      \* the bytes an arbitrary program writes to PA

ASSUME EmulatorAssumption == InitialImage \in Images /\ WireBytes \subseteq Byte

VARIABLES seen,       \* the strobes that were high after the last write
          eng,        \* engine_
          published,  \* published_
          status,     \* SdImageStorage::status_
          disk        \* the sectors of the image file, by offset

pia == <<seen, eng, published, status>>
emu == <<pia, disk, wires>>

EmuTypeOK ==
  /\ WiresTypeOK(Byte)
  /\ seen \in SUBSET Lines
  /\ eng \in Engines
  /\ published \in BOOLEAN
  /\ status \in {Ok, IoError}
  /\ disk \in Images

\* The image has been opened: a missing or odd-sized one stops the emulator.
InitPia ==
  /\ seen = Lines
  /\ eng = InitialEngine
  /\ published = FALSE
  /\ status = Ok
  /\ disk = InitialImage

-----------------------------------------------------------------------------
(* out().                                                                  *)

\* publish(), for an engine e, from held = published_ and flag = ready_flag_.
Publish(e, held, flag) ==
  IF ~held /\ ~Receiving(e)
    THEN published' = TRUE /\ readyFlag' = TRUE /\ toHost' = ResponseByte(e)
    ELSE published' = held /\ readyFlag' = flag /\ UNCHANGED toHost

\* Mutant: the file is not sought.
CallOffsetUnsought(e) == 0

CallOffset(e) == fileOffset(e.track, e.sector)

\* An engine that called storage, answered by the file.
FileAnswers(e) ==
  CASE StorageCall(e) = "read" ->
         eng' = ReadReply(e, disk[CallOffset(e)]) /\ UNCHANGED disk
    [] StorageCall(e) = "write" ->
         /\ eng' = Answer(e, Ok)
         /\ disk' = [disk EXCEPT ![CallOffset(e)] = e.buffer]
    [] StorageCall(e) = "sync" ->
         eng' = Answer(e, Ok) /\ UNCHANGED disk

\* fail(): the file could not be sought, read, written or flushed.
FileFails(e, n) ==
  /\ status' = IoError
  /\ eng' = IF StorageCall(e) = "read"
              THEN [Answer(e, IoError) EXCEPT
                      !.buffer = Mixed(disk[CallOffset(e)], n, @)]
              ELSE Answer(e, IoError)
  /\ disk' = IF StorageCall(e) = "write"
               THEN [disk EXCEPT ![CallOffset(e)] = Mixed(e.buffer, n, @)]
               ELSE disk

RequestRises == "receive" \in strobes \ seen

\* out(1): what every received byte does besides.
ByteReceived ==
  /\ seen' = seen \cup {"receive"}
  /\ ackFlag' = TRUE
  /\ Publish(eng', published, readyFlag)
  /\ UNCHANGED <<strobes, ready, toAvr>>

\* A byte that interrupts a response resets the engine and is lost.
PiaRejectsRequest ==
  /\ RequestRises
  /\ ~Receiving(eng)
  /\ eng' = EngineReset(eng)
  /\ ByteReceived
  /\ UNCHANGED <<status, disk>>

\* Mutant: the file is written when the payload is complete, before the
\* checksum has come.
PiaReceivesWritesEarly ==
  /\ RequestRises
  /\ Receiving(eng)
  /\ LET e == Receive(eng, toAvr, status)
     IN  CASE CallsStorage(eng, toAvr, status) -> FileAnswers(e)
           [] e.state = "ChecksumHigh" ->
                /\ eng' = e
                /\ disk' = [disk EXCEPT ![CallOffset(e)] = e.buffer]
           [] OTHER -> eng' = e /\ UNCHANGED disk
  /\ ByteReceived
  /\ UNCHANGED status

PiaReceives ==
  /\ RequestRises
  /\ Receiving(eng)
  /\ LET e == Receive(eng, toAvr, status)
     IN  IF CallsStorage(eng, toAvr, status)
           THEN FileAnswers(e)
           ELSE eng' = e /\ UNCHANGED disk
  /\ ByteReceived
  /\ UNCHANGED status

PiaReceivesButFileFails(n) ==
  /\ RequestRises
  /\ Receiving(eng)
  /\ CallsStorage(eng, toAvr, status)
  /\ FileFails(Receive(eng, toAvr, status), n)
  /\ ByteReceived

\* Mutant: published_ is not cleared before the next byte is published.
PiaConsumesStillPublished ==
  /\ "consume" \in strobes \ seen
  /\ seen' = seen \cup {"consume"}
  /\ IF published
       THEN /\ eng' = AcknowledgeResponse(eng)
            /\ Publish(eng', published, FALSE)
       ELSE UNCHANGED <<eng, published, readyFlag, toHost>>
  /\ UNCHANGED <<status, disk, strobes, ready, ackFlag, toAvr>>

\* out(3)
PiaConsumes ==
  /\ "consume" \in strobes \ seen
  /\ seen' = seen \cup {"consume"}
  /\ IF published
       THEN /\ eng' = AcknowledgeResponse(eng)
            /\ Publish(eng', FALSE, FALSE)
       ELSE UNCHANGED <<eng, published, readyFlag, toHost>>
  /\ UNCHANGED <<status, disk, strobes, ready, ackFlag, toAvr>>

\* A falling strobe only changes the control register.
PiaSeesFall ==
  /\ seen \ strobes # {}
  /\ seen' = seen \cap strobes
  /\ UNCHANGED <<eng, published, status, disk, wires>>

PiaSteps == PiaRejectsRequest \/ PiaReceives \/ PiaConsumes \/ PiaSeesFall

PiaFaults == \E n \in 0 .. SectorBytes : PiaReceivesButFileFails(n)

\* The write that moved a strobe has returned.
PiaIsDone == seen = strobes

-----------------------------------------------------------------------------
(* An arbitrary program moves a strobe or reads PA or PB, which clears the *)
(* flag of that side (in), and goes on when the access has returned.       *)

ArbitraryProgram ==
  /\ PiaIsDone
  /\ \E line \in Lines : strobes' \in {strobes, strobes \ {line}, strobes \cup {line}}
  /\ IF "receive" \in strobes' \ strobes THEN toAvr' \in WireBytes ELSE UNCHANGED toAvr
  /\ ackFlag' \in {ackFlag, FALSE}
  /\ readyFlag' \in {readyFlag, FALSE}
  /\ UNCHANGED <<pia, disk, ready, toHost>>

EmuInit == InitPia /\ InitWires

EmuNext == PiaSteps \/ PiaFaults \/ ArbitraryProgram

EmuSpec == EmuInit /\ [][EmuNext]_emu

-----------------------------------------------------------------------------
(* What holds, or should, whatever the program does.                       *)

\* The image file changes only in the sector of a WRITE request, and only when
\* the last byte of that request completes the sum of the staged payload, also
\* when the file fails (sd/PROTOCOL.md, "No card write occurs on BAD_CHECKSUM").
FileChangesOnlyByWrite ==
  [][\A offset \in Offsets : disk'[offset] # disk[offset] =>
       /\ RequestRises
       /\ eng.state = "ChecksumLow"
       /\ eng.command = CommandWrite
       /\ status = Ok
       /\ validAddress(eng.track, eng.sector)
       /\ offset = CallOffset(eng)
       /\ 256 * eng.checksumHigh + toAvr = sectorChecksum(eng.buffer)]_emu

\* When a request has been answered, CRB bit 7 is set and PB holds the first
\* byte of the reply (sd/PROTOCOL.md, "AVR sends a byte").
ReplyIsAnnounced ==
  [][Receiving(eng) /\ ~Receiving(eng') =>
       readyFlag' /\ toHost' = ResponseByte(eng')]_emu

=============================================================================
