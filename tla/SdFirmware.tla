----------------------------- MODULE SdFirmware -----------------------------
(***************************************************************************)
(* The AVR firmware of the SD bridge: the pin-change interrupt             *)
(* (sd_bridge.ino), the main loop Link::poll (link.h) around the request   *)
(* engine (protocol.h), and the image on the SD card (sd_storage.h).       *)
(*                                                                         *)
(* The interrupt may run between any two steps of the main loop.  The main *)
(* loop is cut where its effects can be told apart from outside: taking    *)
(* the events and the byte, the storage call (which blocks), the           *)
(* acknowledge pulse, and publishing the next reply byte.                  *)
(*                                                                         *)
(* In this module the host is arbitrary: it moves its strobe lines, clocks *)
(* bytes into U2 and reads the PIA flags as it likes, and time passes at   *)
(* any moment.  What holds here holds whatever runs on the C68.            *)
(***************************************************************************)
EXTENDS SdEngine, SdWires

CONSTANTS LinkTimeout,   \* LinkTimeoutMs, in ticks
          InitialImage,  \* FLEX.DSK at power-up
          MountOutcomes, \* what SdStorage::begin() may find
          WireBytes      \* the bytes an arbitrary host clocks into U2

ASSUME FirmwareAssumption ==
  /\ LinkTimeout \in Nat
  /\ InitialImage \in Images
  /\ MountOutcomes \subseteq MountStatuses
  /\ WireBytes \subseteq Byte

VARIABLES main,             \* where the main program is
          pinChange,        \* PCIF1: a pin changed since the interrupt last ran
          previousControl,  \* the strobe lines the interrupt last saw high
          events,           \* board::events
          eng,              \* the Engine
          published,        \* Link::published_
          quiet,            \* ticks since Link::lastProgress_, capped
          status,           \* SdStorage::status_
          disk              \* the sectors of FLEX.DSK, by file offset

avr == <<main, pinChange, previousControl, events, eng, published, quiet, status>>
vars == <<avr, disk, wires>>

MainStates == {"reset", "mount", "poll", "receive", "storage", "acknowledge", "publish"}
Events == Lines \cup {"overrun"}

FirmwareTypeOK ==
  /\ main \in MainStates
  /\ pinChange \in BOOLEAN
  /\ previousControl \in SUBSET Lines
  /\ events \in SUBSET Events
  /\ eng \in Engines
  /\ published \in BOOLEAN
  /\ quiet \in 0 .. LinkTimeout + 1
  /\ status \in StorageStatuses
  /\ disk \in Images

TypeOK == FirmwareTypeOK /\ WiresTypeOK(Byte)

\* Power-up.  SdStorage is constructed with NoCard.
InitFirmware ==
  /\ main = "reset"
  /\ pinChange = FALSE
  /\ previousControl = {}
  /\ events = {}
  /\ eng = InitialEngine
  /\ published = FALSE
  /\ quiet = 0
  /\ status = NoCard
  /\ disk = InitialImage

-----------------------------------------------------------------------------
(* The interrupt.                                                          *)

\* ISR(PCINT1_vect): the lines that rose since the last interrupt; an event
\* that is still pending marks the batch as overrun.
PinChangeInterrupt ==
  /\ main # "reset"
  /\ pinChange
  /\ LET pending == strobes \ previousControl
     IN  events' = events \cup pending
                     \cup (IF events \cap pending # {} THEN {"overrun"} ELSE {})
  /\ previousControl' = strobes
  /\ pinChange' = FALSE
  /\ UNCHANGED <<main, eng, published, quiet, status, disk, wires>>

-----------------------------------------------------------------------------
(* setup().                                                                *)

\* board::init(): interrupts are enabled before the card is mounted.
BoardInit ==
  /\ main = "reset"
  /\ main' = "mount"
  /\ previousControl' = strobes
  /\ events' = {}
  /\ pinChange' = FALSE
  /\ UNCHANGED <<eng, published, quiet, status, disk, wires>>

\* Mutant: io_.idle() is left out.
RecoverLeavesReady ==
  /\ ready' = ready
  /\ eng' = EngineReset(eng)
  /\ published' = FALSE
  /\ quiet' = 0

\* Mutant: only a response is given up, a request that has begun goes on.
RecoverKeepsRequest ==
  /\ ready' = FALSE
  /\ eng' = IF Receiving(eng) THEN eng ELSE EngineReset(eng)
  /\ published' = FALSE
  /\ quiet' = 0

\* Link::recover()
Recover ==
  /\ ready' = FALSE
  /\ eng' = EngineReset(eng)
  /\ published' = FALSE
  /\ quiet' = 0

\* SdStorage::begin(), then Link::begin().
Mount(outcome) ==
  /\ main = "mount"
  /\ status' = outcome
  /\ Recover
  /\ main' = "poll"
  /\ UNCHANGED <<pinChange, previousControl, events, disk,
                 strobes, ackFlag, readyFlag, toAvr, toHost>>

-----------------------------------------------------------------------------
(* loop(): one call of Link::poll with the events taken from the interrupt. *)

Unexpected == "overrun" \in events \/ ("consume" \in events /\ ~published)

PollRejectsEvents ==
  /\ main = "poll"
  /\ Unexpected
  /\ events' = {}
  /\ Recover
  /\ UNCHANGED <<main, pinChange, previousControl, status, disk,
                 strobes, ackFlag, readyFlag, toAvr, toHost>>

\* Mutant: a request that arrives with the last consume is forgotten.
AfterConsumeForgetful == "publish"

AfterConsume == IF "receive" \in events THEN "receive" ELSE "publish"

\* The host consumed the published byte; a request of the same batch is next.
PollConsumes ==
  /\ main = "poll"
  /\ "consume" \in events
  /\ ~Unexpected
  /\ events' = {}
  /\ ready' = FALSE
  /\ published' = FALSE
  /\ eng' = AcknowledgeResponse(eng)
  /\ quiet' = 0
  /\ main' = AfterConsume
  /\ UNCHANGED <<pinChange, previousControl, status, disk,
                 strobes, ackFlag, readyFlag, toAvr, toHost>>

\* Mutant: the request is taken before the response is finished.
TakesRequestFirst ==
  \/ main = "receive" /\ events' = events
  \/ main = "poll" /\ "receive" \in events /\ events' = events \ {"receive"}

\* Where the receive branch of poll starts, and the events it leaves.
TakesRequest ==
  \/ main = "receive" /\ events' = events
  \/ main = "poll" /\ events = {"receive"} /\ events' = {}

\* A request while a response is unfinished resets the link, unacknowledged.
PollRejectsRequest ==
  /\ TakesRequest
  /\ ~Receiving(eng)
  /\ Recover
  /\ main' = "poll"
  /\ UNCHANGED <<pinChange, previousControl, status, disk,
                 strobes, ackFlag, readyFlag, toAvr, toHost>>

PollReceives ==
  /\ TakesRequest
  /\ Receiving(eng)
  /\ eng' = Receive(eng, toAvr, status)
  /\ main' = IF CallsStorage(eng, toAvr, status) THEN "storage" ELSE "acknowledge"
  /\ UNCHANGED <<pinChange, previousControl, published, quiet, status, disk, wires>>

\* board::acknowledgeReceive(): CA1 rises and falls.
PollAcknowledges ==
  /\ main = "acknowledge"
  /\ ackFlag' = TRUE
  /\ quiet' = 0
  /\ main' = "publish"
  /\ UNCHANGED <<pinChange, previousControl, events, eng, published, status, disk,
                 strobes, ready, readyFlag, toAvr, toHost>>

PollPublishes ==
  /\ main = "publish"
  /\ ~published
  /\ ~Receiving(eng)
  /\ toHost' = ResponseByte(eng)
  /\ ready' = TRUE
  /\ readyFlag' = (readyFlag \/ ~ready)
  /\ published' = TRUE
  /\ quiet' = 0
  /\ main' = "poll"
  /\ UNCHANGED <<pinChange, previousControl, events, eng, status, disk,
                 strobes, ackFlag, toAvr>>

PollHasNothingToPublish ==
  /\ main = "publish"
  /\ published \/ Receiving(eng)
  /\ main' = "poll"
  /\ UNCHANGED <<pinChange, previousControl, events, eng, published, quiet,
                 status, disk, wires>>

\* Mutant: only a partial request times out.
LinkExpiredInRequest ==
  Active(eng) /\ Receiving(eng) /\ quiet > LinkTimeout

\* Two seconds without progress in a request or a response.
LinkExpired == Active(eng) /\ quiet > LinkTimeout

\* The check at the end of a poll that took no events.  One that arrives
\* between takeEvents() and the check stays pending.
PollTimesOut ==
  /\ main = "poll"
  /\ LinkExpired
  /\ Recover
  /\ UNCHANGED <<main, pinChange, previousControl, events, status, disk,
                 strobes, ackFlag, readyFlag, toAvr, toHost>>

-----------------------------------------------------------------------------
(* The storage call of an engine in "storage".                             *)

\* Mutant: the seek is left out.
EngineOffsetUnsought == 0

EngineOffset == fileOffset(eng.track, eng.sector)

StorageReads ==
  /\ main = "storage"
  /\ StorageCall(eng) = "read"
  /\ eng' = ReadReply(eng, disk[EngineOffset])
  /\ main' = "acknowledge"
  /\ UNCHANGED <<pinChange, previousControl, events, published, quiet, status,
                 disk, wires>>

StorageWrites ==
  /\ main = "storage"
  /\ StorageCall(eng) = "write"
  /\ disk' = [disk EXCEPT ![EngineOffset] = eng.buffer]
  /\ eng' = Answer(eng, Ok)
  /\ main' = "acknowledge"
  /\ UNCHANGED <<pinChange, previousControl, events, published, quiet, status, wires>>

StorageSyncs ==
  /\ main = "storage"
  /\ StorageCall(eng) = "sync"
  /\ eng' = Answer(eng, Ok)
  /\ main' = "acknowledge"
  /\ UNCHANGED <<pinChange, previousControl, events, published, quiet, status,
                 disk, wires>>

\* A write that does not complete may have reached any part of its sector.
TearsWrite(n) ==
  disk' = IF main = "storage" /\ StorageCall(eng) = "write"
            THEN [disk EXCEPT ![EngineOffset] = Mixed(eng.buffer, n, @)]
            ELSE disk

\* fail(): a seek, transfer or sync error latches IoError.  A read may have
\* filled part of the staging buffer.
StorageFails(n) ==
  /\ main = "storage"
  /\ status' = IoError
  /\ eng' = IF StorageCall(eng) = "read"
              THEN [Answer(eng, IoError) EXCEPT
                      !.buffer = Mixed(disk[EngineOffset], n, @)]
              ELSE Answer(eng, IoError)
  /\ TearsWrite(n)
  /\ main' = "acknowledge"
  /\ UNCHANGED <<pinChange, previousControl, events, published, quiet, wires>>

\* The AVR's reset input or a power dip: RAM is initialised again, the ports
\* become inputs, and a storage call is cut short.
AvrReset(n) ==
  /\ main # "reset"
  /\ TearsWrite(n)
  /\ main' = "reset"
  /\ pinChange' = FALSE
  /\ previousControl' = {}
  /\ events' = {}
  /\ eng' = InitialEngine
  /\ published' = FALSE
  /\ quiet' = 0
  /\ status' = NoCard
  /\ ready' = FALSE
  /\ UNCHANGED <<strobes, ackFlag, readyFlag, toAvr, toHost>>

-----------------------------------------------------------------------------
(* Time and the arbitrary host.                                            *)

QuietTick == quiet' = IF quiet > LinkTimeout THEN quiet ELSE quiet + 1

Tick ==
  /\ QuietTick
  /\ UNCHANGED <<main, pinChange, previousControl, events, eng, published,
                 status, disk, wires>>

\* The host moves its lines, which sets PCIF1; U2 is clocked when CA2 rises;
\* reading PA or PB clears the flag of that side.
ArbitraryHost ==
  /\ strobes' \in SUBSET Lines
  /\ IF "receive" \in strobes' \ strobes THEN toAvr' \in WireBytes ELSE UNCHANGED toAvr
  /\ ackFlag' \in {ackFlag, FALSE}
  /\ readyFlag' \in {readyFlag, FALSE}
  /\ pinChange' = (pinChange \/ strobes' # strobes)
  /\ UNCHANGED <<main, previousControl, events, eng, published, quiet, status, disk,
                 ready, toHost>>

-----------------------------------------------------------------------------

PollSteps ==
  \/ PollRejectsEvents
  \/ PollConsumes
  \/ PollRejectsRequest
  \/ PollReceives
  \/ PollAcknowledges
  \/ PollPublishes
  \/ PollHasNothingToPublish
  \/ PollTimesOut

StorageSteps == StorageReads \/ StorageWrites \/ StorageSyncs

AvrFaults == \E n \in 0 .. SectorBytes : StorageFails(n) \/ AvrReset(n)

AvrSteps ==
  \/ PinChangeInterrupt
  \/ BoardInit
  \/ \E outcome \in MountOutcomes : Mount(outcome)
  \/ PollSteps
  \/ StorageSteps

Init == InitFirmware /\ InitWires

Next == AvrSteps \/ AvrFaults \/ ArbitraryHost \/ Tick

Spec == Init /\ [][Next]_vars

-----------------------------------------------------------------------------
(* What holds whatever the host does.                                      *)

\* While CB1 is high, U3 holds the byte of the response that is due: the AVR
\* never replaces a byte the host has not consumed, and never leaves CB1 high
\* without one (sd/PROTOCOL.md, "never overwrites an unacknowledged byte").
HeldByte == ready => published /\ ~Receiving(eng) /\ toHost = ResponseByte(eng)

\* A write reaches storage only for a WRITE request, a valid address and a
\* mounted image, and only if the two checksum bytes on the wire are the sum
\* of the very buffer that is written: no sequence of aborted, interrupted or
\* malformed requests leaves a stale byte or a stale sum behind.
CommitIsVerified ==
  [][main # "storage" /\ main' = "storage" /\ StorageCall(eng') = "write" =>
       /\ eng.command = CommandWrite
       /\ validAddress(eng.track, eng.sector)
       /\ status = Ok
       /\ 256 * eng.checksumHigh + toAvr = sectorChecksum(eng'.buffer)]_vars

=============================================================================
