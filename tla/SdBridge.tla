------------------------------ MODULE SdBridge ------------------------------
(***************************************************************************)
(* The C68 and the AVR joined by the bridge's wires: SdHost and SdFirmware *)
(* over the same strobes, flags and latches, a clock they share, and the   *)
(* faults of either side.                                                  *)
(*                                                                         *)
(* A tick is about a second.  Everything a processor does without waiting  *)
(* takes microseconds, so time passes only when both processors wait: the  *)
(* host in SDWAIT, SDSETTLE or between calls, the AVR with nothing to do   *)
(* or blocked in the SD library.                                           *)
(***************************************************************************)
EXTENDS SdHost, SdFirmware

CONSTANTS OfferedCalls,  \* the calls FLEX may make
          MaxCalls,      \* how many calls it makes
          MountLimit,    \* the longest an AVR reset or a mount lasts, in ticks
          CallLimit,     \* the longest a storage call lasts, in ticks
          Faults,        \* the kinds of fault that may happen
          MaxFaults      \* how many do

FaultKinds == {"avrReset", "hostReset", "storageError", "stall", "missedEdge"}

ASSUME BridgeAssumption ==
  /\ OfferedCalls \subseteq Calls
  /\ MaxCalls \in Nat
  /\ MountLimit \in Nat
  /\ CallLimit \in Nat
  /\ Faults \subseteq FaultKinds
  /\ MaxFaults \in Nat

VARIABLES calls,    \* how many calls FLEX has made
          faults,   \* how many faults have happened
          blocked,  \* ticks the AVR has spent in the current mount or call
          stalled,  \* the 6800 is held between two instructions
          unsettled,    \* history: the WRITEs that no success has settled
          undisturbed   \* history: calls begun since the last fault, up to 2

clock == <<calls, faults, blocked, stalled>>
history == <<unsettled, undisturbed>>
bridge == <<host, avr, disk, wires, clock, history>>

BridgeInit ==
  /\ InitHost
  /\ InitFirmware
  /\ InitWires
  /\ calls = 0
  /\ faults = 0
  /\ blocked = 0
  /\ stalled = FALSE
  /\ unsettled = {}
  /\ undisturbed = 0

-----------------------------------------------------------------------------
(* Composition: the host's pins interrupt the AVR, nothing else crosses.   *)

\* Mutant: only CA2 is in the interrupt's pin mask.
RequestPinReachesAvr ==
  /\ pinChange' = (pinChange \/ (("receive" \in strobes') # ("receive" \in strobes)))
  /\ UNCHANGED <<main, previousControl, events, eng, published, quiet, status, disk>>

PinsReachAvr ==
  /\ pinChange' = (pinChange \/ strobes' # strobes)
  /\ UNCHANGED <<main, previousControl, events, eng, published, quiet, status, disk>>

\* A WRITE of a valid address may land from its first byte on, until a call
\* succeeds.
RememberWrite(c) ==
  unsettled' = IF c.kind = "write" /\ ~BadCallAddress(c)
                 THEN unsettled \cup {[offset |-> fileOffset(c.track, c.sector),
                                      data |-> c.data]}
                 ELSE unsettled

SettleWrites == unsettled' = IF result' = Ok THEN {} ELSE unsettled

Call ==
  /\ ~stalled
  /\ calls < MaxCalls
  /\ \E c \in OfferedCalls : HostCalls(c) /\ RememberWrite(c)
  /\ calls' = calls + 1
  /\ undisturbed' = IF undisturbed < 2 THEN undisturbed + 1 ELSE 2
  /\ PinsReachAvr
  /\ UNCHANGED <<faults, blocked, stalled>>

\* The line stays low for at least 10 us, long enough for the interrupt to see
\* it; HostMissesEdge is the case where it did not.
EdgeSeen == ~pinChange \/ main = "reset"

HostStep ==
  /\ ~stalled
  /\ \/ \E glitch \in SUBSET Lines : HostConfigures(glitch)
     \/ HostEndsStartupStrobe
     \/ HostSettles
     \/ HostStrobes
     \/ EdgeSeen /\ HostReleases
     \/ HostAcked
     \/ HostGets
     \/ EdgeSeen /\ HostConsumes
     \/ HostTimesOut
  /\ SettleWrites
  /\ PinsReachAvr
  /\ UNCHANGED <<clock, undisturbed>>

AvrStep ==
  /\ \/ PinChangeInterrupt
     \/ BoardInit
     \/ \E outcome \in MountOutcomes : Mount(outcome)
     \/ PollSteps
     \/ StorageSteps
  /\ blocked' = IF main' = main THEN blocked ELSE 0
  /\ UNCHANGED <<host, calls, faults, stalled, history>>

-----------------------------------------------------------------------------
(* Faults.                                                                 *)

Fault(kind) ==
  /\ kind \in Faults
  /\ faults < MaxFaults
  /\ faults' = faults + 1
  /\ undisturbed' = 0
  /\ UNCHANGED calls

AvrIsReset ==
  /\ Fault("avrReset")
  /\ \E n \in 0 .. SectorBytes : AvrReset(n)
  /\ blocked' = 0
  /\ UNCHANGED <<host, stalled, unsettled>>

HostIsReset ==
  /\ Fault("hostReset")
  /\ hostPc # "idle"
  /\ HostReset
  /\ PinsReachAvr
  /\ stalled' = FALSE
  /\ UNCHANGED <<blocked, unsettled>>

CardFails ==
  /\ Fault("storageError")
  /\ \E n \in 0 .. SectorBytes : StorageFails(n)
  /\ blocked' = 0
  /\ UNCHANGED <<host, stalled, unsettled>>

HostStalls ==
  /\ Fault("stall")
  /\ ~stalled
  /\ hostPc # "idle"
  /\ stalled' = TRUE
  /\ UNCHANGED <<host, avr, disk, wires, blocked, unsettled>>

HostResumes ==
  /\ stalled
  /\ stalled' = FALSE
  /\ UNCHANGED <<host, avr, disk, wires, calls, faults, blocked, history>>

HostMissesEdge ==
  /\ Fault("missedEdge")
  /\ ~stalled
  /\ ~EdgeSeen
  /\ HostReleases \/ HostConsumes
  /\ SettleWrites
  /\ PinsReachAvr
  /\ UNCHANGED <<blocked, stalled>>

-----------------------------------------------------------------------------
(* Time.                                                                   *)

AvrBlocks ==
  \/ main \in {"reset", "mount"} /\ blocked < MountLimit
  \/ main = "storage" /\ blocked < CallLimit

AvrIdles ==
  /\ main = "poll"
  /\ events = {}
  /\ ~LinkExpired

\* An edge that is pending interrupts before time passes, once interrupts are on.
TimePasses ==
  /\ stalled \/ HostWaits
  /\ ~pinChange \/ main = "reset"
  /\ AvrBlocks \/ AvrIdles
  /\ IF stalled THEN UNCHANGED timer ELSE HostTick
  /\ QuietTick
  /\ blocked' = IF AvrBlocks THEN blocked + 1 ELSE blocked
  /\ UNCHANGED <<main, pinChange, previousControl, events, eng, published, status,
                 disk, wires, hostPc, phase, index, op, sum, byte, remoteHigh,
                 sdBuffer, initialized, hostInit, configured, result,
                 calls, faults, stalled, history>>

-----------------------------------------------------------------------------

BridgeFaults ==
  \/ AvrIsReset
  \/ HostIsReset
  \/ CardFails
  \/ HostStalls
  \/ HostMissesEdge

BridgeNext ==
  \/ Call
  \/ HostStep
  \/ AvrStep
  \/ BridgeFaults
  \/ HostResumes
  \/ TimePasses

BridgeSpec == BridgeInit /\ [][BridgeNext]_bridge

\* Both processors run and time passes.  Calls and faults need not happen.
BridgeFairness ==
  /\ WF_bridge(HostStep)
  /\ WF_bridge(AvrStep)
  /\ WF_bridge(HostResumes)
  /\ WF_bridge(TimePasses)

FairBridgeSpec == BridgeSpec /\ BridgeFairness

-----------------------------------------------------------------------------
(* What a call promises FLEX.                                              *)

\* The bridge is an SD volume (SdVolume): a call that succeeds has done what it
\* was asked, a WRITE that fails may be torn or land late (SDTIMEOUT gives up
\* on an AVR that goes on) but only in its own sector and only until a call
\* succeeds, and a READ or READY never changes a sector.  This is sdcard.s's
\* promise for payloads without a request in them: the rest of one that has
\* is parsed as a request after a reset of the AVR (protocol.h, State::SyncA).
Volume == INSTANCE SdVolume WITH volume <- disk, call <- op, outcome <- result,
                                 received <- sdBuffer
ImplementsVolume == Volume!VolumeSpec

\* Once an I/O error has been latched no call succeeds until the AVR is reset
\* (sd_storage.h fail(), sd/PROTOCOL.md status 06).
FaultedStorageNeverSucceeds ==
  [][status = IoError /\ result = Pending => result' # Ok]_bridge

\* One failure is enough to recover: whatever state a fault left the two
\* sides in, the second call begun after it succeeds if the card is mounted.
\* The first may fail, by SDTIMEOUT, which makes the second one settle.
ResynchronisesByRetry ==
  hostPc = "idle" /\ undisturbed = 2 /\ status = Ok /\ ~BadCallAddress(op)
    => result = Ok

\* Nothing that the C68 and the faults do to the AVR is beyond the arbitrary
\* host of SdFirmware: every step of the bridge is one of its steps, so that
\* what is proved of the firmware alone holds in the bridge.
ImplementsFirmware == Spec

-----------------------------------------------------------------------------
(* What the handshake promises until a fault.                              *)

\* Without faults a call fails exactly when its address is bad or no image is
\* mounted.
CallsAreExact ==
  faults = 0 /\ hostPc = "idle" /\ result # NoResult =>
    result = IF BadCallAddress(op) \/ status # Ok THEN FailCode ELSE Ok

\* When the host takes an acknowledgement, the AVR has taken the byte it sent:
\* no acknowledgement is credited to the wrong byte, and U2 is free.
AckedMeansTaken ==
  [][faults = 0 /\ hostPc = "waitAck" /\ ackFlag /\ ~ackFlag' =>
       "receive" \notin events /\ main # "receive"]_bridge

\* Once the transport has settled, the AVR never drops the link: no overrun,
\* no unexpected edge and no timeout, also when the last consume and the next
\* request arrive together (link.h: "permits back-to-back transactions").
NoRecoveryInTransfer ==
  [][faults' = 0 /\ hostPc \notin {"configure", "settle"} =>
       ~(PollRejectsEvents \/ PollRejectsRequest \/ PollTimesOut)]_bridge

-----------------------------------------------------------------------------
(* What must happen in the end.                                            *)

\* Every call returns, however the AVR and the card behave.
CallReturns == result = Pending ~> hostPc = "idle"

\* A partial request or an unconsumed response is given up in the end, even
\* when the host has gone away (the activity LED does not stay lit).
LinkGoesIdle == Active(eng) ~> ~Active(eng)

=============================================================================
