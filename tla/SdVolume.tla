------------------------------ MODULE SdVolume ------------------------------
(***************************************************************************)
(* What an SD transport promises FLEX, without saying how: sectors that    *)
(* are read and written by calls that return or fail.  SdBridge and        *)
(* EmuBridge implement it, FlexDrive is built on it.                       *)
(*                                                                         *)
(* A WRITE that has been asked for is unsettled: all or the first bytes of *)
(* it may land in its sector at any time, also after the call has failed   *)
(* and later calls have begun.  A call that succeeds settles everything.   *)
(***************************************************************************)
EXTENDS SdProtocol

CONSTANT InitialImage  \* the card's image

ASSUME VolumeAssumption == InitialImage \in Images

VARIABLES volume,    \* the sectors, by offset
          call,      \* the last call
          outcome,   \* how it returned, or Pending, or NoResult
          received,  \* the caller's buffer
          unsettled  \* the writes that may still land

volumeVars == <<volume, call, outcome, received, unsettled>>

\* A write that may land: where, and what.
Writes == [offset : Offsets, data : Buffers]

VolumeTypeOK ==
  /\ volume \in Images
  /\ call \in Calls
  /\ outcome \in {Ok, FailCode, ChecksumCode, NoResult, Pending}
  /\ received \in Buffers
  /\ unsettled \subseteq Writes

VolumeInit ==
  /\ volume = InitialImage
  /\ call = NoCall
  /\ outcome = NoResult
  /\ received = ZeroBuffer
  /\ unsettled = {}

OffsetOf(c) == fileOffset(c.track, c.sector)

\* What a call puts at risk.
Attempted(c) ==
  IF c.kind = "write" /\ ~BadCallAddress(c)
    THEN {[offset |-> OffsetOf(c), data |-> c.data]}
    ELSE {}

-----------------------------------------------------------------------------

\* A call with a bad address fails, at once unless the transport has to be
\* configured first.
Asks ==
  /\ outcome # Pending
  /\ call' \in Calls
  /\ outcome' \in IF BadCallAddress(call') THEN {FailCode, Pending} ELSE {Pending}
  /\ unsettled' = unsettled \cup Attempted(call')
  /\ UNCHANGED <<volume, received>>

Lands(write, n) ==
  /\ write \in unsettled
  /\ volume' = [volume EXCEPT ![write.offset] = Mixed(write.data, n, @)]
  /\ UNCHANGED <<call, outcome, received, unsettled>>

\* A READ fills the buffer byte by byte, with anything unless it succeeds.
Fills ==
  /\ outcome = Pending
  /\ call.kind = "read"
  /\ received' \in Buffers
  /\ UNCHANGED <<volume, call, outcome, unsettled>>

Succeeds ==
  /\ outcome = Pending
  /\ ~BadCallAddress(call)
  /\ call.kind = "write" => volume[OffsetOf(call)] = call.data
  /\ received' = IF call.kind = "read" THEN volume[OffsetOf(call)] ELSE received
  /\ outcome' = Ok
  /\ unsettled' = {}
  /\ UNCHANGED <<volume, call>>

\* Only a READ is answered with a checksum error; a WRITE's is a status.
Fails ==
  /\ outcome = Pending
  /\ outcome' \in IF call.kind = "read" THEN {FailCode, ChecksumCode} ELSE {FailCode}
  /\ unsettled' \in SUBSET unsettled
  /\ UNCHANGED <<volume, call, received>>

\* The machine is reset; the card keeps its power.
Restarts ==
  /\ outcome' = NoResult
  /\ unsettled' \in SUBSET unsettled
  /\ UNCHANGED <<volume, call, received>>

VolumeNext ==
  \/ Asks
  \/ \E write \in unsettled, n \in 0 .. SectorBytes : Lands(write, n)
  \/ Fills
  \/ Succeeds
  \/ Fails
  \/ Restarts

VolumeSpec == VolumeInit /\ [][VolumeNext]_volumeVars

-----------------------------------------------------------------------------

\* After a success nothing is unsettled; what a WRITE stored and what a READ
\* returned is what the sector holds until the next call.
SettledBySuccess ==
  outcome = Ok =>
    /\ unsettled = {}
    /\ call.kind = "write" => volume[OffsetOf(call)] = call.data
    /\ call.kind = "read" => received = volume[OffsetOf(call)]

\* No byte lands in a sector it was not meant for.
OnlyUnsettledLands ==
  [][\A offset \in Offsets : volume'[offset] # volume[offset] =>
       \E write \in unsettled, n \in 0 .. SectorBytes :
         /\ write.offset = offset
         /\ volume'[offset] = Mixed(write.data, n, volume[offset])]_volumeVars

=============================================================================
