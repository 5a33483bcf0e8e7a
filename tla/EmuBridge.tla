------------------------------ MODULE EmuBridge ------------------------------
(***************************************************************************)
(* FLEX and the ROM transport running in the emulator: SdHost over         *)
(* EmuSdPia.  The 6800 executes its next instruction when the emulator has *)
(* finished with the last one, so no step of the host comes between a      *)
(* strobe and its effects, and neither processor resets.                   *)
(***************************************************************************)
EXTENDS SdHost, EmuSdPia

CONSTANTS OfferedCalls,  \* the calls FLEX may make
          MaxCalls,      \* how many calls it makes
          MaxFailures    \* how often the image file fails

ASSUME EmuBridgeAssumption ==
  OfferedCalls \subseteq Calls /\ MaxCalls \in Nat /\ MaxFailures \in Nat

VARIABLES calls,     \* how many calls FLEX has made
          failures,  \* how often the image file has failed
          wanted     \* history: the image as the successful WRITEs left it

emuBridge == <<host, emu, calls, failures, wanted>>

EmuBridgeInit ==
  /\ InitHost
  /\ EmuInit
  /\ calls = 0
  /\ failures = 0
  /\ wanted = InitialImage

-----------------------------------------------------------------------------

EmuCall ==
  /\ PiaIsDone
  /\ calls < MaxCalls
  /\ \E call \in OfferedCalls : HostCalls(call)
  /\ calls' = calls + 1
  /\ UNCHANGED <<pia, disk, failures, wanted>>

\* What a WRITE that returns without an error leaves to be read.
RememberWrite ==
  wanted' = IF result = Pending /\ result' = Ok /\ op.kind = "write"
              THEN [wanted EXCEPT ![fileOffset(op.track, op.sector)] = op.data]
              ELSE wanted

\* SDINIT writes $3A and $3E: neither makes an edge.
EmuHostStep ==
  /\ PiaIsDone
  /\ \/ HostConfigures({})
     \/ HostSettles
     \/ HostStrobes
     \/ HostReleases
     \/ HostAcked
     \/ HostGets
     \/ HostConsumes
     \/ HostTimesOut
  /\ RememberWrite
  /\ UNCHANGED <<pia, disk, calls, failures>>

EmuAnswers == PiaSteps /\ UNCHANGED <<host, calls, failures, wanted>>

EmuFails ==
  /\ failures < MaxFailures
  /\ PiaFaults
  /\ failures' = failures + 1
  /\ UNCHANGED <<host, calls, wanted>>

\* The loops of SDSETTLE and SDWAIT count.
EmuHostWaits ==
  /\ PiaIsDone
  /\ hostPc # "idle"
  /\ HostWaits
  /\ HostTick
  /\ UNCHANGED <<emu, hostPc, phase, index, op, sum, byte, remoteHigh, sdBuffer,
                 initialized, hostInit, configured, result, calls, failures, wanted>>

EmuBridgeNext == EmuCall \/ EmuHostStep \/ EmuAnswers \/ EmuFails \/ EmuHostWaits

EmuBridgeSpec == EmuBridgeInit /\ [][EmuBridgeNext]_emuBridge

-----------------------------------------------------------------------------

\* A call fails exactly when its address is bad or the file has failed, then
\* or before; a READ that succeeds returns what the last successful WRITE of
\* that sector stored, or what was there in the beginning.
EmuCallsAreExact ==
  hostPc = "idle" /\ result # NoResult =>
    /\ result = IF BadCallAddress(op) \/ status # Ok THEN FailCode ELSE Ok
    /\ op.kind = "read" /\ result = Ok =>
         sdBuffer = wanted[fileOffset(op.track, op.sector)]

\* The emulator is an SD volume too (SdVolume), and a better one than the real
\* bridge: a WRITE that has returned is over, whether it succeeded or not.
Volume == INSTANCE SdVolume WITH
            volume <- disk, call <- op, outcome <- result, received <- sdBuffer,
            unsettled <- IF result = Pending /\ op.kind = "write" /\ ~BadCallAddress(op)
                           THEN {[offset |-> fileOffset(op.track, op.sector),
                                  data |-> op.data]}
                           ELSE {}
ImplementsVolume == Volume!VolumeSpec

\* The emulator answers in the instruction that asks: the transport never
\* counts in SDWAIT, so the emulator hides every timeout of the real machine.
EmuNeverTimesOut ==
  [][HostWaits /\ hostPc # "idle" /\ timer' > timer => hostPc = "settle"]_emuBridge

=============================================================================
