------------------------------- MODULE SdHost -------------------------------
(***************************************************************************)
(* The C68's side of the SD bridge: the ROM transport of MIKBUG            *)
(* (roms/mikbug2/sdcard.s) behind the adapter of FLEX                      *)
(* (flex2/platform/sdcard.asm).                                            *)
(*                                                                         *)
(* One call READs or WRITEs a sector or asks whether the volume is READY.  *)
(* Every transfer is preceded by INFO and STATUS.  A call is a script of   *)
(* phases, each of which puts or gets a number of bytes; `hostPc' says     *)
(* where in the handshake of the current byte the host is.                 *)
(***************************************************************************)
EXTENDS SdProtocol, SdWires

CONSTANTS SettleLimit,  \* the duration of SDSETTLE, in ticks
          WaitLimit     \* the duration of SDWAIT before it gives up, in ticks

ASSUME HostAssumption == SettleLimit \in Nat \ {0} /\ WaitLimit \in Nat \ {0}

VARIABLES hostPc,       \* the step of the handshake
          phase,        \* the part of the call the current byte belongs to
          index,        \* the byte's place in that part
          op,           \* the call: its kind, track, sector and caller's data
          sum,          \* SDSUM
          byte,         \* the byte SDGET has read, kept over the strobe
          remoteHigh,   \* SDREMOTE, the received high checksum byte
          sdBuffer,     \* the caller's buffer, as READ fills it
          timer,        \* ticks spent in the current SDWAIT or SDSETTLE
          initialized,  \* SDINITIALIZED
          hostInit,     \* SDHOSTINIT of the FLEX adapter
          configured,   \* the PIA drives CA2 and CB2
          result        \* B as the last call returned it, or a mark below

host == <<hostPc, phase, index, op, sum, byte, remoteHigh, sdBuffer, timer,
          initialized, hostInit, configured, result>>

PutPhases == {"info", "mount", "command", "payload", "sumHigh", "sumLow"}
GetPhases == {"infoReply", "infoDrain", "mountReply", "readStatus", "data",
              "dataHigh", "dataLow", "writeStatus"}
HeaderPhases == {"info", "mount", "command"}

HostTypeOK ==
  /\ hostPc \in {"idle", "configure", "settle", "put", "strobing", "waitAck",
                 "waitReady", "consuming"}
  /\ phase \in PutPhases \cup GetPhases
  /\ index \in 0 .. SectorBytes + 5
  /\ op \in Calls
  /\ sum \in Word
  /\ byte \in Byte
  /\ remoteHigh \in Byte
  /\ sdBuffer \in Buffers
  /\ timer \in 0 .. WaitLimit + SettleLimit
  /\ initialized \in BOOLEAN
  /\ hostInit \in BOOLEAN
  /\ configured \in BOOLEAN
  /\ result \in {Ok, FailCode, ChecksumCode, NoResult, Pending}

\* FLEX has just been loaded into RAM, and the PIA is in reset.
InitHost ==
  /\ hostPc = "idle"
  /\ phase = "info"
  /\ index = 0
  /\ op = NoCall
  /\ sum = 0
  /\ byte = 0
  /\ remoteHigh = 0
  /\ sdBuffer = ZeroBuffer
  /\ timer = 0
  /\ initialized = FALSE
  /\ hostInit = FALSE
  /\ configured = FALSE
  /\ result = NoResult

-----------------------------------------------------------------------------
(* The script of a call.                                                   *)

\* Where the transport goes for the next byte, or to return.
Goto(nextPhase, nextIndex) ==
  /\ phase' = nextPhase
  /\ index' = nextIndex
  /\ hostPc' = IF nextPhase \in PutPhases THEN "put" ELSE "waitReady"
  /\ timer' = 0
  /\ UNCHANGED result

Return(code) ==
  /\ hostPc' = "idle"
  /\ result' = code
  /\ timer' = 0
  /\ UNCHANGED <<phase, index>>

\* SDPACKET: INFO and STATUS send a zero address, the transfer its own.
Header ==
  CASE phase = "info" -> <<SyncFirst, SyncSecond, CommandInfo, 0, 0>>
    [] phase = "mount" -> <<SyncFirst, SyncSecond, CommandStatus, 0, 0>>
    [] phase = "command" ->
         << SyncFirst, SyncSecond,
            IF op.kind = "write" THEN CommandWrite ELSE CommandRead,
            op.track, op.sector >>

OutgoingByte ==
  CASE phase \in HeaderPhases -> Header[index + 1]
    [] phase = "payload" -> op.data[index]
    [] phase = "sumHigh" -> HighByte(sum)
    [] phase = "sumLow" -> LowByte(sum)

\* SDADD: the byte is added to SDSUM+1, and a carry increments SDSUM.
SdAdd(total, value) ==
  LET high == HighByte(total)
      low == LowByte(total) + value
  IN  IF low < 256 THEN 256 * high + low
      ELSE 256 * ((high + 1) % 256) + (low - 256)

\* After SDPUT: the next byte to put, or the reply to get.
AfterPut ==
  CASE phase \in HeaderPhases /\ index < 4 -> Goto(phase, index + 1)
    [] phase = "info" /\ index = 4 -> Goto("infoReply", 0)
    [] phase = "mount" /\ index = 4 -> Goto("mountReply", 0)
    [] phase = "command" /\ index = 4 ->
         IF op.kind = "write" THEN Goto("payload", 0) ELSE Goto("readStatus", 0)
    [] phase = "payload" ->
         IF index + 1 < SectorBytes THEN Goto("payload", index + 1)
                                    ELSE Goto("sumHigh", 0)
    [] phase = "sumHigh" -> Goto("sumLow", 0)
    [] phase = "sumLow" -> Goto("writeStatus", 0)

\* SDINFO: the version and the geometry the ROM was built for.
SdInfo == << 0, 2, Tracks, SectorsPerTrack, SectorBytes % 256, SectorBytes \div 256 >>

\* SDCHECK: the INFO bytes must be those of SDINFO; after one that is not,
\* the rest of the reply is drained.
InfoByte ==
  CASE phase = "infoReply" /\ byte = SdInfo[index + 1] ->
         IF index < 5 THEN Goto("infoReply", index + 1) ELSE Goto("mount", 0)
    [] OTHER ->
         IF index < 5 THEN Goto("infoDrain", index + 1) ELSE Return(FailCode)

\* Mutant: the mount status is not tested.
MountByteIgnored == IF op.kind = "ready" THEN Return(Ok) ELSE Goto("command", 0)

\* A READY call ends with SDCHECK, a transfer goes on to its own header.
MountByte ==
  CASE byte # Ok -> Return(FailCode)
    [] byte = Ok /\ op.kind = "ready" -> Return(Ok)
    [] OTHER -> Goto("command", 0)

ChecksumByte ==
  IF byte = LowByte(sum) /\ remoteHigh = HighByte(sum)
    THEN Return(Ok)
    ELSE Return(ChecksumCode)

WriteStatusByte == Return(IF byte = Ok THEN Ok ELSE FailCode)

AfterGet ==
  CASE phase \in {"infoReply", "infoDrain"} -> InfoByte
    [] phase = "mountReply" -> MountByte
    [] phase = "readStatus" -> IF byte = Ok THEN Goto("data", 0) ELSE Return(FailCode)
    [] phase = "data" -> IF index + 1 < SectorBytes THEN Goto("data", index + 1)
                                                    ELSE Goto("dataHigh", 0)
    [] phase = "dataHigh" -> Goto("dataLow", 0)
    [] phase = "dataLow" -> ChecksumByte
    [] phase = "writeStatus" -> WriteStatusByte

\* What the byte does to the transport's own data.
StoresByte ==
  /\ sdBuffer' = IF phase = "data" THEN [sdBuffer EXCEPT ![index] = byte] ELSE sdBuffer
  /\ remoteHigh' = IF phase = "dataHigh" THEN byte ELSE remoteHigh
  /\ sum' = CASE phase = "mountReply" /\ byte = Ok /\ op.kind # "ready" -> 0
              [] phase = "data" -> SdAdd(sum, byte)
              [] OTHER -> sum

-----------------------------------------------------------------------------
(* The steps.                                                              *)

\* A FLEX call.  SDENSURE resets the transport on the first one; SDIO checks
\* the address, SDINIT configures the PIA unless it has been.
HostCalls(call) ==
  /\ hostPc = "idle"
  /\ op' = call
  /\ initialized' = (initialized /\ hostInit)
  /\ timer' = 0
  /\ CASE hostInit /\ BadCallAddress(call) ->
            /\ result' = FailCode
            /\ UNCHANGED <<hostPc, phase, index>>
       [] hostInit /\ ~BadCallAddress(call) /\ initialized ->
            /\ hostPc' = "put"
            /\ phase' = "info"
            /\ index' = 0
            /\ result' = Pending
       [] OTHER ->
            /\ hostPc' = "configure"
            /\ result' = Pending
            /\ UNCHANGED <<phase, index>>
  /\ UNCHANGED <<sum, byte, remoteHigh, sdBuffer, hostInit, configured, wires>>

\* SDINIT: the outputs become driven.  Coming out of reset, either may pulse
\* low; the pulse ends in HostEndsStartupStrobe.
HostConfigures(glitch) ==
  /\ hostPc = "configure"
  /\ configured => glitch = {}
  /\ configured' = TRUE
  /\ strobes' = strobes \ glitch
  /\ hostPc' = "settle"
  /\ UNCHANGED <<phase, index, op, sum, byte, remoteHigh, sdBuffer, timer,
                 initialized, hostInit, result,
                 ready, ackFlag, readyFlag, toAvr, toHost>>

\* Port A still floats high when U2 is clocked.
HostEndsStartupStrobe ==
  /\ hostPc = "settle"
  /\ strobes # Lines
  /\ strobes' = Lines
  /\ toAvr' = IF "receive" \in strobes THEN toAvr ELSE 255
  /\ UNCHANGED <<host, ready, ackFlag, readyFlag, toHost>>

\* Mutant: only PA is read.
ClearsAckFlag == ackFlag' = FALSE /\ UNCHANGED readyFlag

\* SDINIT reads PA and PB for their side effect on the flags.
ClearsFlags == ackFlag' = FALSE /\ readyFlag' = FALSE

\* The end of SDSETTLE: SDINIT clears both flags, SDENSURE is done, and the
\* transport starts.
HostSettles ==
  /\ hostPc = "settle"
  /\ strobes = Lines
  /\ timer = SettleLimit
  /\ ClearsFlags
  /\ initialized' = TRUE
  /\ hostInit' = TRUE
  /\ IF BadCallAddress(op) THEN Return(FailCode) ELSE Goto("info", 0)
  /\ UNCHANGED <<op, sum, byte, remoteHigh, sdBuffer, configured,
                 strobes, ready, toAvr, toHost>>

\* SDPUT: write PA and lower CA2; WRITE sums its payload as it sends it.
HostStrobes ==
  /\ hostPc = "put"
  /\ strobes' = strobes \ {"receive"}
  /\ sum' = IF phase = "payload" THEN SdAdd(sum, OutgoingByte) ELSE sum
  /\ hostPc' = "strobing"
  /\ UNCHANGED <<phase, index, op, byte, remoteHigh, sdBuffer, timer, initialized,
                 hostInit, configured, result,
                 ready, ackFlag, readyFlag, toAvr, toHost>>

\* SDPUT: raise CA2, which clocks PA into U2.
HostReleases ==
  /\ hostPc = "strobing"
  /\ strobes' = strobes \cup {"receive"}
  /\ toAvr' = OutgoingByte
  /\ hostPc' = "waitAck"
  /\ timer' = 0
  /\ UNCHANGED <<phase, index, op, sum, byte, remoteHigh, sdBuffer, initialized,
                 hostInit, configured, result, ready, ackFlag, readyFlag, toHost>>

\* Mutant: SDWAIT finds the flag set whatever the AVR does.
AckSeenAlways == TRUE

AckSeen == ackFlag

\* SDPUT: CRA bit 7 is set; read PA to clear it.
HostAcked ==
  /\ hostPc = "waitAck"
  /\ AckSeen
  /\ ackFlag' = FALSE
  /\ AfterPut
  /\ UNCHANGED <<op, sum, byte, remoteHigh, sdBuffer, initialized, hostInit,
                 configured, strobes, ready, readyFlag, toAvr, toHost>>

\* SDGET: CRB bit 7 is set; read PB, which clears it, and lower CB2.
HostGets ==
  /\ hostPc = "waitReady"
  /\ readyFlag
  /\ readyFlag' = FALSE
  /\ byte' = toHost
  /\ strobes' = strobes \ {"consume"}
  /\ hostPc' = "consuming"
  /\ UNCHANGED <<phase, index, op, sum, remoteHigh, sdBuffer, timer, initialized,
                 hostInit, configured, result, ready, ackFlag, toAvr, toHost>>

\* SDGET: raise CB2; the caller uses the byte.
HostConsumes ==
  /\ hostPc = "consuming"
  /\ strobes' = strobes \cup {"consume"}
  /\ StoresByte
  /\ AfterGet
  /\ UNCHANGED <<op, byte, initialized, hostInit, configured,
                 ready, ackFlag, readyFlag, toAvr, toHost>>

\* Mutant: SDGET waits for its byte for ever.
WaitExpiredForAckOnly == hostPc = "waitAck" /\ ~ackFlag /\ timer = WaitLimit

\* SDWAIT has counted down without seeing the flag of its side.
WaitExpired ==
  /\ \/ hostPc = "waitAck" /\ ~ackFlag
     \/ hostPc = "waitReady" /\ ~readyFlag
  /\ timer = WaitLimit

\* SDTIMEOUT: the next call configures and settles again.
Timeout == initialized' = FALSE /\ Return(FailCode)

HostTimesOut ==
  /\ WaitExpired
  /\ Timeout
  /\ UNCHANGED <<op, sum, byte, remoteHigh, sdBuffer, hostInit, configured, wires>>

\* The machine is reset and FLEX is booted again: the PIA clears its flags and
\* lets go of its outputs, which rise, and SDHOSTINIT is loaded as zero.
\* SDINITIALIZED keeps its old value until the first call.
HostReset ==
  /\ hostPc' = "idle"
  /\ strobes' = Lines
  /\ toAvr' = IF "receive" \in strobes THEN toAvr ELSE 255
  /\ hostInit' = FALSE
  /\ configured' = FALSE
  /\ result' = NoResult
  /\ timer' = 0
  /\ ackFlag' = FALSE
  /\ readyFlag' = FALSE
  /\ UNCHANGED <<phase, index, op, sum, byte, remoteHigh, sdBuffer, initialized,
                 ready, toHost>>

\* The host is in a loop that only time or the other side ends.
HostWaits ==
  \/ hostPc = "idle"
  \/ hostPc = "settle" /\ strobes = Lines /\ timer < SettleLimit
  \/ hostPc = "waitAck" /\ ~ackFlag /\ timer < WaitLimit
  \/ hostPc = "waitReady" /\ ~readyFlag /\ timer < WaitLimit

HostTick == timer' = IF hostPc # "idle" /\ HostWaits THEN timer + 1 ELSE timer

=============================================================================
