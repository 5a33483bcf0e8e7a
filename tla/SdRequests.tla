----------------------------- MODULE SdRequests -----------------------------
(***************************************************************************)
(* The firmware facing a host that sends whatever requests it likes, as    *)
(* its tests do (sd/tests/protocol_test.cpp): every command, known or not, *)
(* with a good or a bad address or checksum, whole or broken off, and      *)
(* replies that are consumed, ignored or interrupted by the next request.  *)
(* A history variable keeps what the engine has heard of a request, so     *)
(* that a sector on the card can be compared with the bytes on the wire.   *)
(*                                                                         *)
(* The host is one of SdFirmware's arbitrary hosts, limited to a number of *)
(* requests from a repertoire, and to holding a line low until the         *)
(* interrupt has seen it, so that TLC can visit every state.               *)
(***************************************************************************)
EXTENDS SdFirmware

CONSTANTS Repertoire,   \* the byte sequences the host may send
          MaxRequests   \* how many of them it sends

ASSUME RequestsAssumption ==
  /\ Repertoire \subseteq Seq(WireBytes)
  /\ MaxRequests \in Nat

VARIABLES turn,      \* where the host is in the handshake of one byte
          unsent,    \* what is left of the current request
          requests,  \* how many requests were begun
          heard      \* history: the bytes taken since the link was last reset
                     \* or the engine last waited for a request

client == <<turn, unsent, requests>>

-----------------------------------------------------------------------------
(* What it may do to the wires: single steps of the arbitrary host.        *)

\* The host moves a line; U2 is clocked when CA2 rises.
HostLowers(line) ==
  /\ line \in strobes
  /\ strobes' = strobes \ {line}
  /\ pinChange' = TRUE
  /\ UNCHANGED <<main, previousControl, events, eng, published, quiet, status, disk,
                 ready, ackFlag, readyFlag, toAvr, toHost>>

HostRaises(line, value) ==
  /\ line \notin strobes
  /\ strobes' = strobes \cup {line}
  /\ pinChange' = TRUE
  /\ toAvr' = IF line = "receive" THEN value ELSE toAvr
  /\ UNCHANGED <<main, previousControl, events, eng, published, quiet, status, disk,
                 ready, ackFlag, readyFlag, toHost>>

\* Reading PA or PB clears the flag of that side.
HostReads ==
  /\ \/ ackFlag /\ ackFlag' = FALSE /\ UNCHANGED readyFlag
     \/ readyFlag /\ readyFlag' = FALSE /\ UNCHANGED ackFlag
  /\ UNCHANGED <<avr, disk, strobes, ready, toAvr, toHost>>

-----------------------------------------------------------------------------
(* The requests.                                                           *)

RequestsInit ==
  Init /\ turn = "between" /\ unsent = <<>> /\ requests = 0 /\ heard = <<>>

\* The next request, whether or not the last one was sent or answered.
BeginsRequest ==
  /\ turn = "between"
  /\ requests < MaxRequests
  /\ \E request \in Repertoire : unsent' = request
  /\ requests' = requests + 1
  /\ UNCHANGED <<vars, turn>>

LowersRequest ==
  /\ turn = "between"
  /\ unsent # <<>>
  /\ HostLowers("receive")
  /\ turn' = "receive"
  /\ UNCHANGED <<unsent, requests>>

RaisesRequest ==
  /\ turn = "receive"
  /\ ~pinChange
  /\ HostRaises("receive", Head(unsent))
  /\ unsent' = Tail(unsent)
  /\ turn' = "sent"
  /\ UNCHANGED requests

RequestIsAcknowledged ==
  /\ turn = "sent"
  /\ ackFlag
  /\ HostReads
  /\ ~ackFlag'
  /\ turn' = "between"
  /\ UNCHANGED <<unsent, requests>>

\* A host that gives up on a byte gives up on the rest of its request.
GivesUp ==
  /\ turn = "sent"
  /\ turn' = "between"
  /\ unsent' = <<>>
  /\ UNCHANGED <<vars, requests>>

TakesReply ==
  /\ turn = "between"
  /\ readyFlag
  /\ HostReads
  /\ ~readyFlag'
  /\ turn' = "taken"
  /\ UNCHANGED <<unsent, requests>>

LowersConsume ==
  /\ turn = "taken"
  /\ HostLowers("consume")
  /\ turn' = "consume"
  /\ UNCHANGED <<unsent, requests>>

RaisesConsume ==
  /\ turn = "consume"
  /\ ~pinChange
  /\ HostRaises("consume", 0)
  /\ turn' = "between"
  /\ UNCHANGED <<unsent, requests>>

RequestingHost ==
  \/ BeginsRequest
  \/ LowersRequest
  \/ RaisesRequest
  \/ RequestIsAcknowledged
  \/ GivesUp
  \/ TakesReply
  \/ LowersConsume
  \/ RaisesConsume

\* The poll takes a byte: it goes on to the storage call or the acknowledge.
TakesByte == main \in {"poll", "receive"} /\ main' \in {"storage", "acknowledge"}

\* Every way in which poll recovers, and the AVR's own reset.
LinkDrops == PollRejectsEvents \/ PollRejectsRequest \/ PollTimesOut \/ main' = "reset"

Hears ==
  heard' = IF ~Active(eng') \/ LinkDrops THEN <<>>
           ELSE IF TakesByte THEN Append(heard, toAvr)
           ELSE heard

RequestsNext ==
  /\ \/ RequestingHost
     \/ (AvrSteps \/ AvrFaults \/ Tick) /\ UNCHANGED client
  /\ Hears

requestsVars == <<vars, client, heard>>

RequestsSpec == RequestsInit /\ [][RequestsNext]_requestsVars

-----------------------------------------------------------------------------

\* The last bytes heard, as many as a WRITE request has.
WriteSize == SectorBytes + 7
WriteByte(n) == heard[Len(heard) - WriteSize + n]
WritePayload == [n \in 0 .. SectorBytes - 1 |-> WriteByte(6 + n)]

HeardWrite ==
  /\ Len(heard) >= WriteSize
  /\ WriteByte(1) = SyncFirst /\ WriteByte(2) = SyncSecond
  /\ WriteByte(3) = CommandWrite
  /\ validAddress(WriteByte(4), WriteByte(5))
  /\ 256 * WriteByte(WriteSize - 1) + WriteByte(WriteSize) = sectorChecksum(WritePayload)

\* The image changes only in the sector named by a WRITE whose bytes, from its
\* sync to its checksum, were taken from the wire one after the other with no
\* recovery, reset or other request between them, and it gets the payload on
\* the wire, or a part of it when the call fails or the AVR is reset.
StoresOnlyWholeFrames ==
  [][disk' # disk =>
       /\ HeardWrite
       /\ \E n \in 0 .. SectorBytes :
            disk' = [disk EXCEPT ![fileOffset(WriteByte(4), WriteByte(5))]
                                   = Mixed(WritePayload, n, @)]]_requestsVars

-----------------------------------------------------------------------------
(* A repertoire for TLC.  Sectors of one byte: every request is short and  *)
(* the checksum is the byte.                                               *)

Frame(command, track, sector) == <<SyncFirst, SyncSecond, command, track, sector>>

AllRequests ==
  { Frame(CommandRead, 0, 1),
    Frame(CommandWrite, 0, 1) \o <<7, 0, 7>>,
    Frame(CommandWrite, 0, 1) \o <<9, 0, 7>>,     \* wrong checksum
    Frame(CommandWrite, 0, 2) \o <<8, 0, 8>>,     \* no such sector
    Frame(CommandSync, 0, 0),
    Frame(CommandInfo, 0, 0),
    Frame(CommandStatus, 0, 0),
    <<SyncFirst>> \o Frame(3, 0, 0) }  \* a repeated sync byte, no such command

=============================================================================
