----------------------------- MODULE MCSdBridge -----------------------------
EXTENDS SdBridge

Pair(first, second) == [n \in 0 .. SectorBytes - 1 |-> IF n = 0 THEN first ELSE second]

CallOf(kind, track, sector, data) ==
  [kind |-> kind, track |-> track, sector |-> sector, data |-> data]

\* Every kind of call, the first and the last sector, and a bad address.
PlainCalls ==
  { CallOf("write", 0, 1, Pair(255, 254)),
    CallOf("read", 1, 2, Pair(0, 0)),
    CallOf("write", 0, 3, Pair(0, 0)),
    CallOf("ready", 0, 0, Pair(0, 0)) }

\* 509 needs both bytes of the checksum; 256 has a low byte of zero.
FaultCalls == { CallOf("write", 0, 1, Pair(255, 254)),
                CallOf("write", 1, 1, Pair(1, 255)),
                CallOf("read", 0, 1, Pair(0, 0)),
                CallOf("ready", 0, 0, Pair(0, 0)) }

WriteCalls == { call \in FaultCalls : call.kind = "write" }

NoBytes == {}
NoFaults == {}
=============================================================================
