----------------------------- MODULE MCEmuBridge -----------------------------
EXTENDS EmuBridge

Pair(first, second) == [n \in 0 .. SectorBytes - 1 |-> IF n = 0 THEN first ELSE second]

CallOf(kind, track, sector, data) ==
  [kind |-> kind, track |-> track, sector |-> sector, data |-> data]

\* Two payloads for one sector, one for another, and bad addresses.
EmuCalls == { CallOf("write", 0, 1, Pair(255, 254)),
              CallOf("write", 0, 1, Pair(165, 90)),
              CallOf("write", 1, 2, Pair(1, 255)),
              CallOf("read", 0, 1, Pair(0, 0)),
              CallOf("read", 1, 2, Pair(0, 0)),
              CallOf("read", 2, 1, Pair(0, 0)),
              CallOf("write", 0, 3, Pair(0, 0)),
              CallOf("ready", 0, 0, Pair(0, 0)) }

NoBytes == {}
=============================================================================
