------------------------------- MODULE SdWires -------------------------------
(***************************************************************************)
(* What the C68 and the AVR share: the two handshake outputs of the host's *)
(* 6821 PIA (CA2 and CB2), the ready output of the AVR (CB1), the two      *)
(* interrupt flags the PIA latches on rising CA1 and CB1, and the two byte *)
(* latches U2 and U3 (sd/PROTOCOL.md, sd/PINOUT.md).  The PIA and the      *)
(* latches are hardware, modelled from how sdcard.s and avr_board.h use    *)
(* them; the AVR's acknowledge pulse on CA1 is as short as one step.       *)
(***************************************************************************)

VARIABLES strobes,    \* the host lines that are high: CA2 is "receive" and
                      \* CB2 is "consume", named after the events they raise
          ready,      \* CB1, driven by the AVR
          ackFlag,    \* CRA bit 7: CA1 has risen since PA was last read
          readyFlag,  \* CRB bit 7: CB1 has risen since PB was last read
          toAvr,      \* U2, clocked by the rising edge of CA2
          toHost      \* U3, clocked by the AVR

wires == <<strobes, ready, ackFlag, readyFlag, toAvr, toHost>>

Lines == {"receive", "consume"}

WiresTypeOK(Bytes) ==
  /\ strobes \in SUBSET Lines
  /\ ready \in BOOLEAN
  /\ ackFlag \in BOOLEAN
  /\ readyFlag \in BOOLEAN
  /\ toAvr \in Bytes
  /\ toHost \in Bytes

\* Both host lines idle high: the AVR's pull-ups hold them until the PIA drives.
InitWires ==
  /\ strobes = Lines
  /\ ready = FALSE
  /\ ackFlag = FALSE
  /\ readyFlag = FALSE
  /\ toAvr = 0
  /\ toHost = 0

=============================================================================
