------------------------------- MODULE FlexFms -------------------------------
(***************************************************************************)
(* The single-sector operations of FLEX's file management system, RDSSEC   *)
(* and WRSSEC (flex2/6800Flex/FLEX21.ASM), over the C68 disk driver: DRVSEL,*)
(* the transfer, and on an error up to seven tries of it and a RESTOR      *)
(* after every seventh or after an error with bit 4 set, up to the fourth. *)
(* RESTOR is DRVSEL again (tools/prepare-c68.py), and its result is not    *)
(* looked at.                                                              *)
(***************************************************************************)
EXTENDS FlexDrive

CONSTANTS MaxTries,     \* 7, the limit of FTMP3
          MaxRestores,  \* 4, the limit of FTMP4
          MaxSectors,   \* how many sectors FLEX reads or writes
          SectorRequests  \* the reads and writes it may make

ASSUME FmsAssumption ==
  /\ MaxTries \in Nat \ {0} /\ MaxRestores \in Nat \ {0} /\ MaxSectors \in Nat
  /\ SectorRequests \subseteq { r \in Requests : r.kind \in {"read", "write"} }

VARIABLES fms,       \* what FLEX waits for
          fcb,       \* the FCB: drive, track, sector and sector buffer
          tries,     \* FTMP3
          restores,  \* FTMP4
          answer,    \* B of RDSSEC or WRSSEC, or NoResult
          sectors    \* how many have been read or written

fmsVars == <<fms, fcb, tries, restores, answer, sectors>>
flex == <<fmsVars, driveVars>>

FmsInit ==
  /\ DriveInit
  /\ fms = "idle"
  /\ fcb = request
  /\ tries = 0
  /\ restores = 0
  /\ answer = NoResult
  /\ sectors = 0

-----------------------------------------------------------------------------

\* RDSEC5
FmsBegins(r) ==
  /\ fms = "idle"
  /\ sectors < MaxSectors
  /\ sectors' = sectors + 1
  /\ fcb' = r
  /\ fms' = "select"
  /\ tries' = 0
  /\ restores' = 0
  /\ answer' = NoResult
  /\ UNCHANGED driveVars

\* The calls of DRVSEL, READ or WRITE, and RESTOR.
FmsCall == IF fms = "transfer" THEN fcb ELSE [fcb EXCEPT !.kind = "select"]

Awaited == [select |-> "selecting", transfer |-> "transferring", restore |-> "restoring"]

FmsCalls ==
  /\ fms \in DOMAIN Awaited
  /\ DriveCalls(FmsCall)
  /\ fms' = Awaited[fms]
  /\ UNCHANGED <<fcb, tries, restores, answer, sectors>>

\* A program that asks for a drive or makes a transfer of its own between two
\* sectors of FLEX, through the same jump table.
FmsPrograms(r) ==
  /\ fms = "idle"
  /\ DriveCalls(r)
  /\ answer' = NoResult
  /\ UNCHANGED <<fms, fcb, tries, restores, sectors>>

FmsDriverAnswers == DriveAnswers /\ UNCHANGED fmsVars

FmsVolumeSteps == VolumeSteps /\ UNCHANGED fmsVars

FmsReturns(c) ==
  /\ fms' = "idle"
  /\ answer' = c
  /\ UNCHANGED <<tries, restores>>

\* Mutant: FTMP4 is cleared with FTMP3.
RestoresForEver ==
  fms' = "restore" /\ tries' = 0 /\ restores' = 0 /\ UNCHANGED answer

\* RDSEC7: the tries are counted anew after each RESTOR.
Restores ==
  IF restores + 1 = MaxRestores
    THEN FmsReturns(code)
    ELSE /\ fms' = "restore"
         /\ restores' = restores + 1
         /\ tries' = 0
         /\ UNCHANGED answer

\* RDSEC6: bit 4 of FailCode is set, of ChecksumCode it is not.
HandlesError ==
  IF code = FailCode \/ tries + 1 = MaxTries
    THEN Restores
    ELSE fms' = "transfer" /\ tries' = tries + 1 /\ UNCHANGED <<restores, answer>>

\* Mutant: the carry of DRVSEL is not looked at.
SelectedAnyway == TRUE

Selected == code = Ok

FmsContinues ==
  /\ driver = "idle"
  /\ CASE fms = "selecting" ->
            IF Selected THEN fms' = "transfer" /\ UNCHANGED <<tries, restores, answer>>
                        ELSE FmsReturns(code)
       [] fms = "transferring" -> IF code = Ok THEN FmsReturns(Ok) ELSE HandlesError
       [] fms = "restoring" -> fms' = "transfer" /\ UNCHANGED <<tries, restores, answer>>
       [] OTHER -> FALSE
  /\ UNCHANGED <<fcb, sectors, driveVars>>

\* The machine is reset, possibly in the copy of a page.
FmsReset ==
  /\ ResetIdle \/ \E n \in 0 .. SectorBytes : fms = "transfer" /\ ResetInStore(fcb, n)
  /\ fms' = "idle"
  /\ answer' = NoResult
  /\ UNCHANGED <<fcb, tries, restores, sectors>>

FmsNext ==
  \/ \E r \in SectorRequests : FmsBegins(r)
  \/ FmsCalls
  \/ \E r \in OfferedRequests : FmsPrograms(r)
  \/ FmsDriverAnswers
  \/ FmsVolumeSteps
  \/ FmsContinues
  \/ FmsReset

FmsSpec == FmsInit /\ [][FmsNext]_flex

\* Every call of the SD transport returns (SdBridge!CallReturns), and the 6800
\* goes on.
FmsFairness ==
  /\ WF_flex(FmsCalls)
  /\ WF_flex(FmsDriverAnswers)
  /\ WF_flex(FmsContinues)
  /\ WF_flex((Succeeds \/ Fails) /\ UNCHANGED <<drive, fmsVars>>)

FairFmsSpec == FmsSpec /\ FmsFairness

-----------------------------------------------------------------------------

\* A transfer, the first or a retry after a RESTOR that failed, is made with
\* the drive the FCB names.
TransfersGoToTheFcbsDrive ==
  fms \in {"transfer", "transferring"} => chosen = fcb.drive

\* RDSSEC and WRSSEC that return without an error have moved the sector of the
\* FCB, whatever failed on the way.
SectorsAreExact ==
  fms = "idle" /\ answer = Ok =>
    Stored(fcb.drive, fcb.track, fcb.sector)
      = IF fcb.kind = "read" THEN received ELSE fcb.data

\* The sector (p, s) of SRAM is that of a write of r with drive d.
IsSectorOf(p, s, d, r) ==
  /\ r.kind = "write"
  /\ d \in {Sram0, Sram1}
  /\ p = BaseOf(d) + r.track
  /\ s = r.sector

\* SRAM changes only by WRITEs: FLEX's changes the sector of its FCB, on the
\* FCB's own drive and whatever was selected or failed before, to the FCB's data
\* or, when the machine is reset in the copy, to a first part of them; another
\* program's changes its sector of the drive it chose.  No READ, no selection,
\* no transfer with the card and no retry reaches a sector of SRAM.
SramChangesOnlyByWrite ==
  [][\A p \in Pages, s \in 1 .. SramSectors : sram'[p][s] # sram[p][s] =>
       CASE fms = "idle" -> /\ IsSectorOf(p, s, chosen, request')
                            /\ sram'[p][s] = request'.data
         [] fms = "transfer" -> /\ IsSectorOf(p, s, fcb.drive, fcb)
                                /\ \E n \in 0 .. SectorBytes :
                                     sram'[p][s] = Mixed(fcb.data, n, sram[p][s])
         [] OTHER -> FALSE]_flex

\* However often the card fails, FLEX gets its answer.
SectorReturns == fms # "idle" ~> fms = "idle"

=============================================================================
