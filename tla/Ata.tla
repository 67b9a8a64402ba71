-------------------------------- MODULE Ata ---------------------------------
(***************************************************************************)
(* The disk driver in programmed I/O, drivers/ata/ata.c.                   *)
(*                                                                         *)
(* drive is the disk: its sectors and the transfer it is in.  It takes a   *)
(* command only when it is idle, and a sector count of 0 means CountMod    *)
(* (256 in the hardware); LBA registers hold a number below LbaMod.  The   *)
(* driver polls; it may give up before the drive is done, and the drive    *)
(* may report an error at any sector.  before is the disk when the call    *)
(* began; stray says that a call left a transfer unfinished.               *)
(***************************************************************************)
EXTENDS Integers, Sequences, FiniteSets

CONSTANTS CountMod, LbaMod, Counts, MaxCalls

VARIABLES drive, call, stray, calls

ataVars == <<drive, call, stray, calls>>

AtaSectors == 0 .. LbaMod - 1
Idle == [phase |-> "idle", next |-> 0, left |-> 0, write |-> FALSE]

\* The registers and the command; a drive in a transfer does not take it
Started(write, lba, count) ==
  IF drive.t.phase \in {"busy", "drq"} THEN drive
  ELSE [drive EXCEPT !.t = [phase |-> "busy", next |-> lba % LbaMod, write |-> write,
                            left |-> IF count % CountMod = 0 THEN CountMod ELSE count % CountMod]]

\* ata_read_sectors and ata_write_sectors up to the loop over the sectors;
\* the value written identifies the call and the sector of the buffer
ata_rw(write, lba, count) ==
  /\ call.step = "none" /\ calls < MaxCalls /\ calls' = calls + 1
  /\ drive' = Started(write, lba, count)
  /\ call' = [step |-> "loop", write |-> write, lba |-> lba, count |-> count, s |-> 0, data |-> <<>>,
              before |-> drive.sectors, clean |-> ~stray, result |-> FALSE]
  /\ UNCHANGED stray

\* The drive gets ready for a sector, or reports an error and ends the transfer
drive_ready(ok) ==
  /\ drive.t.phase = "busy"
  /\ drive' = [drive EXCEPT !.t = IF ok THEN [@ EXCEPT !.phase = "drq"] ELSE [Idle EXCEPT !.phase = "error"]]
  /\ UNCHANGED <<call, stray, calls>>

\* One sector through the data register
Transferred ==
  LET t == drive.t
      after == IF t.left = 1 THEN Idle
               ELSE [t EXCEPT !.phase = "busy", !.left = @ - 1, !.next = (@ + 1) % LbaMod]
  IN  [sectors |-> IF t.write THEN [drive.sectors EXCEPT ![t.next] = <<calls, call.s>>] ELSE drive.sectors,
       t |-> after]


\* ata_wait_drq succeeds and the words of a sector are copied
ata_sector ==
  /\ call.step = "loop" /\ call.s < call.count
  /\ drive.t.phase = "drq"
  /\ drive' = Transferred
  /\ call' = [call EXCEPT !.s = @ + 1,
                          !.data = IF call.write THEN @ ELSE Append(@, drive.sectors[drive.t.next])]
  /\ UNCHANGED <<stray, calls>>

\* ata_wait_drq fails, on an error or after its last poll
ata_wait_drq_fails ==
  /\ call.step = "loop" /\ call.s < call.count /\ drive.t.phase # "drq"
  /\ call' = [call EXCEPT !.step = "done", !.result = FALSE]
  /\ stray' = (stray \/ drive.t.phase = "busy")
  /\ UNCHANGED <<drive, calls>>

\* The loop ends; after a write the cache is flushed, and a late flush is not reported
ata_done ==
  /\ call.step = "loop" /\ call.s = call.count
  /\ call' = [call EXCEPT !.step = "done", !.result = TRUE]
  /\ stray' = (stray \/ drive.t.phase \in {"busy", "drq"})
  /\ UNCHANGED <<drive, calls>>

ata_return ==
  /\ call.step = "done" /\ call' = [call EXCEPT !.step = "none"]
  /\ UNCHANGED <<drive, stray, calls>>

\* ata_identify has found the disk
AtaInit ==
  /\ drive = [sectors |-> [i \in AtaSectors |-> <<0, i>>], t |-> Idle]
  /\ call = [step |-> "none", write |-> FALSE, lba |-> 0, count |-> 0, s |-> 0, data |-> <<>>,
             before |-> <<>>, clean |-> TRUE, result |-> FALSE]
  /\ stray = FALSE /\ calls = 0

AtaNext ==
  \/ \E write \in BOOLEAN, lba \in 0 .. LbaMod, count \in Counts : ata_rw(write, lba, count)
  \/ \E ok \in BOOLEAN : drive_ready(ok)
  \/ ata_sector \/ ata_wait_drq_fails \/ ata_done \/ ata_return
-----------------------------------------------------------------------------
=============================================================================
