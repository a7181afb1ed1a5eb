------------------------------- MODULE FluxScan -------------------------------
(***************************************************************************)
(* A scan with the Greaseweazle alone (src/cli/flux_scan.rs): one thread   *)
(* asks for the label project.json names, reads it, verifies what was      *)
(* saved, hands the captures to the packing queue, and moves the number    *)
(* on.  Three files are written one after the other - the recovery job     *)
(* (src/flux_recovery.rs), the scan's journal and project.json - and a     *)
(* process can end between any two of them.  Module Finishing composes     *)
(* these steps with the commands that run before and after a scan.         *)
(***************************************************************************)
EXTENDS Naturals

CONSTANTS
  First, Last,  \* the range of labels
  Obtained,     \* bound: what the readings of the range may save
  MaxReseats    \* a read without an index pulse is tried again so often

Disks == First .. Last
Readings == {"raw", "partial", "full"}

ASSUME ScanAssumption ==
  /\ First \in Nat \ {0} /\ Last \in Nat /\ First <= Last
  /\ Obtained \subseteq [Disks -> Readings] /\ Obtained # {}
  /\ MaxReseats \in Nat

VARIABLES
  saved,      \* label -> the best that is saved of it now
  job,        \* label -> the result its recovery job records
  cursor,     \* the current number of project.json
  pending,    \* journal: the label in custody and whether its result is saved
  completed,  \* journal: labels with a result
  packs,      \* labels whose captures have tasks of the packing queue
  storage_errors,   \* labels whose tasks could not be saved, in memory only
  refused,    \* history: such labels that were reported when the scan ended
  unheard,    \* history: such labels of which the process was killed before
  scan        \* the running scan: its step, its label, its reseats

recorded == <<pending, completed>>
unqueued == <<storage_errors, refused, unheard>>

Nobody == [disk |-> 0, result |-> FALSE]
NoScan == [pc |-> "off", disk |-> 0, reseats |-> 0]
Held == IF pending.disk = 0 THEN cursor ELSE pending.disk

At(step) == scan.pc = step
To(step) == scan' = [scan EXCEPT !.pc = step]

-----------------------------------------------------------------------------
ScanBegin ==
  /\ At("off")
  /\ scan' = [NoScan EXCEPT !.pc = "top"]
  /\ UNCHANGED <<saved, job, cursor, recorded, packs, unqueued>>

\* (mutant) a number that was moved on already is not accepted.
MisnumberedStrict == Held <= Last /\ (Held \in completed \/ cursor # Held)

\* The journal and the number disagree, or the label has been scanned: after a
\* saved result the number may already be the next one.
Misnumbered ==
  /\ Held <= Last
  /\ Held \in completed \/ ~(cursor = Held \/ (pending.result /\ cursor = Held + 1))

\* The top of the loop: the next label, a saved result, or the end of the range.
Top ==
  /\ At("top") /\ ~Misnumbered
  /\ IF Held > Last THEN To("tail")
     ELSE scan' = [scan EXCEPT !.pc = IF pending.result THEN "verify" ELSE "offer", !.disk = Held]
  /\ UNCHANGED <<saved, job, cursor, recorded, packs, unqueued>>

\* The operator confirms the label; its custody is saved before any reading.
Confirm ==
  /\ At("offer")
  /\ pending' = [disk |-> scan.disk, result |-> FALSE]
  /\ To("read")
  /\ UNCHANGED <<saved, job, cursor, completed, packs, unqueued>>

\* QUIT, or the end of the input.
Quit ==
  /\ At("offer") /\ To("tail")
  /\ UNCHANGED <<saved, job, cursor, recorded, packs, unqueued>>

\* (mutant) a recorded result was verified and queued when it was recorded.
RecordedTrusted ==
  /\ At("read") /\ job[scan.disk] # "none" /\ saved[scan.disk] # "damaged"
  /\ To("save")
  /\ UNCHANGED <<saved, job, cursor, recorded, packs, unqueued>>

\* A job that has a result is not read again.
Recorded ==
  /\ At("read") /\ job[scan.disk] # "none" /\ saved[scan.disk] # "damaged"
  /\ To("verify")
  /\ UNCHANGED <<saved, job, cursor, recorded, packs, unqueued>>

ReadDisk ==
  /\ At("read") /\ job[scan.disk] = "none"
  /\ \E o \in Obtained :
       /\ \A d \in Disks : job[d] \in {"none", o[d]}
       /\ job' = [job EXCEPT ![scan.disk] = o[scan.disk]]
       /\ saved' = [saved EXCEPT ![scan.disk] = o[scan.disk]]
  /\ To("verify")
  /\ UNCHANGED <<cursor, recorded, packs, unqueued>>

\* No index pulse: the same label is offered again, and confirmed again.
Reseat ==
  /\ At("read") /\ job[scan.disk] = "none" /\ scan.reseats < MaxReseats
  /\ scan' = [scan EXCEPT !.pc = "top", !.reseats = @ + 1]
  /\ UNCHANGED <<saved, job, cursor, recorded, packs, unqueued>>

\* The files are verified, and their captures queued for packing.
Verify ==
  /\ At("verify") /\ saved[scan.disk] # "damaged"
  /\ packs' = packs \cup {scan.disk}
  /\ To("save")
  /\ UNCHANGED <<saved, job, cursor, recorded, unqueued>>

\* A task that cannot be saved is kept in mind and the scan goes on.
VerifyUnqueued ==
  /\ At("verify") /\ saved[scan.disk] # "damaged"
  /\ storage_errors' = storage_errors \cup {scan.disk}
  /\ To("save")
  /\ UNCHANGED <<saved, job, cursor, recorded, packs, refused, unheard>>

\* The result is in the journal before the number moves.
SaveResult ==
  /\ At("save")
  /\ pending' = [pending EXCEPT !.result = TRUE]
  /\ To("number")
  /\ UNCHANGED <<saved, job, cursor, completed, packs, unqueued>>

Number ==
  /\ At("number")
  /\ cursor' = IF cursor = scan.disk THEN scan.disk + 1 ELSE cursor
  /\ To("commit")
  /\ UNCHANGED <<saved, job, recorded, packs, unqueued>>

Commit ==
  /\ At("commit")
  /\ completed' = completed \cup {scan.disk} /\ pending' = Nobody
  /\ scan' = [NoScan EXCEPT !.pc = "top"]
  /\ UNCHANGED <<saved, job, cursor, packs, unqueued>>

\* The scan returns, also with an error: what it has in mind is printed.
ReportErrors ==
  /\ refused' = refused \cup storage_errors /\ storage_errors' = {}
  /\ UNCHANGED unheard

\* The process is killed: what it had in mind is gone.
LoseErrors ==
  /\ unheard' = unheard \cup storage_errors /\ storage_errors' = {}
  /\ UNCHANGED refused

\* The scan ends with an error: it disagrees with the numbering, the read
\* fails, or what is saved does not verify.
Broken ==
  \/ At("top") /\ Misnumbered
  \/ At("read") /\ (job[scan.disk] = "none" \/ saved[scan.disk] = "damaged")
  \/ At("verify") /\ saved[scan.disk] = "damaged"

ScanInit ==
  /\ saved = [d \in Disks |-> "none"] /\ job = [d \in Disks |-> "none"]
  /\ cursor = First /\ pending = Nobody /\ completed = {}
  /\ packs = {} /\ scan = NoScan
  /\ storage_errors = {} /\ refused = {} /\ unheard = {}

\* The steps that need no operator and no luck.
ScanStep == Top \/ Recorded \/ Verify \/ SaveResult \/ Number \/ Commit
=============================================================================
