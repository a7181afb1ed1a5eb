---------------------------- MODULE FinishingProofs ----------------------------
(***************************************************************************)
(* From a scan to the delivery: for every range of labels, every number of *)
(* processes and any number of failures, crashes and restarts, what is     *)
(* called complete, clean or ready is so.                                  *)
(***************************************************************************)
EXTENDS Finishing, TLAPS

-----------------------------------------------------------------------------
(* The inductive invariant. *)

Phases == Complete \cup {"none", "processing", "blocked", "packaging", "failed", "feeding",
                         "finishing", "waiting"}
Finals == [phase : Phases, package : Nat, attention : BOOLEAN, allow : BOOLEAN]
Flows == [phase : Phases, package : Nat, attention : BOOLEAN]
Reports == [Disks -> Qualities \cup {"unreported"}]
Archives == [images : [Disks -> Qualities], report : Reports, raws : Nat]
Stages == {"idle", "scan", "tail_process", "tail_report", "endscan", "finish", "process",
  "report", "decide", "raw", "package", "receipt", "intent", "copy", "point", "complete",
  "deliver", "work", "work_again", "refresh", "unmark"}
Kinds == {"none", "production", "scan", "finalize", "publish", "mutate"}

EvidenceOK ==
  /\ saved \in [Disks -> Qualities] /\ job \in [Disks -> {"none"} \cup Readings]
  /\ report \in Reports /\ raws \in Nat
RecordsOK ==
  /\ flow \in Flows /\ final \in Finals
  /\ rec \in [Procs -> Finals] /\ prod \in [Procs -> Flows]
FilesOK ==
  /\ zips \in Seq(Archives) /\ intents \subseteq DOMAIN zips
  /\ root \in Seq([Parts -> {"absent", "copy", "changed"}]) /\ Len(root) = Len(zips)
  /\ ready \in {0} \cup DOMAIN zips
StagesOK == pc \in [Procs -> Stages] /\ kind \in [Procs -> Kinds]

TypeOK == EvidenceOK /\ RecordsOK /\ FilesOK /\ StagesOK /\ due \in BOOLEAN /\ mutated \in BOOLEAN

\* The owner's lock: one command runs at a time.
OneCommand == \A p, q \in Procs : pc[p] # "idle" /\ pc[q] # "idle" => p = q

\* A scan moves on only with a result of the label in custody, and queues it first;
\* what is saved of a label is what its job recorded, or better, or was damaged.
Kept(d) ==
  /\ job[d] = "none" => saved[d] = "none"
  /\ job[d] = "raw" => saved[d] = "raw"
  /\ job[d] \in {"partial", "full"} => saved[d] \in {"partial", "full", "damaged"}
\* Labels whose packing tasks could not be saved.
Unsaved == storage_errors \cup refused \cup unheard
ScanSteps == {"off", "top", "tail", "offer", "read", "verify", "save", "number", "commit"}
ScanInv ==
  /\ scan \in [pc : ScanSteps, disk : {0} \cup Disks, reseats : Nat]
  /\ pending \in [disk : {0} \cup Disks, result : BOOLEAN]
  /\ completed \subseteq Disks /\ \A d \in completed : job[d] # "none"
  /\ pending.result => pending.disk \in Disks /\ job[pending.disk] # "none"
  /\ cursor \in First .. Last + 1
  /\ scan.pc \in {"offer", "read", "verify", "save", "number", "commit"} => scan.disk \in Disks
  /\ scan.pc \in {"read", "verify", "save", "number", "commit"} => pending.disk = scan.disk
  /\ scan.pc \in {"verify", "save", "number", "commit"} => job[scan.disk] # "none"
  /\ scan.pc \in {"save", "number", "commit"} => scan.disk \in packs \cup Unsaved
  /\ completed \subseteq packs \cup Unsaved
  /\ \A d \in Disks : Kept(d)

\* A command that changes evidence set the marker, and it is taken away only when a
\* report was written after the last change.
AuditOf(p) ==
  /\ pc[p] \in {"work", "work_again"} => due
  /\ pc[p] \in {"work", "decide", "unmark"} => ~mutated
AuditInv == AuditStaysDue /\ \A p \in Procs : AuditOf(p)

\* Where a report is written there are images, so that an archive of raw evidence
\* holds no final report, and any other one the report of this command.
ReportOf(p) ==
  /\ pc[p] \in {"process", "report", "tail_process", "tail_report", "work", "work_again",
                "refresh"} => Images # {}
  /\ pc[p] = "raw" => Images = {}
  /\ pc[p] = "decide" => report = saved
  /\ pc[p] = "package" => report \in {NoReport, saved}
ReportInv ==
  /\ report # NoReport => Images # {}
  /\ \A z \in DOMAIN zips : zips[z].report \in {NoReport, zips[z].images}
  /\ \A p \in Procs : ReportOf(p)

CleanZip(z) == \A d \in Disks : zips[z].images[d] \in {"none", "full"}
WholeZip(z) == \A d \in Disks : zips[z].images[d] \notin {"none", "damaged"}
Whole == \A d \in Disks : saved[d] \notin {"none", "damaged"}

\* A record that names an archive and needs no attention names a clean one.
Honest(r) == r.package # 0 => r.package \in DOMAIN zips /\ (r.attention \/ CleanZip(r.package))
\* A record that says complete names an archive that was handed off.
Closed(r) == r.phase \in Complete =>
  /\ r.package \in DOMAIN zips /\ Delivered(r.package)
  /\ r.phase = "complete_clean" => CleanZip(r.package)

Early == {"process", "report", "decide", "raw", "package"}
Archived == {"receipt", "intent", "copy", "point", "complete", "deliver"}

\* What a running command knows of the evidence before its archive, and of the
\* archive after it.
CommandOf(p) ==
  /\ pc[p] \in Early \cup {"receipt"} => rec[p].phase \notin Complete
  /\ pc[p] \in Early => rec[p].package = 0
  /\ pc[p] \in {"decide", "package"} => rec[p].attention \/ ~Flawed
  /\ pc[p] \in Archived =>
       rec[p].package \in DOMAIN zips /\ (rec[p].attention \/ CleanZip(rec[p].package))
  /\ pc[p] \in {"copy", "point", "complete", "deliver"} => rec[p].package \in intents
  /\ pc[p] \in {"point", "complete", "deliver"} => Delivered(rec[p].package)
  /\ pc[p] = "deliver" => kind[p] = "production" /\ prod[p].package = rec[p].package
  /\ kind[p] = "production" =>
       /\ pc[p] \in Early \cup {"finish"} => Whole
       /\ pc[p] \in Archived => WholeZip(rec[p].package)
HandoffInv ==
  /\ ready # 0 => Delivered(ready)
  /\ Honest(final) /\ Closed(final) /\ Closed(flow)
  /\ flow.phase \in Complete => WholeZip(flow.package)
  /\ \A p \in Procs : CommandOf(p)

FinishInv == TypeOK /\ OneCommand /\ ScanInv /\ ErrorsHeld /\ AuditInv /\ ReportInv /\ HandoffInv

-----------------------------------------------------------------------------
(* The steps of a process, by what they have in common. *)

\* A scan goes on: its command and the records of finalization stay.
ScanMove(p) ==
  \/ Scans(p) \/ Confirms(p) \/ Quits(p) \/ Reads(p) \/ Reseats(p) \/ Unqueued(p)
\* A command ends early.
Ends(p) == Fail(p) \/ Crash(p) \/ ScanError(p)
Acts(p) ==
  \/ Step(p) \/ Command(p) \/ Fail(p) \/ Crash(p)
  \/ Confirms(p) \/ Quits(p) \/ Reads(p) \/ Reseats(p) \/ Unqueued(p)
  \/ ScanError(p) \/ TailFails(p)
\* Nobody runs a command: files are changed by hand.
ByHand ==
  \/ \E z \in DOMAIN root, part \in Parts, how \in {"absent", "changed"} : EditCopy(z, part, how)
  \/ \E d \in Disks : Damage(d)
  \/ \E n \in First .. Last + 1 : SelectDisk(n)

LEMMA NextIs == Next <=> (\E p \in Procs : Acts(p)) \/ ByHand
  BY DEF Next, Acts, ByHand

LEMMA HandKeeps == ByHand => UNCHANGED <<local, report, raws, due, flow, final, zips, intents, ready, mutated>>
  BY DEF ByHand, EditCopy, Damage, SelectDisk, feed, files, local, bounds, recorded

\* Where a process may go from each step, and that it runs or starts alone.
LEMMA Stepping ==
  ASSUME StagesOK, NEW p \in Procs, Acts(p)
  PROVE /\ pc[p] = "idle" => Starts(p)
        /\ \A q \in Procs : q # p => pc'[q] = pc[q]
        /\ StagesOK'
<1> DEFINE Goal == /\ pc[p] = "idle" => Starts(p)
                   /\ \A q \in Procs : q # p => pc'[q] = pc[q]
                   /\ StagesOK'
<1> USE DEF StagesOK
<1>0. ASSUME NEW step \in Stages, Go(p, step) PROVE /\ \A q \in Procs : q # p => pc'[q] = pc[q]
                                                    /\ pc' \in [Procs -> Stages] /\ pc'[p] = step
  BY <1>0 DEF Go
<1>1. CASE ScanMove(p) \/ Background(p)
  <2>1. pc[p] = "scan" /\ UNCHANGED local
    BY <1>1 DEF ScanMove, Scans, Confirms, Quits, Reads, Reseats, Unqueued, Scanning, Background
  <2> QED
    BY <2>1 DEF local
<1>2. ASSUME Leave(p), pc[p] # "idle" PROVE Goal
  BY <1>2 DEF Leave, Go, Stages, Kinds
<1>3. CASE EndFeed(p) \/ TailReport(p) \/ TailFails(p) \/ Recover(p) \/ SaveReceipt(p) \/ Point(p)
           \/ Refresh(p)
  <2>1. pc[p] # "idle" /\ UNCHANGED kind /\ \E step \in Stages : Go(p, step)
    BY <1>3 DEF EndFeed, TailReport, TailFails, Recover, SaveReceipt, Point, Refresh, OthersKeep, Stages
  <2> QED
    BY <2>1, <1>0
<1>4. CASE CallFinish(p) \/ Report(p) \/ RawReport(p) \/ Build(p)
  <2>1. pc[p] # "idle" /\ UNCHANGED kind /\ \E step \in Stages : Go(p, step)
    BY <1>4 DEF CallFinish, Report, RawReport, Build, Open, Stages
  <2> QED
    BY <2>1, <1>0
<1>5. CASE Copy(p) \/ Finish(p) \/ Intent(p) \/ Decide(p)
  <2>1. pc[p] # "idle" /\ (UNCHANGED <<pc, kind>> \/ Leave(p) \/ (UNCHANGED kind /\ \E step \in Stages : Go(p, step)))
    <3>1. CASE Copy(p)
      <4>1. pc[p] # "idle"
        BY <3>1 DEF Copy
      <4>2. UNCHANGED local \/ Failed(p) \/ (Go(p, "point") /\ OthersKeep)
        BY <3>1 DEF Copy
      <4> QED
        BY <4>1, <4>2 DEF Failed, OthersKeep, Stages, local
    <3>2. CASE Finish(p) \/ Decide(p)
      <4>1. pc[p] # "idle"
        BY <3>2 DEF Finish, Decide
      <4>2. Leave(p) \/ (UNCHANGED kind /\ (Go(p, "deliver") \/ Go(p, "package")))
        BY <3>2 DEF Finish, Decide
      <4> QED
        BY <4>1, <4>2 DEF Stages
    <3>3. CASE Intent(p)
      <4>1. pc[p] # "idle"
        BY <3>3 DEF Intent
      <4>2. Leave(p) \/ (UNCHANGED kind /\ Go(p, "copy"))
        BY <3>3 DEF Intent, Failed, OthersKeep
      <4> QED
        BY <4>1, <4>2 DEF Stages
    <3> QED
      BY <3>1, <3>2, <3>3, <1>5
  <2> QED
    BY <2>1, <1>0, <1>2
<1>6. CASE Deliver(p) \/ Unmark(p) \/ Ends(p)
  BY <1>6, <1>2 DEF Deliver, Unmark, Ends, Fail, Crash, ScanError, Failed
<1>7. CASE EndScan(p) \/ Work(p)
  <2>1. pc[p] # "idle" /\ (Leave(p) \/ (UNCHANGED kind /\ \E step \in Stages : Go(p, step)))
    <3>1. pc[p] # "idle"
      BY <1>7 DEF EndScan, Work
    <3>2. Leave(p) \/ (UNCHANGED kind /\ (Go(p, "finish") \/ Go(p, "refresh")))
      BY <1>7 DEF EndScan, Acquired, Work, OthersKeep
    <3> QED
      BY <3>1, <3>2 DEF Stages
  <2> QED
    BY <2>1, <1>0, <1>2
<1>8. CASE ProductionStart(p)
  <2>1. Starts(p) /\ (UNCHANGED <<pc, kind>> \/ (kind' = [kind EXCEPT ![p] = "production"] /\ \E step \in Stages : Go(p, step)))
    <3>1. Starts(p)
      BY <1>8 DEF ProductionStart
    <3>2. UNCHANGED <<pc, kind>> \/ (kind' = [kind EXCEPT ![p] = "production"] /\ (Go(p, "finish") \/ Go(p, "scan")))
      BY <1>8 DEF ProductionStart, Acquired
    <3> QED
      BY <3>1, <3>2 DEF Stages
  <2> QED
    BY <2>1, <1>0 DEF Kinds
<1>9. CASE Command(p) /\ ~ProductionStart(p)
  <2>1. /\ Starts(p)
        /\ \E k \in Kinds : kind' = [kind EXCEPT ![p] = k]
        /\ \E step \in Stages : Go(p, step)
    <3>1. CASE ScanStart(p) \/ PackagePublish(p) \/ Mutate(p)
      BY <3>1 DEF ScanStart, PackagePublish, Mutate, PublishSaved, Expert, Stages, Kinds
    <3>2. CASE \E allow \in BOOLEAN : FinalizeStart(p, allow)
      BY <3>2 DEF FinalizeStart, Open, Expert, Stages, Kinds
    <3>3. CASE \E allow, again \in BOOLEAN : Resume(p, allow, again)
      BY <3>3 DEF Resume, PublishSaved, Open, Expert, Stages, Kinds
    <3> QED
      BY <3>1, <3>2, <3>3, <1>9 DEF Command
  <2> QED
    BY <2>1, <1>0
<1> QED
  BY <1>1, <1>3, <1>4, <1>5, <1>6, <1>7, <1>8, <1>9 DEF Acts, Step, ScanMove, Ends

LEMMA Alone ==
  ASSUME StagesOK, OneCommand, NEW p \in Procs, Acts(p)
  PROVE /\ \A q \in Procs : q # p => pc[q] = "idle" /\ pc'[q] = "idle"
        /\ OneCommand'
<1>1. \A q \in Procs : q # p => pc[q] = "idle"
  BY Stepping DEF OneCommand, Starts, Free
<1>2. \A q \in Procs : q # p => pc'[q] = "idle"
  BY <1>1, Stepping
<1> QED
  BY <1>1, <1>2 DEF OneCommand
-----------------------------------------------------------------------------
(* What a step does to the evidence and to the scan's files. *)

\* A partial image may be completed, a saved file may be changed by hand.
Better == /\ saved' \in [Disks -> Qualities]
          /\ \A d \in Disks : \/ saved'[d] = saved[d]
                              \/ saved[d] = "partial" /\ saved'[d] = "full"
Worse == /\ saved' \in [Disks -> Qualities]
         /\ \A d \in Disks : \/ saved'[d] = saved[d]
                             \/ saved[d] \in {"partial", "full"} /\ saved'[d] = "damaged"
ScanFiles == <<job, cursor, recorded, packs>>
ScanMoves == ScanStep \/ Confirm \/ Quit \/ ReadDisk \/ Reseat \/ VerifyUnqueued
EvidenceMoves ==
  \/ ScanMoves
  \/ UNCHANGED <<saved, ScanFiles, Unsaved>> /\ (scan' \in {scan, NoScan} \/ ScanBegin)
  \/ (Better \/ Worse) /\ UNCHANGED <<ScanFiles, Unsaved, scan>>
  \/ cursor' \in First .. Last + 1 /\ UNCHANGED <<saved, job, recorded, packs, Unsaved, scan>>

LEMMA FeedIs == UNCHANGED feed => UNCHANGED <<ScanFiles, Unsaved, scan>>
  BY DEF feed, ScanFiles, recorded, unqueued, Unsaved

\* What a process has in mind is told when its scan returns, or lost with it.
LEMMA ErrorsMove == ReportErrors \/ LoseErrors => storage_errors' = {} /\ UNCHANGED Unsaved
  BY DEF ReportErrors, LoseErrors, Unsaved

LEMMA ActsMoveEvidence ==
  ASSUME EvidenceOK, NEW p \in Procs, Acts(p)
  PROVE /\ EvidenceMoves
        /\ UNCHANGED saved \/ pc[p] = "scan" \/ Better
        /\ UNCHANGED saved \/ pc[p] \in {"scan", "process", "tail_process", "work", "work_again"}
<1> DEFINE Quiet == UNCHANGED <<saved, ScanFiles, Unsaved>> /\ (scan' \in {scan, NoScan} \/ ScanBegin)
           Improves == Better /\ UNCHANGED <<ScanFiles, Unsaved, scan>>
<1>0. SUFFICES \/ Quiet
               \/ ScanMoves /\ pc[p] = "scan"
               \/ Improves /\ pc[p] \in {"scan", "process", "tail_process", "work", "work_again"}
  BY DEF EvidenceMoves
<1>1. CASE ScanMove(p)
  BY <1>1 DEF ScanMove, Scans, Confirms, Quits, Reads, Reseats, Unqueued, Scanning, ScanMoves
<1>2. ASSUME NEW d \in Disks, saved[d] = "partial", saved' = [saved EXCEPT ![d] = "full"] PROVE Better
  BY <1>2 DEF Better, EvidenceOK, Qualities
<1>3. CASE Background(p)
  BY <1>3, <1>2, FeedIs DEF Background
<1>4. CASE Work(p)
  BY <1>4, <1>2, FeedIs DEF Work
<1>5. CASE Recover(p)
  <2>1. PICK better \in SUBSET {d \in Disks : saved[d] = "partial"} :
          saved' = [d \in Disks |-> IF d \in better THEN "full" ELSE saved[d]]
    BY <1>5 DEF Recover
  <2>2. Better
    BY <2>1 DEF Better, EvidenceOK, Qualities
  <2> QED
    BY <1>5, <2>2, FeedIs DEF Recover
<1>6. CASE EndFeed(p)
  BY <1>6 DEF EndFeed, ScanFiles, unqueued, Unsaved
<1>7. CASE Ends(p)
  BY <1>7, ErrorsMove DEF Ends, Fail, Crash, ScanError, Stays, ScanFiles
<1>8. CASE ProductionStart(p)
  BY <1>8, FeedIs DEF ProductionStart, ScanBegin, ScanFiles, unqueued, Unsaved
<1>9. CASE ScanStart(p)
  BY <1>9 DEF ScanStart, ScanBegin, ScanFiles, unqueued, Unsaved
<1>10. CASE Command(p) /\ ~ProductionStart(p) /\ ~ScanStart(p)
  <2>1. UNCHANGED <<saved, feed>>
    BY <1>10, SMTT(30) DEF Command, PackagePublish, Mutate, FinalizeStart, Resume
  <2> QED
    BY <2>1, FeedIs
<1>12. CASE EndScan(p)
  BY <1>12, ErrorsMove DEF EndScan, ScanFiles
<1>11. CASE \/ TailReport(p) \/ CallFinish(p) \/ Report(p) \/ Decide(p) \/ RawReport(p)
            \/ Build(p) \/ SaveReceipt(p) \/ Intent(p) \/ Copy(p) \/ Point(p) \/ Finish(p)
            \/ Deliver(p) \/ Refresh(p) \/ Unmark(p) \/ TailFails(p)
  <2>1. UNCHANGED <<saved, feed>>
    BY <1>11 DEF TailReport, CallFinish, Report, Decide, RawReport, Build, SaveReceipt,
       Intent, Copy, Point, Finish, Deliver, Refresh, Unmark, TailFails
  <2> QED
    BY <2>1, FeedIs
<1> QED
  BY <1>1, <1>3, <1>4, <1>5, <1>6, <1>7, <1>8, <1>9, <1>10, <1>11, <1>12 DEF Acts, Step, ScanMove, Ends

LEMMA HandMovesEvidence ==
  ASSUME EvidenceOK, ByHand
  PROVE EvidenceMoves
<1>1. CASE \E d \in Disks : Damage(d)
  <2>1. PICK d \in Disks : Damage(d)
    BY <1>1
  <2>2. Worse
    BY <2>1 DEF Damage, Worse, EvidenceOK, Qualities
  <2> QED
    BY <2>1, <2>2, FeedIs DEF Damage, EvidenceMoves
<1>2. CASE \E n \in First .. Last + 1 : SelectDisk(n)
  BY <1>2 DEF SelectDisk, EvidenceMoves, unqueued, Unsaved
<1>3. CASE UNCHANGED <<saved, feed>>
  BY <1>3, FeedIs DEF EvidenceMoves
<1>4. CASE \E z \in DOMAIN root, part \in Parts, how \in {"absent", "changed"} : EditCopy(z, part, how)
  BY <1>4, <1>3 DEF EditCopy
<1> QED
  BY <1>1, <1>2, <1>4 DEF ByHand

\* An image that is saved is replaced by no raw result, and a label with a result
\* is not read again.
LEMMA ImagesStay ==
  ASSUME EvidenceOK, ScanInv, EvidenceMoves, Images # {}
  PROVE Images' # {}
<1>1. PICK d \in Disks : saved[d] \notin {"none", "raw"}
  BY DEF Images
<1>2. saved'[d] \notin {"none", "raw"}
  <2>1. CASE Better \/ Worse
    BY <2>1, <1>1 DEF Better, Worse
  <2>2. CASE ReadDisk
    <3>1. d # scan.disk
      BY <2>2, <1>1 DEF ReadDisk, At, ScanInv, Kept
    <3> QED
      BY <2>2, <3>1, <1>1 DEF ReadDisk, EvidenceOK
  <2>3. CASE UNCHANGED saved
    BY <2>3, <1>1
  <2> QED
    BY <2>1, <2>2, <2>3 DEF EvidenceMoves, ScanMoves, ScanStep, Top, Recorded, Verify, SaveResult,
       Number, Commit, Confirm, Quit, Reseat, VerifyUnqueued
<1> QED
  BY <1>2 DEF Images

\* The scan's steps keep what it knows of its labels.
LEMMA ScanKeeps ==
  ASSUME ScanAssumption, EvidenceOK, ScanInv, EvidenceMoves
  PROVE ScanInv' /\ saved' \in [Disks -> Qualities] /\ job' \in [Disks -> {"none"} \cup Readings]
<1> USE DEF EvidenceOK
<1>u. UNCHANGED unqueued => UNCHANGED Unsaved
  BY DEF unqueued, Unsaved
<1>0. First \in Nat /\ Last \in Nat /\ First <= Last /\ 0 \notin Disks /\ Disks \subseteq Nat
      /\ \A d \in Disks : d \in First .. Last + 1 /\ d + 1 \in First .. Last + 1
  BY DEF ScanAssumption, Disks
<1>1. CASE UNCHANGED <<saved, ScanFiles, Unsaved>> /\ (scan' \in {scan, NoScan} \/ ScanBegin)
  <2>1. \/ scan' = scan
        \/ \E step \in {"off", "top"} : scan' = [pc |-> step, disk |-> 0, reseats |-> 0]
    BY <1>1 DEF ScanBegin, NoScan
  <2> QED
    BY <1>1, <2>1 DEF ScanFiles, ScanInv, ScanSteps, Kept, recorded
<1>2. CASE (Better \/ Worse) /\ UNCHANGED <<ScanFiles, Unsaved, scan>>
  <2>1. \A d \in Disks : Kept(d)'
    BY <1>2 DEF Better, Worse, Kept, ScanInv, ScanFiles
  <2> QED
    BY <1>2, <2>1 DEF Better, Worse, ScanFiles, ScanInv, recorded
<1>3. CASE cursor' \in First .. Last + 1 /\ UNCHANGED <<saved, job, recorded, packs, Unsaved, scan>>
  BY <1>3 DEF ScanInv, Kept, recorded
<1>4. CASE Top
  <2>1. Held \in First .. Last + 1
    BY <1>0 DEF Held, ScanInv
  <2>2. CASE Held > Last
    <3>1. scan' = [scan EXCEPT !.pc = "tail"]
      BY <2>2, <1>4 DEF Top, To
    <3> QED
      BY <3>1, <1>4, <1>u DEF Top, ScanInv, ScanSteps, Kept, recorded
  <2>3. CASE ~(Held > Last)
    <3>1. Held \in Disks
      BY <2>3, <2>1, <1>0 DEF Disks
    <3>2. CASE pending.result
      <4>1. scan' = [scan EXCEPT !.pc = "verify", !.disk = Held]
        BY <2>3, <3>2, <1>4 DEF Top
      <4>2. Held = pending.disk
        BY <3>2, <1>0 DEF Held, ScanInv
      <4> QED
        BY <4>1, <4>2, <3>1, <3>2, <1>4, <1>u DEF Top, ScanInv, ScanSteps, Kept, recorded
    <3>3. CASE ~pending.result
      <4>1. scan' = [scan EXCEPT !.pc = "offer", !.disk = Held]
        BY <2>3, <3>3, <1>4 DEF Top
      <4> QED
        BY <4>1, <3>1, <1>4, <1>u DEF Top, ScanInv, ScanSteps, Kept, recorded
    <3> QED
      BY <3>2, <3>3
  <2> QED
    BY <2>2, <2>3
<1>5. CASE ReadDisk
  <2>1. PICK o \in Obtained : /\ job' = [job EXCEPT ![scan.disk] = o[scan.disk]]
                              /\ saved' = [saved EXCEPT ![scan.disk] = o[scan.disk]]
    BY <1>5 DEF ReadDisk
  <2>2. scan.disk \in Disks /\ o[scan.disk] \in Readings
    BY <1>5 DEF ReadDisk, At, ScanInv, ScanAssumption
  <2>3. scan' = [scan EXCEPT !.pc = "verify"]
    BY <1>5 DEF ReadDisk, To
  <2>4. /\ saved' \in [Disks -> Qualities] /\ job' \in [Disks -> {"none"} \cup Readings]
        /\ \A d \in Disks : Kept(d)' /\ (job[d] # "none" => job'[d] # "none")
        /\ job'[scan.disk] # "none"
    BY <2>1, <2>2 DEF Kept, ScanInv, Qualities, Readings
  <2> QED
    BY <2>2, <2>3, <2>4, <1>5, <1>u DEF ReadDisk, At, ScanInv, ScanSteps, recorded
<1>6. CASE Recorded \/ Verify \/ VerifyUnqueued
  <2>1. \E step \in {"verify", "save"} : scan' = [scan EXCEPT !.pc = step] /\ UNCHANGED <<saved, job, cursor, pending, completed>>
    BY <1>6 DEF Recorded, Verify, VerifyUnqueued, To, recorded
  <2>2. scan.pc \in {"read", "verify"} /\ job[scan.disk] # "none"
    BY <1>6 DEF Recorded, Verify, VerifyUnqueued, At, ScanInv
  <2>3. packs \subseteq packs' /\ Unsaved \subseteq Unsaved' /\ (scan'.pc = "save" => scan.disk \in packs' \cup Unsaved')
    <3>1. CASE Recorded
      BY <3>1, <1>u DEF Recorded, To, ScanInv
    <3>2. CASE Verify \/ VerifyUnqueued
      BY <3>2, <1>u DEF Verify, VerifyUnqueued, Unsaved
    <3> QED
      BY <1>6, <3>1, <3>2
  <2>4. scan.disk \in Disks /\ pending.disk = scan.disk
    BY <2>2 DEF ScanInv
  <2>5. PICK step \in {"verify", "save"} : scan' = [scan EXCEPT !.pc = step]
    BY <2>1
  <2> QED
    BY <2>1, <2>2, <2>3, <2>4, <2>5 DEF ScanInv, ScanSteps, Kept
<1>7. CASE SaveResult \/ Number
  <2>1. scan.pc \in {"save", "number"} /\ scan.disk \in Disks /\ pending.disk = scan.disk /\ job[scan.disk] # "none"
    BY <1>7 DEF SaveResult, Number, At, ScanInv
  <2>2. PICK step \in {"number", "commit"} : scan' = [scan EXCEPT !.pc = step]
    BY <1>7 DEF SaveResult, Number, To
  <2>3. cursor' \in First .. Last + 1
    BY <1>7, <2>1, <1>0 DEF SaveResult, Number, ScanInv
  <2>4. pending' \in [disk : {0} \cup Disks, result : BOOLEAN] /\ pending'.disk = pending.disk
    BY <1>7 DEF SaveResult, Number, recorded, ScanInv
  <2>5. UNCHANGED <<saved, job, completed, packs, Unsaved>>
    BY <1>7, <1>u DEF SaveResult, Number, recorded
  <2> QED
    BY <2>1, <2>2, <2>3, <2>4, <2>5 DEF ScanInv, ScanSteps, Kept
<1>8. CASE Commit
  <2>1. scan' = [pc |-> "top", disk |-> 0, reseats |-> 0]
    BY <1>8 DEF Commit, NoScan
  <2> QED
    BY <2>1, <1>8, <1>u DEF Commit, At, Nobody, ScanInv, ScanSteps, Kept, recorded
<1>9. CASE Confirm
  <2>1. scan' = [scan EXCEPT !.pc = "read"] /\ scan.disk \in Disks
    BY <1>9 DEF Confirm, To, At, ScanInv
  <2> QED
    BY <2>1, <1>9, <1>u DEF Confirm, ScanInv, ScanSteps, Kept, recorded
<1>10. CASE Quit
  <2>1. scan' = [scan EXCEPT !.pc = "tail"]
    BY <1>10 DEF Quit, To
  <2> QED
    BY <2>1, <1>10, <1>u DEF Quit, ScanInv, ScanSteps, Kept, recorded
<1>11. CASE Reseat
  <2>1. scan' = [scan EXCEPT !.pc = "top", !.reseats = @ + 1]
    BY <1>11 DEF Reseat
  <2>2. scan.reseats + 1 \in Nat /\ scan.disk \in {0} \cup Disks
    BY DEF ScanInv
  <2>3. scan' = [pc |-> "top", disk |-> scan.disk, reseats |-> scan.reseats + 1]
    BY <2>1 DEF ScanInv
  <2> QED
    BY <2>2, <2>3, <1>11, <1>u DEF Reseat, ScanInv, ScanSteps, Kept, recorded
<1> QED
  BY <1>1, <1>2, <1>3, <1>4, <1>5, <1>6, <1>7, <1>8, <1>9, <1>10, <1>11 DEF EvidenceMoves, ScanMoves, ScanStep
-----------------------------------------------------------------------------
(* The marker of an audit that is due. *)

\* A process that is idle, or that goes on past all of this, has nothing to prove.
LEMMA AuditKept ==
  ASSUME TypeOK, OneCommand, AuditInv, NEW p \in Procs, Acts(p)
  PROVE AuditInv'
<1>1. \A q \in Procs : q # p => AuditOf(q)'
  BY Alone DEF TypeOK, AuditOf
<1>2. SUFFICES AuditStaysDue' /\ AuditOf(p)'
  BY <1>1 DEF AuditInv
<1>3. (mutated => due) /\ AuditOf(p) /\ pc \in [Procs -> Stages]
  BY DEF AuditInv, AuditStaysDue, TypeOK, StagesOK
<1>4. ASSUME NEW step \in Stages, Go(p, step) PROVE pc'[p] = step
  BY <1>4, <1>3 DEF Go
<1>5. ASSUME Leave(p) PROVE pc'[p] = "idle"
  BY <1>5, <1>3 DEF Leave, Go
<1> USE DEF AuditStaysDue, AuditOf
<1>6. CASE UNCHANGED <<due, mutated>> /\ pc'[p] \notin {"work", "work_again", "decide", "unmark"}
  BY <1>6, <1>3
<1>7. CASE ScanMove(p) \/ Copy(p) \/ Intent(p)
  <2>1. UNCHANGED <<due, mutated>> /\ (UNCHANGED pc \/ Leave(p) \/ Go(p, "copy") \/ Go(p, "point"))
    <3>1. CASE ScanMove(p)
      BY <3>1 DEF ScanMove, Scans, Confirms, Quits, Reads, Reseats, Unqueued, Scanning, local
    <3>2. CASE Copy(p)
      BY <3>2 DEF Copy, Failed, local
    <3>3. CASE Intent(p)
      BY <3>3 DEF Intent, Failed
    <3> QED
      BY <1>7, <3>1, <3>2, <3>3
  <2> QED
    BY <2>1, <1>3, <1>4, <1>5 DEF Stages
<1>8. CASE \/ EndFeed(p) \/ TailFails(p) \/ Recover(p) \/ SaveReceipt(p) \/ Point(p) \/ CallFinish(p)
           \/ RawReport(p) \/ Build(p)
  <2>1. /\ UNCHANGED <<due, mutated>>
        /\ \E step \in {"tail_process", "endscan", "report", "tail_report", "intent", "complete", "raw",
                        "process", "package", "receipt"} : Go(p, step)
    BY <1>8 DEF EndFeed, TailFails, Recover, SaveReceipt, Point, CallFinish, RawReport, Build, Open
  <2> QED
    BY <2>1, <1>4, <1>6 DEF Stages
<1>9. CASE Finish(p) \/ EndScan(p) \/ Deliver(p) \/ Ends(p)
  <2>1. UNCHANGED <<due, mutated>> /\ (Leave(p) \/ Go(p, "deliver") \/ Go(p, "finish"))
    BY <1>9 DEF Finish, EndScan, Deliver, Ends, Fail, Crash, ScanError, Failed, Stays, Acquired
  <2> QED
    BY <2>1, <1>4, <1>5, <1>6 DEF Stages
<1>10. CASE TailReport(p) \/ Report(p)
  BY <1>10, <1>4, <1>3 DEF TailReport, Report, Stages
<1>11. CASE Refresh(p)
  BY <1>11, <1>4, <1>3 DEF Refresh, Stages
<1>12. CASE Decide(p) \/ Unmark(p)
  <2>1. ~mutated /\ due' = FALSE /\ UNCHANGED mutated /\ (Leave(p) \/ Go(p, "package"))
    BY <1>12, <1>3 DEF Decide, Unmark
  <2> QED
    BY <2>1, <1>4, <1>5 DEF Stages
<1>13. CASE Background(p)
  BY <1>13, <1>3 DEF Background, local
<1>14. CASE Work(p)
  <2>1. CASE pc[p] = "work" /\ UNCHANGED mutated
    <3>1. ~mutated /\ (Leave(p) \/ Go(p, "refresh"))
      BY <2>1, <1>3, <1>14 DEF Work
    <3> QED
      BY <2>1, <3>1, <1>4, <1>5 DEF Stages
  <2>2. CASE pc[p] = "work_again" /\ UNCHANGED mutated
    <3>1. due' = TRUE /\ Go(p, "refresh")
      BY <2>2, <1>3, <1>14 DEF Work
    <3> QED
      BY <2>2, <3>1, <1>4 DEF Stages
  <2>3. CASE ~UNCHANGED mutated
    <3>1. due /\ due' = due /\ Go(p, "refresh")
      BY <2>3, <1>3, <1>14 DEF Work
    <3> QED
      BY <3>1, <1>4 DEF Stages
  <2> QED
    BY <2>1, <2>2, <2>3, <1>14 DEF Work
<1>15. CASE Mutate(p)
  <2>1. due' = TRUE /\ UNCHANGED mutated /\ (IF due THEN Go(p, "work_again") ELSE Go(p, "work"))
    BY <1>15 DEF Mutate
  <2> QED
    BY <2>1, <1>3, <1>4 DEF Stages
<1>16. CASE ProductionStart(p) \/ ScanStart(p) \/ PackagePublish(p)
  <2>1. UNCHANGED <<due, mutated>> /\ (UNCHANGED pc \/ Go(p, "finish") \/ Go(p, "scan") \/ Go(p, "intent"))
    BY <1>16 DEF ProductionStart, Acquired, ScanStart, PackagePublish, PublishSaved
  <2> QED
    BY <2>1, <1>3, <1>4, <1>6 DEF Stages
<1>17. CASE \/ \E allow \in BOOLEAN : FinalizeStart(p, allow)
            \/ \E allow, again \in BOOLEAN : Resume(p, allow, again)
  <2>1. UNCHANGED <<due, mutated>> /\ (Go(p, "process") \/ Go(p, "intent"))
    BY <1>17 DEF FinalizeStart, Resume, PublishSaved, Open
  <2> QED
    BY <2>1, <1>3, <1>4, <1>6, SMTT(30) DEF Stages
<1> QED
  BY <1>7, <1>8, <1>9, <1>10, <1>11, <1>12, <1>13, <1>14, <1>15, <1>16, <1>17
     DEF Acts, Step, Command, ScanMove, Ends
-----------------------------------------------------------------------------
(* Reports and the archives they are in. *)

\* An archive is only added, and only from the step before it.
LEMMA ZipsGrow ==
  ASSUME NEW p \in Procs, Acts(p)
  PROVE UNCHANGED <<zips, intents, root>> \/ Build(p) \/ Intent(p) \/ Copy(p)
<1>1. CASE ScanMove(p) \/ Ends(p)
  BY <1>1 DEF ScanMove, Scans, Confirms, Quits, Reads, Reseats, Unqueued, Scanning, Ends, Fail,
     Crash, ScanError, Stays, files
<1>2. CASE Command(p)
  BY <1>2 DEF Command, ProductionStart, ScanStart, PackagePublish, Mutate, FinalizeStart, Resume, files
<1>3. CASE \/ Background(p) \/ EndFeed(p) \/ TailReport(p) \/ EndScan(p) \/ CallFinish(p)
           \/ Recover(p) \/ Report(p) \/ Decide(p) \/ RawReport(p) \/ SaveReceipt(p)
           \/ Point(p) \/ Finish(p) \/ Deliver(p) \/ Work(p) \/ Refresh(p) \/ Unmark(p) \/ TailFails(p)
  BY <1>3 DEF Background, EndFeed, TailReport, EndScan, CallFinish, Recover, Report, Decide, RawReport,
     SaveReceipt, Point, Finish, Deliver, Work, Refresh, Unmark, TailFails, files
<1> QED
  BY <1>1, <1>2, <1>3 DEF Acts, Step, ScanMove, Ends

LEMMA ReportsKept ==
  ASSUME TypeOK, OneCommand, ScanInv, ReportInv, NEW p \in Procs, Acts(p)
  PROVE ReportInv'
<1>1. \A q \in Procs : q # p => ReportOf(q)'
  BY Alone DEF TypeOK, ReportOf
<1>2. ReportOf(p) /\ pc \in [Procs -> Stages]
  BY DEF ReportInv, TypeOK, StagesOK
<1>3. Images # {} => Images' # {}
  BY ActsMoveEvidence, ImagesStay DEF TypeOK
<1>4. ASSUME NEW step \in Stages, Go(p, step) PROVE pc'[p] = step
  BY <1>4, <1>2 DEF Go
<1>5. ASSUME Leave(p) PROVE pc'[p] = "idle"
  BY <1>5, <1>2 DEF Leave, Go
<1>6. UNCHANGED saved => Images' = Images
  BY DEF Images
<1>7. (report' # NoReport => Images' # {}) /\ (report' # report => report' = saved)
  <2>1. UNCHANGED report \/ (report' = saved /\ UNCHANGED saved /\ Images # {})
    <3>1. CASE Background(p)
      BY <3>1 DEF Background
    <3>2. CASE TailReport(p) \/ Report(p) \/ Refresh(p)
      BY <3>2, <1>2 DEF TailReport, Report, Refresh, ReportOf
    <3>3. CASE ScanMove(p) \/ Ends(p)
      BY <3>3 DEF ScanMove, Scans, Confirms, Quits, Reads, Reseats, Unqueued, Scanning, Ends, Fail,
         Crash, ScanError, Stays, files
    <3>4. CASE Command(p)
      BY <3>4, SMTT(30) DEF Command, ProductionStart, ScanStart, PackagePublish, Mutate, FinalizeStart, Resume
    <3>5. CASE \/ EndFeed(p) \/ EndScan(p) \/ CallFinish(p) \/ Recover(p) \/ Decide(p) \/ RawReport(p)
               \/ Build(p) \/ SaveReceipt(p) \/ Intent(p) \/ Copy(p) \/ Point(p) \/ Finish(p)
               \/ Deliver(p) \/ Work(p) \/ Unmark(p) \/ TailFails(p)
      BY <3>5 DEF EndFeed, EndScan, CallFinish, Recover, Decide, RawReport, Build, SaveReceipt,
         Intent, Copy, Point, Finish, Deliver, Work, Unmark, TailFails
    <3> QED
      BY <3>1, <3>2, <3>3, <3>4, <3>5 DEF Acts, Step, ScanMove, Ends
  <2> QED
    BY <2>1, <1>3 DEF ReportInv
<1>8. \A z \in DOMAIN zips' : zips'[z].report \in {NoReport, zips'[z].images}
  <2>1. CASE UNCHANGED zips
    BY <2>1 DEF ReportInv
  <2>2. CASE Build(p)
    <3> DEFINE archive == [images |-> saved, report |-> report, raws |-> raws]
    <3>1. zips' = Append(zips, archive) /\ pc[p] = "package"
      BY <2>2 DEF Build
    <3>2. archive.report \in {NoReport, archive.images}
      BY <3>1, <1>2 DEF ReportOf
    <3>3. archive \in Archives /\ zips \in Seq(Archives)
      BY DEF Archives, TypeOK, EvidenceOK, FilesOK
    <3> HIDE DEF archive
    <3> QED
      BY <3>1, <3>2, <3>3 DEF ReportInv
  <2>3. CASE Intent(p) \/ Copy(p)
    BY <2>1, <2>3 DEF Intent, Copy
  <2> QED
    BY <2>1, <2>2, <2>3, ZipsGrow
<1>9. SUFFICES ReportOf(p)'
  BY <1>1, <1>7, <1>8 DEF ReportInv
<1> USE DEF ReportOf
<1>10. CASE pc'[p] \notin {"process", "report", "tail_process", "tail_report", "work", "work_again",
                          "refresh", "raw", "decide", "package"}
  BY <1>10
<1>11. CASE ScanMove(p) \/ Copy(p) \/ Intent(p)
  <2>1. pc[p] \in {"scan", "copy", "intent"} /\ (UNCHANGED pc \/ Leave(p) \/ Go(p, "copy") \/ Go(p, "point"))
    <3>1. CASE ScanMove(p)
      BY <3>1 DEF ScanMove, Scans, Confirms, Quits, Reads, Reseats, Unqueued, Scanning, local
    <3>2. CASE Copy(p)
      BY <3>2 DEF Copy, Failed, local
    <3>3. CASE Intent(p)
      BY <3>3 DEF Intent, Failed
    <3> QED
      BY <1>11, <3>1, <3>2, <3>3
  <2> QED
    BY <2>1, <1>2, <1>4, <1>5, <1>10 DEF Stages
<1>12. CASE TailFails(p) \/ SaveReceipt(p) \/ Point(p) \/ Build(p) \/ TailReport(p)
  <2>1. \E step \in {"endscan", "intent", "complete", "receipt"} : Go(p, step)
    BY <1>12 DEF TailFails, SaveReceipt, Point, Build, TailReport
  <2> QED
    BY <2>1, <1>4, <1>10 DEF Stages
<1>13. CASE Finish(p) \/ EndScan(p) \/ Deliver(p) \/ Ends(p) \/ Unmark(p)
  <2>1. Leave(p) \/ Go(p, "deliver") \/ Go(p, "finish")
    BY <1>13 DEF Finish, EndScan, Deliver, Ends, Fail, Crash, ScanError, Failed, Stays, Acquired, Unmark
  <2> QED
    BY <2>1, <1>4, <1>5, <1>10 DEF Stages
<1>14. CASE EndFeed(p)
  <2>1. CASE \E d \in completed : job[d] # "raw"
    <3>1. PICK d \in completed : job[d] # "raw"
      BY <2>1
    <3>2. d \in Disks /\ saved[d] \in {"partial", "full", "damaged"}
      BY <3>1 DEF ScanInv, Kept, TypeOK, EvidenceOK, Readings
    <3>3. Images # {}
      BY <3>2 DEF Images
    <3>4. Go(p, "tail_process")
      BY <2>1, <1>14 DEF EndFeed
    <3> QED
      BY <3>3, <3>4, <1>3, <1>4 DEF Stages
  <2>2. CASE ~\E d \in completed : job[d] # "raw"
    <3>1. Go(p, "endscan")
      BY <2>2, <1>14 DEF EndFeed
    <3> QED
      BY <3>1, <1>4, <1>10 DEF Stages
  <2> QED
    BY <2>1, <2>2
<1>15. CASE Recover(p)
  <2>1. Images # {} /\ (Go(p, "report") \/ Go(p, "tail_report"))
    BY <1>15, <1>2 DEF Recover
  <2> QED
    BY <2>1, <1>3, <1>4 DEF Stages
<1>16. CASE Report(p)
  <2>1. Go(p, "decide") /\ report' = saved /\ UNCHANGED saved
    BY <1>16 DEF Report
  <2> QED
    BY <2>1, <1>4 DEF Stages
<1>17. CASE Decide(p)
  <2>1. report = saved /\ UNCHANGED <<saved, report>> /\ (Leave(p) \/ Go(p, "package"))
    BY <1>17, <1>2 DEF Decide
  <2> QED
    BY <2>1, <1>4, <1>5 DEF Stages
<1>18. CASE RawReport(p)
  <2>1. report = NoReport /\ UNCHANGED <<saved, report>> /\ Go(p, "package")
    BY <1>18, <1>2 DEF RawReport, ReportInv
  <2> QED
    BY <2>1, <1>4 DEF Stages
<1>19. CASE CallFinish(p)
  <2>1. UNCHANGED saved /\ (IF Images = {} THEN Go(p, "raw") ELSE Go(p, "process"))
    BY <1>19 DEF CallFinish, Open
  <2> QED
    BY <2>1, <1>4, <1>6 DEF Stages
<1>20. CASE Background(p)
  BY <1>20, <1>2, <1>10 DEF Background, local
<1>21. CASE Work(p) \/ Refresh(p)
  <2>1. Images # {} /\ (Leave(p) \/ Go(p, "refresh") \/ Go(p, "unmark"))
    BY <1>21, <1>2 DEF Work, Refresh, OthersKeep
  <2> QED
    BY <2>1, <1>3, <1>4, <1>5, <1>10 DEF Stages
<1>22. CASE Mutate(p)
  <2>1. Images # {} /\ (Go(p, "work_again") \/ Go(p, "work"))
    BY <1>22 DEF Mutate
  <2> QED
    BY <2>1, <1>3, <1>4 DEF Stages
<1>23. CASE ProductionStart(p) \/ ScanStart(p) \/ PackagePublish(p)
  <2>1. /\ UNCHANGED pc \/ Go(p, "finish") \/ Go(p, "scan") \/ Go(p, "intent")
        /\ pc[p] = "idle"
    BY <1>23 DEF ProductionStart, Acquired, ScanStart, PackagePublish, PublishSaved, Expert, Starts
  <2> QED
    BY <2>1, <1>2, <1>4, <1>10 DEF Stages
<1>24. CASE \/ \E allow \in BOOLEAN : FinalizeStart(p, allow)
            \/ \E allow, again \in BOOLEAN : Resume(p, allow, again)
  <2>1. (Images # {} /\ Go(p, "process")) \/ Go(p, "intent")
    BY <1>24 DEF FinalizeStart, Resume, PublishSaved, Open
  <2> QED
    BY <2>1, <1>3, <1>4, <1>10, SMTT(30) DEF Stages
<1> QED
  BY <1>11, <1>12, <1>13, <1>14, <1>15, <1>16, <1>17, <1>18, <1>19, <1>20, <1>21, <1>22, <1>23, <1>24
     DEF Acts, Step, Command, ScanMove, Ends
-----------------------------------------------------------------------------
(* Types. *)

LEMMA FinalFields ==
  ASSUME NEW r \in Finals, NEW f \in Phases, NEW n \in Nat, NEW b \in BOOLEAN
  PROVE /\ [r EXCEPT !.phase = f] \in Finals /\ [r EXCEPT !.package = n] \in Finals
        /\ [r EXCEPT !.attention = b] \in Finals /\ [r EXCEPT !.allow = b] \in Finals
  BY DEF Finals

\* What a change of one field leaves of the others.
LEMMA OtherFields ==
  ASSUME NEW r \in Finals, NEW v
  PROVE /\ [r EXCEPT !.phase = v].package = r.package /\ [r EXCEPT !.phase = v].phase = v
        /\ [r EXCEPT !.package = v].phase = r.phase /\ [r EXCEPT !.package = v].package = v
        /\ [r EXCEPT !.attention = v].phase = r.phase /\ [r EXCEPT !.attention = v].package = r.package
        /\ [r EXCEPT !.allow = v].phase = r.phase /\ [r EXCEPT !.allow = v].package = r.package
  BY DEF Finals

LEMMA FlowFields ==
  ASSUME NEW r \in Flows, NEW f \in Phases, NEW n \in Nat
  PROVE [r EXCEPT !.phase = f] \in Flows /\ [r EXCEPT !.package = n] \in Flows
  BY DEF Flows

LEMMA EmptyRecords == NoFinal \in Finals /\ NoFlow \in Flows
  BY DEF NoFinal, NoFlow, Finals, Flows, Phases

LEMMA OutcomeIsPhase == \A b : Outcome(b) \in Complete /\ Outcome(b) \in Phases
  BY DEF Outcome, Complete, Phases

\* A new record of a finalization.
LEMMA Opened ==
  ASSUME RecordsOK, NEW p \in Procs, NEW allow \in BOOLEAN, NEW step, Open(p, allow, step)
  PROVE /\ rec' \in [Procs -> Finals] /\ final' \in Finals /\ final' = rec'[p]
        /\ rec'[p].phase = "processing" /\ rec'[p].package = 0
<1>1. PICK opened : opened = [NoFinal EXCEPT !.phase = "processing"]
  OBVIOUS
<1>2. PICK fresh : fresh = [opened EXCEPT !.allow = allow]
  OBVIOUS
<1>3. fresh \in Finals /\ fresh.phase = "processing" /\ fresh.package = 0
  <2>1. NoFinal \in Finals /\ NoFinal.package = 0 /\ "processing" \in Phases /\ 0 \in Nat
    BY EmptyRecords DEF NoFinal, Phases
  <2>2. opened \in Finals /\ opened.phase = "processing" /\ opened.package = 0
    BY <1>1, <2>1, FinalFields, OtherFields
  <2> QED
    BY <1>2, <2>1, <2>2, FinalFields, OtherFields
<1>4. rec' = [rec EXCEPT ![p] = fresh] /\ final' = rec'[p]
  BY <1>1, <1>2 DEF Open
<1> QED
  BY <1>3, <1>4 DEF RecordsOK

\* What is left when a command ends.
LEMMA LeaveRecords ==
  ASSUME RecordsOK, NEW p \in Procs, Leave(p)
  PROVE rec' \in [Procs -> Finals] /\ prod' \in [Procs -> Flows]
  BY EmptyRecords DEF RecordsOK, Leave

LEMMA FailedRecords ==
  ASSUME RecordsOK, NEW p \in Procs, Failed(p)
  PROVE RecordsOK'
<1>1. [rec[p] EXCEPT !.phase = "failed"] \in Finals /\ [prod[p] EXCEPT !.phase = "failed"] \in Flows
  <2>1. "failed" \in Phases
    BY DEF Phases
  <2>2. rec[p] \in Finals /\ prod[p] \in Flows
    BY DEF RecordsOK
  <2> QED
    BY <2>1, <2>2, FinalFields, FlowFields
<1>2. final' \in {final, [rec[p] EXCEPT !.phase = "failed"]}
      /\ flow' \in {flow, [prod[p] EXCEPT !.phase = "failed"]}
  BY DEF Failed
<1> QED
  BY <1>1, <1>2, LeaveRecords DEF Failed, RecordsOK

\* The flow when all reads are saved.
LEMMA AcquiredFlow ==
  ASSUME RecordsOK, NEW p \in Procs, Acquired(p)
  PROVE prod' \in [Procs -> Flows] /\ flow' \in Flows /\ flow'.phase = "finishing"
<1>1. PICK b \in BOOLEAN : b = (\E d \in Disks : job[d] # "full")
  OBVIOUS
<1>2. PICK now : now = [phase |-> "finishing", package |-> 0, attention |-> b]
  OBVIOUS
<1>3. now \in Flows /\ now.phase = "finishing"
  BY <1>2 DEF Flows, Phases
<1>4. prod' = [prod EXCEPT ![p] = now] /\ flow' = prod'[p]
  BY <1>1, <1>2 DEF Acquired
<1> QED
  BY <1>3, <1>4 DEF RecordsOK

LEMMA RecordsTyped ==
  ASSUME TypeOK, NEW p \in Procs, Acts(p)
  PROVE RecordsOK'
<1>0. RecordsOK /\ rec[p] \in Finals /\ prod[p] \in Flows /\ flow \in Flows /\ final \in Finals
  BY DEF TypeOK, RecordsOK
<1>1. CASE UNCHANGED <<flow, final, rec, prod>>
  BY <1>0, <1>1 DEF RecordsOK
<1>2. CASE \/ ScanMove(p) \/ Background(p) \/ EndFeed(p) \/ TailFails(p) \/ Recover(p) \/ TailReport(p)
           \/ Point(p) \/ Refresh(p) \/ Mutate(p)
  BY <1>1, <1>2 DEF ScanMove, Scans, Confirms, Quits, Reads, Reseats, Unqueued, Scanning, local,
     Background, EndFeed, TailFails, Recover, TailReport, Point, Refresh, Mutate, OthersKeep
<1>3. CASE Unmark(p) \/ Work(p)
  <2>1. UNCHANGED <<flow, final>> /\ (Leave(p) \/ UNCHANGED <<rec, prod>>)
    BY <1>3 DEF Unmark, Work, OthersKeep
  <2> QED
    BY <2>1, <1>0, LeaveRecords DEF RecordsOK
<1>4. CASE ScanStart(p)
  BY <1>4, <1>1 DEF ScanStart
<1>5. CASE SaveReceipt(p)
  BY <1>5, <1>0 DEF SaveReceipt, OthersKeep, RecordsOK
<1>6. CASE Ends(p)
  <2>1. Failed(p) \/ (Leave(p) /\ UNCHANGED <<flow, final>>)
    BY <1>6 DEF Ends, Fail, Crash, ScanError
  <2> QED
    BY <2>1, <1>0, FailedRecords, LeaveRecords DEF RecordsOK
<1>7. CASE Copy(p) \/ Intent(p)
  <2>1. Failed(p) \/ UNCHANGED <<flow, final, rec, prod>>
    <3>1. CASE Copy(p)
      BY <3>1 DEF Copy, OthersKeep, local
    <3>2. CASE Intent(p)
      BY <3>2 DEF Intent, OthersKeep
    <3> QED
      BY <3>1, <3>2, <1>7
  <2> QED
    BY <2>1, <1>0, <1>1, FailedRecords
<1>8. CASE CallFinish(p)
  <2>1. \E step : Open(p, TRUE, step)
    BY <1>8 DEF CallFinish
  <2> QED
    BY <2>1, <1>8, <1>0, Opened DEF CallFinish, RecordsOK
<1>9. CASE \E allow \in BOOLEAN : FinalizeStart(p, allow)
  BY <1>9, <1>0, Opened DEF FinalizeStart, RecordsOK
<1>10. ASSUME PublishSaved(p), UNCHANGED <<flow, prod>> PROVE RecordsOK'
  BY <1>10, <1>0 DEF PublishSaved, RecordsOK
<1>11. CASE PackagePublish(p)
  BY <1>11, <1>10 DEF PackagePublish
<1>12. CASE \E allow, again \in BOOLEAN : Resume(p, allow, again)
  <2>1. PICK allow, again \in BOOLEAN : Resume(p, allow, again)
    BY <1>12
  <2>2. PICK b \in BOOLEAN : b = (final.allow \/ allow \/ again)
    OBVIOUS
  <2>3. UNCHANGED <<flow, prod>> /\ (PublishSaved(p) \/ Open(p, b, "process"))
    BY <2>1, <2>2 DEF Resume
  <2> QED
    BY <2>3, <1>0, <1>10, Opened DEF RecordsOK
<1>13. CASE Report(p)
  <2>1. PICK b \in BOOLEAN : b = Flawed
    BY DEF Flawed
  <2>2. rec' = [rec EXCEPT ![p] = [rec[p] EXCEPT !.attention = b]]
    BY <1>13, <2>1, <1>0 DEF Report, RecordsOK
  <2>3. [rec[p] EXCEPT !.attention = b] \in Finals
    BY <1>0, FinalFields, EmptyRecords DEF Phases
  <2> QED
    BY <1>13, <2>2, <2>3, <1>0 DEF Report, RecordsOK
<1>14. CASE Decide(p)
  <2>1. "blocked" \in Phases /\ "packaging" \in Phases
    BY DEF Phases
  <2>2. [rec[p] EXCEPT !.phase = "blocked"] \in Finals /\ [rec[p] EXCEPT !.phase = "packaging"] \in Finals
    BY <2>1, <1>0, FinalFields
  <2>3. CASE rec[p].attention /\ ~rec[p].allow
    BY <2>2, <2>3, <1>14, <1>0, LeaveRecords DEF Decide, RecordsOK
  <2>4. CASE ~(rec[p].attention /\ ~rec[p].allow)
    <3>1. rec' = [rec EXCEPT ![p] = [rec[p] EXCEPT !.phase = "packaging"]] /\ final' = rec'[p]
          /\ UNCHANGED <<flow, prod>>
      BY <2>4, <1>14, <1>0 DEF Decide, RecordsOK
    <3> QED
      BY <3>1, <2>2, <1>0 DEF RecordsOK
  <2> QED
    BY <2>3, <2>4
<1>15. CASE RawReport(p)
  <2>1. PICK one : one = [rec EXCEPT ![p].phase = "packaging"]
    OBVIOUS
  <2>2. "packaging" \in Phases /\ TRUE \in BOOLEAN /\ 0 \in Nat
    BY DEF Phases
  <2>3. one \in [Procs -> Finals]
    BY <2>1, <2>2, <1>0, FinalFields DEF RecordsOK
  <2>4. rec' = [one EXCEPT ![p] = [one[p] EXCEPT !.attention = TRUE]] /\ final' = rec'[p]
        /\ UNCHANGED <<flow, prod>>
    BY <2>1, <2>3, <1>15 DEF RawReport
  <2>5. [one[p] EXCEPT !.attention = TRUE] \in Finals
    BY <2>2, <2>3, FinalFields
  <2> QED
    BY <2>3, <2>4, <2>5, <1>0 DEF RecordsOK
<1>16. CASE Build(p)
  <2>1. Len(zips') \in Nat
    <3>1. zips \in Seq(Archives) /\ [images |-> saved, report |-> report, raws |-> raws] \in Archives
      BY DEF TypeOK, FilesOK, EvidenceOK, Archives
    <3> QED
      BY <3>1, <1>16 DEF Build
  <2>2. [rec[p] EXCEPT !.package = Len(zips')] \in Finals
    BY <2>1, <1>0, FinalFields, EmptyRecords DEF Phases
  <2>3. rec' = [rec EXCEPT ![p] = [rec[p] EXCEPT !.package = Len(zips')]] /\ UNCHANGED <<flow, final, prod>>
    BY <1>16, <1>0 DEF Build, RecordsOK
  <2> QED
    BY <2>2, <2>3, <1>0 DEF RecordsOK
<1>17. CASE Finish(p)
  <2>1. PICK f \in Phases : f = Outcome(rec[p].attention)
    BY OutcomeIsPhase
  <2>2. final' = [rec[p] EXCEPT !.phase = f]
    BY <2>1, <1>17 DEF Finish
  <2>3. final' \in Finals
    BY <2>2, <1>0, FinalFields
  <2>4. flow' = flow /\ rec' \in [Procs -> Finals] /\ prod' \in [Procs -> Flows]
    <3>1. CASE kind[p] = "production"
      <4>1. rec[p].package \in Nat
        BY <1>0 DEF Finals
      <4>2. [prod[p] EXCEPT !.package = rec[p].package] \in Flows
        BY <4>1, <1>0, FlowFields DEF Phases
      <4>3. prod' = [prod EXCEPT ![p] = [prod[p] EXCEPT !.package = rec[p].package]] /\ UNCHANGED rec
        BY <3>1, <1>17, <1>0 DEF Finish, RecordsOK
      <4> QED
        BY <4>2, <4>3, <1>17, <1>0 DEF Finish, RecordsOK
    <3>2. CASE kind[p] # "production"
      BY <3>2, <1>17, <1>0, LeaveRecords DEF Finish
    <3> QED
      BY <3>1, <3>2
  <2> QED
    BY <2>3, <2>4, <1>0 DEF RecordsOK
<1>18. CASE Deliver(p)
  <2>1. PICK f \in Phases : f = Outcome(prod[p].attention \/ rec[p].attention)
    BY OutcomeIsPhase
  <2>2. flow' = [prod[p] EXCEPT !.phase = f] /\ UNCHANGED final /\ Leave(p)
    BY <2>1, <1>18 DEF Deliver
  <2> QED
    BY <2>2, <1>0, FlowFields, LeaveRecords DEF RecordsOK
<1>19. CASE EndScan(p)
  <2>1. CASE Acquired(p) /\ UNCHANGED <<kind, rec, final>>
    BY <2>1, <1>0, AcquiredFlow DEF RecordsOK
  <2>2. CASE Leave(p) /\ UNCHANGED <<flow, final>>
    BY <2>2, <1>0, LeaveRecords DEF RecordsOK
  <2>3. CASE Leave(p) /\ UNCHANGED final /\ flow' = [prod[p] EXCEPT !.phase = IF Spoiled THEN "failed" ELSE "waiting"]
    <3>1. PICK f \in Phases : f = IF Spoiled THEN "failed" ELSE "waiting"
      BY DEF Phases
    <3> QED
      BY <3>1, <2>3, <1>0, FlowFields, LeaveRecords DEF RecordsOK
  <2> QED
    BY <1>19, <2>1, <2>2, <2>3 DEF EndScan
<1>20. CASE ProductionStart(p)
  <2>1. CASE Acquired(p) /\ UNCHANGED <<rec, final>>
    BY <2>1, <1>0, AcquiredFlow DEF RecordsOK
  <2>2. ASSUME UNCHANGED <<rec, final>>, NEW f \in {"failed", "feeding"}, flow' = [flow EXCEPT !.phase = f],
               UNCHANGED prod \/ prod' = [prod EXCEPT ![p] = flow']
        PROVE RecordsOK'
    <3>1. flow' \in Flows
      BY <2>2, <1>0, FlowFields DEF Phases
    <3> QED
      BY <2>2, <3>1, <1>0 DEF RecordsOK
  <2>3. UNCHANGED <<rec, final>>
    BY <1>20 DEF ProductionStart
  <2> QED
    BY <1>20, <2>1, <2>2, <2>3 DEF ProductionStart
<1> QED
  BY <1>2, <1>3, <1>4, <1>5, <1>6, <1>7, <1>8, <1>9, <1>11, <1>12, <1>13, <1>14, <1>15, <1>16, <1>17,
     <1>18, <1>19, <1>20 DEF Acts, Step, Command, ScanMove, Ends
-----------------------------------------------------------------------------
(* The archives and their copies. *)

Remains(z) ==
  /\ z \in DOMAIN zips' /\ zips'[z] = zips[z] /\ (z \in intents => z \in intents')
  /\ \A k \in Parts : \/ root'[z][k] \in {root[z][k], "copy"}
                      \/ <<z, k>> \in touched'

\* An archive, its intent and its copies stay, unless a copy is changed by hand.
LEMMA ArchivesStay ==
  ASSUME TypeOK, HandoffInv, Next
  PROVE /\ FilesOK'
        /\ touched \subseteq touched'
        /\ \A z \in DOMAIN zips : Remains(z)
<1>0. FilesOK /\ DOMAIN zips = 1 .. Len(zips) /\ DOMAIN root = 1 .. Len(zips) /\ Len(zips) \in Nat
  BY DEF TypeOK, FilesOK
<1> DEFINE Goal == FilesOK' /\ touched \subseteq touched' /\ \A z \in DOMAIN zips : Remains(z)
<1>1. CASE UNCHANGED <<zips, intents, root, ready>> /\ touched \subseteq touched'
  BY <1>0, <1>1 DEF FilesOK, Remains
<1>2. CASE ByHand
  <2>1. CASE \E z \in DOMAIN root, part \in Parts, how \in {"absent", "changed"} : EditCopy(z, part, how)
    <3>1. PICK y \in DOMAIN root, part \in Parts, how \in {"absent", "changed"} :
            /\ root' = [root EXCEPT ![y][part] = how] /\ touched' = touched \cup {<<y, part>>}
            /\ UNCHANGED <<zips, intents, ready>>
      BY <2>1 DEF EditCopy
    <3>2. root' = [root EXCEPT ![y] = [root[y] EXCEPT ![part] = how]]
      BY <3>1, <1>0 DEF FilesOK
    <3>3. [root[y] EXCEPT ![part] = how] \in [Parts -> {"absent", "copy", "changed"}]
      BY <3>1, <1>0 DEF FilesOK
    <3>4. root' \in Seq([Parts -> {"absent", "copy", "changed"}]) /\ Len(root') = Len(root)
      BY <3>1, <3>2, <3>3, <1>0 DEF FilesOK
    <3>5. \A z \in DOMAIN zips, k \in Parts : root'[z][k] = root[z][k] \/ <<z, k>> \in touched'
      BY <3>1, <3>2, <1>0 DEF FilesOK
    <3> QED
      BY <3>1, <3>4, <3>5, <1>0 DEF FilesOK, Remains
  <2>2. CASE \/ \E d \in Disks : Damage(d)
             \/ \E n \in First .. Last + 1 : SelectDisk(n)
    BY <2>2, <1>1 DEF Damage, SelectDisk, files
  <2> QED
    BY <1>2, <2>1, <2>2 DEF ByHand
<1>3. ASSUME NEW p \in Procs, Acts(p) PROVE Goal
  <2>0. CommandOf(p)
    BY DEF HandoffInv
  <2>1. UNCHANGED touched
    <3>1. CASE ScanMove(p) \/ Ends(p)
      BY <3>1 DEF ScanMove, Scans, Confirms, Quits, Reads, Reseats, Unqueued, Scanning, Ends, Fail,
         Crash, ScanError, Stays, bounds
    <3>2. CASE Command(p)
      BY <3>2, SMTT(30) DEF Command, ProductionStart, ScanStart, PackagePublish, Mutate, FinalizeStart, Resume, bounds
    <3>3. CASE \/ Background(p) \/ EndFeed(p) \/ TailReport(p) \/ EndScan(p) \/ CallFinish(p)
               \/ Recover(p) \/ Report(p) \/ Decide(p) \/ RawReport(p) \/ SaveReceipt(p)
               \/ Build(p) \/ Intent(p) \/ Copy(p)
               \/ Point(p) \/ Finish(p) \/ Deliver(p) \/ Work(p) \/ Refresh(p) \/ Unmark(p) \/ TailFails(p)
      BY <3>3 DEF Background, EndFeed, TailReport, EndScan, CallFinish, Recover, Report, Decide, RawReport,
         SaveReceipt, Point, Finish, Deliver, Work, Refresh, Unmark, TailFails, Build, Intent, Copy, bounds
    <3> QED
      BY <1>3, <3>1, <3>2, <3>3 DEF Acts, Step, ScanMove, Ends
  <2>2. CASE Build(p)
    <3> DEFINE archive == [images |-> saved, report |-> report, raws |-> raws]
    <3>1. /\ zips' = Append(zips, archive) /\ root' = Append(root, AllAbsent)
          /\ UNCHANGED <<intents, ready>>
      BY <2>2 DEF Build
    <3>2. archive \in Archives /\ AllAbsent \in [Parts -> {"absent", "copy", "changed"}]
      BY DEF Archives, TypeOK, EvidenceOK, AllAbsent
    <3> HIDE DEF archive
    <3>3. /\ zips' \in Seq(Archives) /\ Len(zips') = Len(zips) + 1
          /\ root' \in Seq([Parts -> {"absent", "copy", "changed"}]) /\ Len(root') = Len(root) + 1
          /\ \A z \in DOMAIN zips : z \in DOMAIN zips' /\ zips'[z] = zips[z] /\ root'[z] = root[z]
      BY <3>1, <3>2, <1>0 DEF FilesOK
    <3> QED
      BY <3>1, <3>3, <2>1, <1>0 DEF FilesOK, Remains
  <2>3. CASE Intent(p)
    <3>1. rec[p].package \in DOMAIN zips
      BY <2>3, <2>0 DEF Intent, CommandOf, Archived
    <3>2. UNCHANGED <<zips, root, ready>> /\ intents' \in {intents, intents \cup {rec[p].package}}
      BY <2>3 DEF Intent
    <3> QED
      BY <3>1, <3>2, <2>1, <1>0 DEF FilesOK, Remains
  <2>4. CASE Copy(p)
    <3>1. CASE UNCHANGED root
      BY <3>1, <2>4, <2>1, <1>1 DEF Copy
    <3>2. CASE ~UNCHANGED root
      <4>1. PICK part \in Parts : root' = [root EXCEPT ![rec[p].package][part] = "copy"]
        BY <3>2, <2>4 DEF Copy, Parts
      <4>2. rec[p].package \in DOMAIN zips
        BY <2>4, <2>0 DEF Copy, CommandOf, Archived
      <4>3. root' = [root EXCEPT ![rec[p].package] = [root[rec[p].package] EXCEPT ![part] = "copy"]]
        BY <4>1, <4>2, <1>0 DEF FilesOK
      <4>4. [root[rec[p].package] EXCEPT ![part] = "copy"] \in [Parts -> {"absent", "copy", "changed"}]
        BY <4>1, <4>2, <1>0 DEF FilesOK
      <4>5. root' \in Seq([Parts -> {"absent", "copy", "changed"}]) /\ Len(root') = Len(root)
        BY <4>2, <4>3, <4>4, <1>0 DEF FilesOK
      <4>6. \A z \in DOMAIN zips, k \in Parts : root'[z][k] \in {root[z][k], "copy"}
        BY <4>1, <4>2, <4>3, <1>0 DEF FilesOK
      <4>7. UNCHANGED <<zips, intents, ready>>
        BY <2>4 DEF Copy
      <4> QED
        BY <4>5, <4>6, <4>7, <2>1, <1>0 DEF FilesOK, Remains
    <3> QED
      BY <3>1, <3>2
  <2>5. CASE UNCHANGED <<zips, intents, root>>
    <3>1. ready' \in {ready} \cup {rec[p].package} /\ (ready' # ready => pc[p] = "point")
      <4>1. CASE ScanMove(p) \/ Ends(p)
        BY <4>1 DEF ScanMove, Scans, Confirms, Quits, Reads, Reseats, Unqueued, Scanning, Ends, Fail,
           Crash, ScanError, Stays, files
      <4>2. CASE Command(p)
        BY <4>2, SMTT(30) DEF Command, ProductionStart, ScanStart, PackagePublish, Mutate, FinalizeStart, Resume, files
      <4>3. CASE \/ Background(p) \/ EndFeed(p) \/ TailReport(p) \/ EndScan(p) \/ CallFinish(p)
                 \/ Recover(p) \/ Report(p) \/ Decide(p) \/ RawReport(p) \/ SaveReceipt(p)
                 \/ Build(p) \/ Intent(p) \/ Copy(p) \/ Point(p)
                 \/ Finish(p) \/ Deliver(p) \/ Work(p) \/ Refresh(p) \/ Unmark(p) \/ TailFails(p)
        BY <4>3 DEF Background, EndFeed, TailReport, EndScan, CallFinish, Recover, Report, Decide, RawReport,
           SaveReceipt, Point, Finish, Deliver, Work, Refresh, Unmark, TailFails, Build, Intent, Copy, files
      <4> QED
        BY <1>3, <4>1, <4>2, <4>3 DEF Acts, Step, ScanMove, Ends
    <3>2. ready' \in {0} \cup DOMAIN zips
      BY <3>1, <2>0, <1>0 DEF CommandOf, Archived, FilesOK
    <3> QED
      BY <3>2, <2>1, <2>5, <1>0 DEF FilesOK, Remains
  <2> QED
    BY <1>3, <2>2, <2>3, <2>4, <2>5, ZipsGrow
<1> QED
  BY <1>2, <1>3, NextIs

LEMMA DeliveredStays ==
  ASSUME TypeOK, HandoffInv, Next, NEW z, Delivered(z)
  PROVE Delivered(z)'
<1>1. z \in DOMAIN zips
  BY DEF Delivered, TypeOK, FilesOK
<1>2. Remains(z) /\ touched \subseteq touched'
  BY <1>1, ArchivesStay
<1> QED
  BY <1>2 DEF Delivered, Remains

LEMMA ZipsStay ==
  ASSUME TypeOK, HandoffInv, Next, NEW z \in DOMAIN zips
  PROVE /\ z \in DOMAIN zips'
        /\ CleanZip(z) => CleanZip(z)'
        /\ WholeZip(z) => WholeZip(z)'
<1>1. Remains(z)
  BY ArchivesStay
<1> QED
  BY <1>1 DEF Remains, CleanZip, WholeZip

\* What a saved record says stays true.
LEMMA RecordsStay ==
  ASSUME TypeOK, HandoffInv, Next, NEW r
  PROVE (Honest(r) => Honest(r)') /\ (Closed(r) => Closed(r)')
<1>1. ASSUME Honest(r) PROVE Honest(r)'
  BY <1>1, ZipsStay DEF Honest
<1>2. ASSUME Closed(r) PROVE Closed(r)'
  BY <1>2, ZipsStay, DeliveredStays DEF Closed
<1> QED
  BY <1>1, <1>2
-----------------------------------------------------------------------------
(* What is called complete, clean or ready is so. *)

LEMMA PhasesDiffer ==
  {"processing", "packaging", "blocked", "failed", "feeding", "finishing", "waiting", "none"} \cap Complete = {}
  BY DEF Complete

LEMMA HandKeepsHandoff ==
  ASSUME TypeOK, OneCommand, HandoffInv, Next, ByHand
  PROVE HandoffInv'
<1>1. UNCHANGED <<pc, kind, rec, prod, flow, final, zips, intents, ready>>
  BY HandKeeps DEF local
<1>2. Free
  BY DEF ByHand, EditCopy, Damage, SelectDisk
<1>3. \A p \in Procs : CommandOf(p)'
  <2>1. ASSUME NEW p \in Procs PROVE pc'[p] = "idle"
    BY <1>1, <1>2 DEF Free
  <2> QED
    BY <2>1 DEF CommandOf, Early, Archived
<1>4. PICK r : r = final
  OBVIOUS
<1>5. PICK w : w = flow
  OBVIOUS
<1>6. PICK z : z = ready
  OBVIOUS
<1>7. Honest(r)' /\ Closed(r)' /\ Closed(w)'
  BY <1>4, <1>5, RecordsStay DEF HandoffInv
<1>8. z # 0 => Delivered(z)'
  BY <1>6, DeliveredStays DEF HandoffInv
<1>9. ASSUME w.phase \in Complete PROVE WholeZip(w.package)'
  BY <1>5, <1>9, ZipsStay DEF HandoffInv, Closed
<1> QED
  BY <1>1, <1>3, <1>4, <1>5, <1>6, <1>7, <1>8, <1>9 DEF HandoffInv

\* A step of a process leaves what it knows of its command true.
LEMMA CommandKept ==
  ASSUME ScanAssumption, TypeOK, OneCommand, ScanInv, HandoffInv, Next, NEW p \in Procs, Acts(p)
  PROVE CommandOf(p)'
<1>0. /\ CommandOf(p) /\ pc \in [Procs -> Stages] /\ kind \in [Procs -> Kinds] /\ RecordsOK
      /\ rec[p] \in Finals
  BY DEF HandoffInv, TypeOK, StagesOK, RecordsOK
<1>1. ASSUME NEW step \in Stages, Go(p, step) PROVE pc'[p] = step
  BY <1>1, <1>0 DEF Go
<1>2. ASSUME Leave(p) PROVE pc'[p] = "idle"
  BY <1>2, <1>0 DEF Leave, Go
<1>3. CASE pc'[p] \notin Early \cup Archived \cup {"finish"}
  BY <1>3 DEF CommandOf, Early, Archived
<1>4. CASE UNCHANGED local /\ pc[p] \notin Early \cup Archived \cup {"finish"}
  BY <1>3, <1>4 DEF local
<1>5. CASE ScanMove(p) \/ Background(p)
  <2>1. pc[p] = "scan" /\ UNCHANGED local
    BY <1>5 DEF ScanMove, Scans, Confirms, Quits, Reads, Reseats, Unqueued, Scanning, Background
  <2> QED
    BY <2>1, <1>4 DEF Early, Archived
<1>6. ASSUME Leave(p) \/ \E step \in Stages \ (Early \cup Archived \cup {"finish"}) : Go(p, step) PROVE CommandOf(p)'
  BY <1>6, <1>1, <1>2, <1>3 DEF Early, Archived
<1>7. CASE \/ EndFeed(p) \/ TailFails(p) \/ TailReport(p) \/ Refresh(p) \/ Ends(p) \/ Deliver(p)
           \/ Unmark(p) \/ ScanStart(p) \/ Mutate(p)
  <2>1. Leave(p) \/ \E step \in {"tail_process", "endscan", "unmark", "scan", "work", "work_again"} : Go(p, step)
    BY <1>7 DEF EndFeed, TailFails, TailReport, Refresh, Ends, Fail, Crash, ScanError, Failed, Deliver,
       Unmark, ScanStart, Mutate
  <2> QED
    BY <2>1, <1>6 DEF Stages, Early, Archived
<1>8. CASE Work(p)
  <2>1. Leave(p) \/ Go(p, "refresh")
    BY <1>8 DEF Work, OthersKeep
  <2> QED
    BY <2>1, <1>6 DEF Stages, Early, Archived
<1>9. ASSUME Acquired(p), Ready, UNCHANGED saved PROVE CommandOf(p)'
  <2>1. pc'[p] = "finish"
    BY <1>9, <1>1 DEF Acquired, Stages
  <2>2. Whole
    BY <1>9 DEF Ready, Whole, ScanInv, Kept, TypeOK, EvidenceOK, Readings
  <2>3. Whole'
    BY <2>2, <1>9 DEF Whole
  <2> QED
    BY <2>1, <2>3 DEF CommandOf, Early, Archived
<1>10. CASE EndScan(p)
  <2>1. Leave(p) \/ (Acquired(p) /\ Ready /\ UNCHANGED saved)
    BY <1>10 DEF EndScan
  <2> QED
    BY <2>1, <1>6, <1>9
<1>11. CASE ProductionStart(p)
  <2>1. \/ Acquired(p) /\ Ready /\ UNCHANGED saved
        \/ UNCHANGED pc /\ pc[p] = "idle"
        \/ Go(p, "scan")
    BY <1>11 DEF ProductionStart, Starts
  <2>2. CASE UNCHANGED pc /\ pc[p] = "idle"
    BY <2>2, <1>3 DEF Early, Archived
  <2>3. CASE Go(p, "scan")
    BY <2>3, <1>6 DEF Stages, Early, Archived
  <2> QED
    BY <2>1, <2>2, <2>3, <1>9
<1>12. ASSUME NEW allow \in BOOLEAN, NEW step \in {"process", "raw"}, Open(p, allow, step),
              kind'[p] = "production" => Whole'
       PROVE CommandOf(p)'
  <2>1. rec'[p].phase = "processing" /\ rec'[p].package = 0
    BY <1>12, <1>0, Opened
  <2>2. pc'[p] = step
    BY <1>12, <1>1 DEF Open, Stages
  <2>3. rec'[p].phase \notin Complete
    BY <2>1, PhasesDiffer
  <2> QED
    BY <1>12, <2>1, <2>2, <2>3 DEF CommandOf, Early, Archived
<1>13. CASE CallFinish(p)
  <2>1. \E step \in {"process", "raw"} : Open(p, TRUE, step)
    BY <1>13 DEF CallFinish
  <2>2. pc[p] = "finish" /\ UNCHANGED <<saved, kind>>
    BY <1>13 DEF CallFinish
  <2>3. kind'[p] = "production" => Whole'
    BY <2>2, <1>0 DEF CommandOf, Whole
  <2> QED
    BY <2>1, <2>3, <1>12
<1>14. CASE \E allow \in BOOLEAN : FinalizeStart(p, allow)
  <2>1. PICK allow \in BOOLEAN : FinalizeStart(p, allow)
    BY <1>14
  <2>2. Open(p, allow, "process") /\ kind'[p] = "finalize"
    BY <2>1, <1>0 DEF FinalizeStart
  <2> QED
    BY <2>2, <1>12
<1>15. ASSUME PublishSaved(p) PROVE CommandOf(p)'
  <2>1. pc'[p] = "intent" /\ kind'[p] = "publish" /\ rec'[p] = final /\ final.package # 0
    BY <1>15, <1>0, <1>1 DEF PublishSaved, Stages, RecordsOK
  <2>2. PICK r : r = final
    OBVIOUS
  <2>3. Honest(r)'
    BY <2>2, RecordsStay DEF HandoffInv
  <2> QED
    BY <2>1, <2>2, <2>3 DEF CommandOf, Early, Archived, Honest
<1>16. CASE PackagePublish(p)
  BY <1>16, <1>15 DEF PackagePublish
<1>17. CASE \E allow, again \in BOOLEAN : Resume(p, allow, again)
  <2>1. PICK allow, again \in BOOLEAN : Resume(p, allow, again)
    BY <1>17
  <2>2. PICK b \in BOOLEAN : b = (final.allow \/ allow \/ again)
    OBVIOUS
  <2>3. PublishSaved(p) \/ (Open(p, b, "process") /\ kind'[p] = "finalize")
    BY <2>1, <2>2, <1>0 DEF Resume
  <2> QED
    BY <2>3, <1>12, <1>15
<1>18. CASE Recover(p)
  <2>1. UNCHANGED <<rec, kind>> /\ (Go(p, "tail_report") \/ (Go(p, "report") /\ pc[p] = "process"))
    BY <1>18 DEF Recover, OthersKeep
  <2>2. CASE Go(p, "tail_report")
    BY <2>2, <1>6 DEF Stages, Early, Archived
  <2>3. CASE Go(p, "report") /\ pc[p] = "process"
    <3>1. pc'[p] = "report"
      BY <2>3, <1>1 DEF Stages
    <3>2. Whole => Whole'
      BY <2>3, ActsMoveEvidence DEF Whole, Better, TypeOK
    <3> QED
      BY <2>1, <2>3, <3>1, <3>2, <1>0 DEF CommandOf, Early, Archived
  <2> QED
    BY <2>1, <2>2, <2>3
<1>19. CASE Report(p)
  <2>1. pc[p] = "report" /\ pc'[p] = "decide" /\ UNCHANGED <<kind, saved>>
    BY <1>19, <1>1 DEF Report, Stages
  <2>2. rec' = [rec EXCEPT ![p] = [rec[p] EXCEPT !.attention = Flawed]]
    BY <1>19, <1>0 DEF Report, RecordsOK
  <2>3. rec'[p] = [rec[p] EXCEPT !.attention = Flawed]
    BY <2>2, <1>0 DEF RecordsOK
  <2>4. rec'[p].phase = rec[p].phase /\ rec'[p].package = rec[p].package
    BY <2>3, <1>0, OtherFields
  <2>5. rec'[p].attention \/ ~Flawed
    BY <2>3, <1>0 DEF Finals
  <2>6. Flawed' <=> Flawed
    BY <2>1 DEF Flawed
  <2>7. Whole => Whole'
    BY <2>1 DEF Whole
  <2> QED
    BY <2>1, <2>4, <2>5, <2>6, <2>7, <1>0 DEF CommandOf, Early, Archived
<1>20. CASE Decide(p)
  <2>1. pc[p] = "decide" /\ UNCHANGED saved
    BY <1>20 DEF Decide
  <2>2. CASE Leave(p)
    BY <2>2, <1>6
  <2>3. CASE ~Leave(p)
    <3>1. Go(p, "package") /\ UNCHANGED kind /\ rec' = [rec EXCEPT ![p] = [rec[p] EXCEPT !.phase = "packaging"]]
      BY <2>3, <1>20, <1>0 DEF Decide, RecordsOK
    <3>2. rec'[p] = [rec[p] EXCEPT !.phase = "packaging"]
      BY <3>1, <1>0 DEF RecordsOK
    <3>3. rec'[p].phase = "packaging" /\ rec'[p].package = rec[p].package /\ rec'[p].attention = rec[p].attention
      BY <3>2, <1>0 DEF Finals
    <3>4. (Flawed' <=> Flawed) /\ (Whole => Whole')
      BY <2>1 DEF Flawed, Whole
    <3>5. pc'[p] = "package"
      BY <3>1, <1>1 DEF Stages
    <3> QED
      BY <2>1, <3>1, <3>3, <3>4, <3>5, <1>0, PhasesDiffer DEF CommandOf, Early, Archived
  <2> QED
    BY <2>2, <2>3
<1>21. CASE RawReport(p)
  <2>1. pc[p] = "raw" /\ pc'[p] = "package" /\ UNCHANGED <<saved, kind>>
    BY <1>21, <1>1 DEF RawReport, Stages
  <2>2. rec'[p].phase = "packaging" /\ rec'[p].package = rec[p].package /\ rec'[p].attention
    BY <1>21, <1>0 DEF RawReport, RecordsOK, Finals
  <2>3. Whole => Whole'
    BY <2>1 DEF Whole
  <2> QED
    BY <2>1, <2>2, <2>3, <1>0, PhasesDiffer DEF CommandOf, Early, Archived
<1>22. CASE Build(p)
  <2>1. pc[p] = "package" /\ pc'[p] = "receipt" /\ UNCHANGED <<saved, kind>>
    BY <1>22, <1>1 DEF Build, Stages
  <2>2. rec' = [rec EXCEPT ![p] = [rec[p] EXCEPT !.package = Len(zips')]]
    BY <1>22, <1>0 DEF Build, RecordsOK
  <2>3. rec'[p] = [rec[p] EXCEPT !.package = Len(zips')]
    BY <2>2, <1>0 DEF RecordsOK
  <2>4. rec'[p].phase = rec[p].phase /\ rec'[p].package = Len(zips') /\ rec'[p].attention = rec[p].attention
    BY <2>3, <1>0 DEF Finals
  <2>5. PICK archive : archive = [images |-> saved, report |-> report, raws |-> raws]
    OBVIOUS
  <2>6. zips' = Append(zips, archive) /\ archive \in Archives /\ zips \in Seq(Archives) /\ archive.images = saved
    BY <1>22, <2>5 DEF Build, Archives, TypeOK, EvidenceOK, FilesOK
  <2>7. Len(zips') \in DOMAIN zips' /\ zips'[Len(zips')] = archive
    BY <2>6
  <2>8. ~Flawed => CleanZip(Len(zips))'
    BY <2>6, <2>7 DEF Flawed, CleanZip
  <2>9. Whole => WholeZip(Len(zips))'
    BY <2>6, <2>7 DEF Whole, WholeZip
  <2> QED
    BY <2>1, <2>4, <2>7, <2>8, <2>9, <1>0 DEF CommandOf, Early, Archived
<1>23. ASSUME pc[p] \in Archived, UNCHANGED <<rec, kind>>
       PROVE /\ rec'[p].package \in DOMAIN zips' /\ (rec'[p].attention \/ CleanZip(rec[p].package)')
             /\ (kind'[p] = "production" => WholeZip(rec[p].package)')
             /\ (rec[p].package \in intents => rec'[p].package \in intents')
             /\ (Delivered(rec[p].package) => Delivered(rec[p].package)')
             /\ rec[p].package \in DOMAIN zips
  <2>1. PICK z : z = rec[p].package
    OBVIOUS
  <2>2. z \in DOMAIN zips /\ Remains(z)
    BY <2>1, <1>0, <1>23, ArchivesStay DEF CommandOf
  <2>3. (Delivered(z) => Delivered(z)') /\ (CleanZip(z) => CleanZip(z)') /\ (WholeZip(z) => WholeZip(z)')
    BY <2>2, ZipsStay, DeliveredStays
  <2> QED
    BY <2>1, <2>2, <2>3, <1>0, <1>23 DEF CommandOf, Remains
<1>24. CASE SaveReceipt(p)
  <2>1. pc[p] = "receipt" /\ pc'[p] = "intent" /\ UNCHANGED <<rec, kind>>
    BY <1>24, <1>1 DEF SaveReceipt, OthersKeep, Stages
  <2> QED
    BY <2>1, <1>23 DEF CommandOf, Early, Archived
<1>25. CASE Intent(p)
  <2>1. pc[p] = "intent" /\ (Leave(p) \/ (Go(p, "copy") /\ UNCHANGED <<rec, kind>> /\ rec[p].package \in intents'))
    BY <1>25 DEF Intent, Failed, OthersKeep
  <2>2. CASE Go(p, "copy") /\ UNCHANGED <<rec, kind>> /\ rec[p].package \in intents'
    <3>1. pc'[p] = "copy"
      BY <2>2, <1>1 DEF Stages
    <3> QED
      BY <2>1, <2>2, <3>1, <1>23 DEF CommandOf, Early, Archived
  <2> QED
    BY <2>1, <2>2, <1>6
<1>26. CASE Copy(p)
  <2>1. pc[p] = "copy" /\ (UNCHANGED local \/ Leave(p) \/ (Go(p, "point") /\ UNCHANGED <<rec, kind>>))
    BY <1>26 DEF Copy, Failed, OthersKeep
  <2>2. CASE UNCHANGED local
    BY <2>1, <2>2, <1>23, <1>0 DEF local, CommandOf, Early, Archived
  <2>3. CASE Go(p, "point") /\ UNCHANGED <<rec, kind>> /\ ~Leave(p) /\ ~UNCHANGED local
    <3>1. pc'[p] = "point"
      BY <2>3, <1>1 DEF Stages
    <3>2. \A k \in Parts : root[rec[p].package][k] = "copy"
      BY <1>26, <2>3 DEF Copy, Failed
    <3>3. Delivered(rec[p].package)
      BY <3>2, <2>1, <1>0 DEF Delivered, CommandOf
    <3> QED
      BY <2>1, <2>3, <3>1, <3>3, <1>23, <1>0 DEF CommandOf, Early, Archived
  <2> QED
    BY <2>1, <2>2, <2>3, <1>6
<1>27. CASE Point(p)
  <2>1. pc[p] = "point" /\ pc'[p] = "complete" /\ UNCHANGED <<rec, kind>>
    BY <1>27, <1>1 DEF Point, OthersKeep, Stages
  <2> QED
    BY <2>1, <1>23, <1>0 DEF CommandOf, Early, Archived
<1>28. CASE Finish(p)
  <2>1. CASE kind[p] # "production"
    BY <2>1, <1>28, <1>6 DEF Finish
  <2>2. CASE kind[p] = "production"
    <3>1. pc[p] = "complete" /\ pc'[p] = "deliver" /\ UNCHANGED <<rec, kind>>
          /\ prod' = [prod EXCEPT ![p] = [prod[p] EXCEPT !.package = rec[p].package]]
      BY <2>2, <1>28, <1>0, <1>1 DEF Finish, Stages, RecordsOK
    <3>2. prod'[p].package = rec[p].package
      BY <3>1, <1>0 DEF RecordsOK, Flows
    <3> QED
      BY <2>2, <3>1, <3>2, <1>23, <1>0 DEF CommandOf, Early, Archived
  <2> QED
    BY <2>1, <2>2
<1> QED
  BY <1>5, <1>7, <1>8, <1>10, <1>11, <1>13, <1>14, <1>16, <1>17, <1>18, <1>19, <1>20, <1>21, <1>22,
     <1>24, <1>25, <1>26, <1>27, <1>28 DEF Acts, Step, Command, ScanMove, Ends
\* The record of a finalization names an archive only when it was written, and
\* calls itself complete only when that archive was handed off.
LEMMA FinalKept ==
  ASSUME TypeOK, HandoffInv, Next, NEW p \in Procs, Acts(p)
  PROVE Honest(final)' /\ Closed(final)'
<1>0. /\ CommandOf(p) /\ RecordsOK /\ rec[p] \in Finals /\ final \in Finals
      /\ Honest(final) /\ Closed(final)
  BY DEF HandoffInv, TypeOK, RecordsOK
<1>1. CASE UNCHANGED final
  <2>1. PICK r : r = final
    OBVIOUS
  <2> QED
    BY <1>0, <1>1, <2>1, RecordsStay
<1>2. ASSUME NEW r, final' = r, Honest(r)', r.phase \notin Complete PROVE Honest(final)' /\ Closed(final)'
  BY <1>2 DEF Closed
<1>3. ASSUME NEW r, r.package = 0 PROVE Honest(r)'
  BY <1>3 DEF Honest
<1>4. ASSUME pc[p] \in Finalizing PROVE Honest(rec[p])
  BY <1>4, <1>0 DEF Finalizing, CommandOf, Honest, Early, Archived
<1>5. ASSUME Failed(p), ~UNCHANGED final PROVE Honest(final)' /\ Closed(final)'
  <2>1. pc[p] \in Finalizing /\ final' = [rec[p] EXCEPT !.phase = "failed"]
    BY <1>5 DEF Failed
  <2>2. PICK r : r = [rec[p] EXCEPT !.phase = "failed"]
    OBVIOUS
  <2>3. r.phase = "failed" /\ r.package = rec[p].package /\ r.attention = rec[p].attention
    BY <2>2, <1>0 DEF Finals
  <2>4. Honest(r)
    BY <2>1, <2>3, <1>4 DEF Honest
  <2> QED
    BY <2>1, <2>2, <2>3, <2>4, <1>2, RecordsStay, PhasesDiffer
<1>6. ASSUME NEW allow \in BOOLEAN, NEW step, Open(p, allow, step) PROVE Honest(final)' /\ Closed(final)'
  <2>1. final'.phase = "processing" /\ final'.package = 0
    BY <1>6, <1>0, Opened
  <2> QED
    BY <2>1, PhasesDiffer DEF Honest, Closed
<1>7. CASE ScanMove(p) \/ Ends(p)
  <2>1. UNCHANGED final \/ Failed(p)
    BY <1>7 DEF ScanMove, Scans, Confirms, Quits, Reads, Reseats, Unqueued, Scanning, Ends, Fail,
       Crash, ScanError
  <2> QED
    BY <2>1, <1>1, <1>5
<1>8. CASE ProductionStart(p) \/ ScanStart(p) \/ PackagePublish(p) \/ Mutate(p)
  BY <1>8, <1>1 DEF ProductionStart, ScanStart, PackagePublish, PublishSaved, Mutate
<1>9. CASE \/ \E allow \in BOOLEAN : FinalizeStart(p, allow)
           \/ \E allow, again \in BOOLEAN : Resume(p, allow, again)
  <2>1. CASE \E allow \in BOOLEAN : FinalizeStart(p, allow)
    BY <2>1, <1>6 DEF FinalizeStart
  <2>2. CASE \E allow, again \in BOOLEAN : Resume(p, allow, again)
    <3>1. PICK allow, again \in BOOLEAN : Resume(p, allow, again)
      BY <2>2
    <3>2. PICK b \in BOOLEAN : b = (final.allow \/ allow \/ again)
      OBVIOUS
    <3>3. UNCHANGED final \/ Open(p, b, "process")
      BY <3>1, <3>2 DEF Resume, PublishSaved
    <3> QED
      BY <3>3, <1>1, <1>6
  <2> QED
    BY <1>9, <2>1, <2>2
<1>10. CASE \/ Background(p) \/ EndFeed(p) \/ TailReport(p) \/ EndScan(p)
            \/ Recover(p) \/ Report(p) \/ Build(p) \/ Intent(p) \/ Copy(p)
            \/ Point(p) \/ Deliver(p) \/ Work(p) \/ Refresh(p) \/ Unmark(p) \/ TailFails(p)
  <2>1. UNCHANGED final \/ Failed(p)
    <3>1. CASE Intent(p) \/ Copy(p)
      BY <3>1 DEF Intent, Copy
    <3>2. CASE ~Intent(p) /\ ~Copy(p)
      BY <1>10, <3>2 DEF Background, EndFeed, TailReport, EndScan, Recover, Report, Build, Point,
         Deliver, Work, Refresh, Unmark, TailFails
    <3> QED
      BY <3>1, <3>2
  <2> QED
    BY <2>1, <1>1, <1>5
<1>11. CASE CallFinish(p)
  BY <1>11, <1>6 DEF CallFinish
<1>12. CASE Decide(p)
  <2>1. final'.package = 0 /\ final'.phase \in {"blocked", "packaging"}
    BY <1>12, <1>0 DEF Decide, CommandOf, Early, RecordsOK, Finals
  <2> QED
    BY <2>1, PhasesDiffer DEF Honest, Closed
<1>13. CASE RawReport(p)
  <2>1. final'.package = 0 /\ final'.phase = "packaging"
    BY <1>13, <1>0 DEF RawReport, CommandOf, Early, RecordsOK, Finals
  <2> QED
    BY <2>1, PhasesDiffer DEF Honest, Closed
<1>14. CASE SaveReceipt(p)
  <2>1. PICK r : r = rec[p]
    OBVIOUS
  <2>2. Honest(r) /\ r.phase \notin Complete /\ final' = r
    BY <2>1, <1>14, <1>4, <1>0 DEF SaveReceipt, Finalizing, CommandOf
  <2> QED
    BY <2>2, <1>2, RecordsStay
<1>15. CASE Finish(p)
  <2>1. PICK f : f = Outcome(rec[p].attention)
    OBVIOUS
  <2>2. PICK r : r = [rec[p] EXCEPT !.phase = f]
    OBVIOUS
  <2>3. final' = r /\ r.package = rec[p].package /\ r.attention = rec[p].attention /\ r.phase = f
    BY <2>1, <2>2, <1>15, <1>0 DEF Finish, Finals
  <2>4. Honest(r) /\ Delivered(r.package) /\ r.package \in DOMAIN zips
    BY <2>3, <1>15, <1>4, <1>0 DEF Finish, Finalizing, CommandOf, Archived, Honest
  <2>5. f = "complete_clean" => CleanZip(r.package)
    BY <2>1, <2>3, <1>15, <1>0 DEF Finish, CommandOf, Archived, Outcome
  <2>6. Closed(r)
    BY <2>3, <2>4, <2>5 DEF Closed
  <2> QED
    BY <2>3, <2>4, <2>6, RecordsStay
<1> QED
  BY <1>7, <1>8, <1>9, <1>10, <1>11, <1>12, <1>13, <1>14, <1>15 DEF Acts, Step, Command, ScanMove, Ends

\* A production is complete when its archive holds every label and was handed off.
LEMMA FlowKept ==
  ASSUME TypeOK, HandoffInv, Next, NEW p \in Procs, Acts(p)
  PROVE Closed(flow)' /\ (flow.phase \in Complete => WholeZip(flow.package))'
<1>0. /\ CommandOf(p) /\ RecordsOK /\ rec[p] \in Finals /\ prod[p] \in Flows /\ flow \in Flows
      /\ Closed(flow) /\ (flow.phase \in Complete => WholeZip(flow.package))
  BY DEF HandoffInv, TypeOK, RecordsOK
<1>1. CASE UNCHANGED flow
  <2>1. PICK w : w = flow
    OBVIOUS
  <2>2. Closed(w)' /\ (w.phase \in Complete => WholeZip(w.package)')
    BY <2>1, <1>0, RecordsStay, ZipsStay DEF Closed
  <2> QED
    BY <1>1, <2>1, <2>2
<1>2. CASE flow'.phase \notin Complete
  BY <1>2 DEF Closed
<1>3. ASSUME Failed(p) PROVE UNCHANGED flow \/ flow'.phase \notin Complete
  BY <1>3, <1>0, PhasesDiffer DEF Failed, Flows
<1>4. ASSUME Acquired(p) PROVE flow'.phase \notin Complete
  BY <1>4, <1>0, AcquiredFlow, PhasesDiffer
<1>5. CASE ScanMove(p) \/ Ends(p)
  <2>1. UNCHANGED flow \/ Failed(p)
    BY <1>5 DEF ScanMove, Scans, Confirms, Quits, Reads, Reseats, Unqueued, Scanning, Ends, Fail,
       Crash, ScanError
  <2> QED
    BY <2>1, <1>1, <1>2, <1>3
<1>6. CASE Command(p) /\ ~ProductionStart(p)
  BY <1>6, <1>1 DEF Command, ScanStart, PackagePublish, Mutate, FinalizeStart, Resume
<1>7. CASE ProductionStart(p)
  <2>1. Acquired(p) \/ flow' = [flow EXCEPT !.phase = "failed"] \/ flow' = [flow EXCEPT !.phase = "feeding"]
    BY <1>7 DEF ProductionStart
  <2> QED
    BY <2>1, <1>0, <1>2, <1>4, PhasesDiffer DEF Flows
<1>8. CASE EndScan(p)
  <2>1. \/ Acquired(p) \/ UNCHANGED flow
        \/ \E f \in {"failed", "waiting"} : flow' = [prod[p] EXCEPT !.phase = f]
    BY <1>8 DEF EndScan
  <2> QED
    BY <2>1, <1>0, <1>1, <1>2, <1>4, PhasesDiffer DEF Flows
<1>9. CASE Deliver(p)
  <2>1. PICK f : f = Outcome(prod[p].attention \/ rec[p].attention)
    OBVIOUS
  <2>2. PICK w : w = [prod[p] EXCEPT !.phase = f]
    OBVIOUS
  <2>3. flow' = w /\ w.phase = f /\ w.package = prod[p].package
    BY <2>1, <2>2, <1>9, <1>0 DEF Deliver, Flows
  <2>4. /\ w.package \in DOMAIN zips /\ Delivered(w.package) /\ WholeZip(w.package)
        /\ rec[p].attention \/ CleanZip(w.package)
    BY <2>3, <1>9, <1>0 DEF Deliver, CommandOf, Archived
  <2>5. f = "complete_clean" => CleanZip(w.package)
    BY <2>1, <2>4 DEF Outcome
  <2>6. Closed(w)
    BY <2>3, <2>4, <2>5 DEF Closed
  <2> QED
    BY <2>3, <2>4, <2>6, RecordsStay, ZipsStay
<1>10. CASE Intent(p) \/ Copy(p)
  <2>1. UNCHANGED flow \/ Failed(p)
    BY <1>10 DEF Intent, Copy
  <2> QED
    BY <2>1, <1>1, <1>2, <1>3
<1>11. CASE \/ Background(p) \/ EndFeed(p) \/ TailReport(p) \/ CallFinish(p) \/ Recover(p) \/ Report(p)
            \/ Decide(p) \/ RawReport(p) \/ Build(p) \/ SaveReceipt(p) \/ Point(p) \/ Finish(p)
            \/ Work(p) \/ Refresh(p) \/ Unmark(p) \/ TailFails(p)
  BY <1>11, <1>1 DEF Background, EndFeed, TailReport, CallFinish, Recover, Report, Decide, RawReport,
     Build, SaveReceipt, Point, Finish, Work, Refresh, Unmark, TailFails
<1> QED
  BY <1>5, <1>6, <1>7, <1>8, <1>9, <1>10, <1>11 DEF Acts, Step, Command, ScanMove, Ends

\* The ready pointer moves only to an archive that was handed off.
LEMMA ReadyKept ==
  ASSUME TypeOK, HandoffInv, Next, NEW p \in Procs, Acts(p)
  PROVE (ready # 0 => Delivered(ready))'
<1>1. CASE UNCHANGED ready
  <2>1. PICK z : z = ready
    OBVIOUS
  <2> QED
    BY <1>1, <2>1, DeliveredStays DEF HandoffInv
<1>2. CASE Point(p)
  <2>1. PICK z : z = rec[p].package
    OBVIOUS
  <2>2. Delivered(z) /\ ready' = z
    BY <2>1, <1>2 DEF Point, HandoffInv, CommandOf
  <2> QED
    BY <2>2, DeliveredStays
<1>3. CASE ScanMove(p) \/ Ends(p)
  BY <1>1, <1>3 DEF ScanMove, Scans, Confirms, Quits, Reads, Reseats, Unqueued, Scanning, Ends, Fail,
     Crash, ScanError, Stays, files
<1>4. CASE Command(p)
  BY <1>1, <1>4, SMTT(30) DEF Command, ProductionStart, ScanStart, PackagePublish, Mutate, FinalizeStart, Resume, files
<1>5. CASE \/ Background(p) \/ EndFeed(p) \/ TailReport(p) \/ EndScan(p) \/ CallFinish(p)
           \/ Recover(p) \/ Report(p) \/ Decide(p) \/ RawReport(p) \/ SaveReceipt(p)
           \/ Build(p) \/ Intent(p) \/ Copy(p)
           \/ Finish(p) \/ Deliver(p) \/ Work(p) \/ Refresh(p) \/ Unmark(p) \/ TailFails(p)
  BY <1>1, <1>5 DEF Background, EndFeed, TailReport, EndScan, CallFinish, Recover, Report, Decide, RawReport,
     SaveReceipt, Finish, Deliver, Work, Refresh, Unmark, TailFails, Build, Intent, Copy, files
<1> QED
  BY <1>2, <1>3, <1>4, <1>5 DEF Acts, Step, ScanMove, Ends

LEMMA HandoffKept ==
  ASSUME ScanAssumption, TypeOK, OneCommand, ScanInv, HandoffInv, Next, NEW p \in Procs, Acts(p)
  PROVE HandoffInv'
<1>1. \A q \in Procs : q # p => CommandOf(q)'
  <2>1. \A q \in Procs : q # p => pc'[q] = "idle"
    BY Alone DEF TypeOK
  <2> QED
    BY <2>1 DEF CommandOf, Early, Archived
<1>2. CommandOf(p)'
  BY CommandKept
<1> QED
  BY <1>1, <1>2, FinalKept, FlowKept, ReadyKept DEF HandoffInv

-----------------------------------------------------------------------------
(* Packing tasks that could not be saved. *)

\* They are in the mind of the process that scans, until it tells of them.
LEMMA ErrorsStayHeld ==
  ASSUME StagesOK, OneCommand, ErrorsHeld, NEW p \in Procs, Acts(p)
  PROVE ErrorsHeld'
<1> DEFINE Minding == {"scan", "tail_process", "tail_report", "endscan"}
<1>1. pc \in [Procs -> Stages] /\ (storage_errors # {} => pc[p] \in Minding)
  <2>1. \A q \in Procs : q # p => pc[q] = "idle"
    BY Alone
  <2> QED
    BY <2>1 DEF ErrorsHeld, StagesOK
<1>2. SUFFICES \/ storage_errors' = {}
               \/ pc'[p] \in Minding
               \/ UNCHANGED storage_errors /\ pc[p] \notin Minding
  BY <1>1 DEF ErrorsHeld
<1>3. CASE ScanMove(p) \/ Background(p)
  <2>1. pc[p] = "scan" /\ UNCHANGED local
    BY <1>3 DEF ScanMove, Scans, Confirms, Quits, Reads, Reseats, Unqueued, Scanning, Background
  <2> QED
    BY <2>1 DEF local
<1>4. CASE Ends(p) \/ EndScan(p)
  BY <1>4, ErrorsMove DEF Ends, Fail, Crash, ScanError, EndScan
<1>5. CASE EndFeed(p) \/ TailFails(p) \/ TailReport(p)
  <2>1. \E step \in Minding : Go(p, step)
    BY <1>5 DEF EndFeed, TailFails, TailReport
  <2> QED
    BY <2>1, <1>1 DEF Go
<1>6. CASE Recover(p)
  <2>1. \/ pc[p] = "process" /\ UNCHANGED storage_errors
        \/ Go(p, "tail_report")
    BY <1>6 DEF Recover, feed, unqueued
  <2> QED
    BY <2>1, <1>1 DEF Go
<1>7. CASE Command(p)
  <2>1. pc[p] = "idle" /\ UNCHANGED storage_errors
    <3>1. pc[p] = "idle"
      BY <1>7, SMTT(30) DEF Command, ProductionStart, ScanStart, PackagePublish, Mutate, FinalizeStart,
         Resume, Expert, Starts
    <3>2. CASE ProductionStart(p) \/ ScanStart(p)
      BY <3>1, <3>2 DEF ProductionStart, ScanStart, ScanBegin, feed, unqueued
    <3>3. CASE Command(p) /\ ~ProductionStart(p) /\ ~ScanStart(p)
      BY <3>1, <3>3, SMTT(30) DEF Command, PackagePublish, Mutate, FinalizeStart, Resume, Expert, feed, unqueued
    <3> QED
      BY <1>7, <3>1, <3>2, <3>3
  <2> QED
    BY <2>1
<1>8. CASE \/ CallFinish(p) \/ Report(p) \/ Decide(p) \/ RawReport(p) \/ Build(p) \/ SaveReceipt(p)
           \/ Intent(p) \/ Copy(p) \/ Point(p) \/ Finish(p) \/ Deliver(p) \/ Work(p) \/ Refresh(p)
           \/ Unmark(p)
  BY <1>8 DEF CallFinish, Report, Decide, RawReport, Build, SaveReceipt, Intent, Copy, Point, Finish,
     Deliver, Work, Refresh, Unmark, feed, unqueued
<1> QED
  BY <1>3, <1>4, <1>5, <1>6, <1>7, <1>8 DEF Acts, Step, ScanMove, Ends

-----------------------------------------------------------------------------
(* Theorems. *)

LEMMA TypesKept ==
  ASSUME ScanAssumption, TypeOK, ScanInv, HandoffInv, Next, NEW p \in Procs, Acts(p)
  PROVE TypeOK'
<1>1. FilesOK' /\ RecordsOK' /\ StagesOK'
  BY ArchivesStay, RecordsTyped, Stepping DEF TypeOK
<1>2. saved' \in [Disks -> Qualities] /\ job' \in [Disks -> {"none"} \cup Readings]
  BY ActsMoveEvidence, ScanKeeps DEF TypeOK
<1>3. report' \in {report, saved} /\ (raws' = raws \/ raws' = raws + 1) /\ due' \in BOOLEAN /\ mutated' \in BOOLEAN
  <2> USE DEF TypeOK
  <2>1. CASE ScanMove(p) \/ Ends(p)
    BY <2>1 DEF ScanMove, Scans, Confirms, Quits, Reads, Reseats, Unqueued, Scanning, Ends, Fail,
       Crash, ScanError, Stays
  <2>2. CASE Command(p)
    BY <2>2 DEF Command, ProductionStart, ScanStart, PackagePublish, Mutate, FinalizeStart, Resume
  <2>3. CASE \/ EndFeed(p) \/ TailReport(p) \/ EndScan(p) \/ CallFinish(p)
             \/ Recover(p) \/ Report(p) \/ Decide(p) \/ RawReport(p) \/ SaveReceipt(p)
             \/ Build(p) \/ Intent(p) \/ Copy(p) \/ Point(p)
             \/ Finish(p) \/ Deliver(p) \/ Refresh(p) \/ Unmark(p) \/ TailFails(p)
    BY <2>3 DEF EndFeed, TailReport, EndScan, CallFinish, Recover, Report, Decide, RawReport, Point,
       SaveReceipt, Finish, Deliver, Refresh, Unmark, TailFails, Build, Intent, Copy
  <2>4. CASE Background(p) \/ Work(p)
    BY <2>4 DEF Background, Work
  <2> QED
    BY <2>1, <2>2, <2>3, <2>4 DEF Acts, Step, ScanMove, Ends
<1>4. report' \in Reports /\ raws' \in Nat
  BY <1>3 DEF TypeOK, EvidenceOK, Reports
<1> QED
  BY <1>1, <1>2, <1>3, <1>4 DEF TypeOK, EvidenceOK

LEMMA HandTypes ==
  ASSUME ScanAssumption, TypeOK, ScanInv, HandoffInv, Next, ByHand
  PROVE TypeOK'
<1>1. UNCHANGED <<pc, kind, rec, prod, report, raws, due, flow, final, mutated>>
  BY HandKeeps DEF local
<1>2. FilesOK'
  BY ArchivesStay
<1>3. saved' \in [Disks -> Qualities] /\ job' \in [Disks -> {"none"} \cup Readings]
  BY HandMovesEvidence, ScanKeeps DEF TypeOK
<1> QED
  BY <1>1, <1>2, <1>3 DEF TypeOK, EvidenceOK, RecordsOK, StagesOK

LEMMA InitHolds == ScanAssumption /\ FinishingAssumption /\ Init => FinishInv
<1> SUFFICES ASSUME ScanAssumption, Init PROVE FinishInv
  OBVIOUS
<1> USE DEF Init, ScanInit
<1>1. \A p \in Procs : pc[p] = "idle" /\ kind[p] = "none"
  OBVIOUS
<1>2. TypeOK
  <2>1. EvidenceOK /\ due \in BOOLEAN /\ mutated \in BOOLEAN
    BY DEF EvidenceOK, Reports, NoReport, Qualities, Readings
  <2>2. RecordsOK
    BY EmptyRecords DEF RecordsOK
  <2>3. FilesOK
    BY DEF FilesOK
  <2>4. StagesOK
    BY DEF StagesOK, Stages, Kinds
  <2> QED
    BY <2>1, <2>2, <2>3, <2>4 DEF TypeOK
<1>3. OneCommand
  BY <1>1 DEF OneCommand
<1>4. ScanInv
  <2>1. scan = [pc |-> "off", disk |-> 0, reseats |-> 0] /\ pending = [disk |-> 0, result |-> FALSE]
    BY DEF NoScan, Nobody
  <2>2. First \in First .. Last + 1
    BY DEF ScanAssumption
  <2> QED
    BY <2>1, <2>2 DEF ScanInv, ScanSteps, Kept
<1>8. ErrorsHeld
  BY DEF ErrorsHeld
<1>5. AuditInv
  BY <1>1 DEF AuditInv, AuditOf, AuditStaysDue
<1>6. ReportInv
  BY <1>1 DEF ReportInv, ReportOf
<1>7. HandoffInv
  <2>1. \A p \in Procs : CommandOf(p)
    BY <1>1 DEF CommandOf, Early, Archived
  <2>2. NoFinal.package = 0 /\ NoFinal.phase \notin Complete /\ NoFlow.phase \notin Complete
    BY DEF NoFinal, NoFlow, Complete
  <2> QED
    BY <2>1, <2>2 DEF HandoffInv, Honest, Closed
<1> QED
  BY <1>2, <1>3, <1>4, <1>5, <1>6, <1>7, <1>8 DEF FinishInv

LEMMA StepHolds == ScanAssumption /\ FinishInv /\ [Next]_vars => FinishInv'
<1> SUFFICES ASSUME ScanAssumption, FinishInv, [Next]_vars PROVE FinishInv'
  BY SMTT(30)
<1> USE DEF FinishInv
<1>1. CASE UNCHANGED vars
  <2> USE <1>1 DEF vars, feed, recorded, unqueued, files, local, bounds
  <2>1. TypeOK'
    BY DEF TypeOK, EvidenceOK, RecordsOK, FilesOK, StagesOK, Unsaved
  <2>2. OneCommand' /\ ErrorsHeld'
    BY DEF OneCommand, ErrorsHeld
  <2>3. ScanInv'
    BY DEF ScanInv, Kept, Unsaved
  <2>4. AuditInv' /\ ReportInv'
    BY DEF AuditInv, AuditOf, AuditStaysDue, ReportInv, ReportOf, Images
  <2>5. HandoffInv'
    BY DEF HandoffInv, CommandOf, Early, Archived, Honest, Closed, Delivered, CleanZip, WholeZip,
       Whole, Flawed
  <2> QED
    BY <2>1, <2>2, <2>3, <2>4, <2>5
<1>2. ASSUME NEW p \in Procs, Acts(p), Next PROVE FinishInv'
  <2>1. TypeOK' /\ HandoffInv' /\ AuditInv' /\ ReportInv' /\ OneCommand'
    BY <1>2, TypesKept, HandoffKept, AuditKept, ReportsKept, Alone DEF TypeOK
  <2>2. ScanInv' /\ ErrorsHeld'
    BY <1>2, ActsMoveEvidence, ScanKeeps, ErrorsStayHeld DEF TypeOK
  <2> QED
    BY <2>1, <2>2
<1>3. ASSUME ByHand, Next PROVE FinishInv'
  <2>1. TypeOK' /\ HandoffInv' /\ ScanInv'
    BY <1>3, HandTypes, HandKeepsHandoff, HandMovesEvidence, ScanKeeps DEF TypeOK
  <2>2. UNCHANGED <<pc, kind, report, due, zips, mutated, storage_errors>> /\ \A p \in Procs : pc[p] = "idle"
    BY <1>3, HandKeeps DEF local, ByHand, EditCopy, Damage, SelectDisk, Free, feed, unqueued
  <2>3. OneCommand' /\ AuditInv' /\ ErrorsHeld'
    BY <2>2 DEF OneCommand, ErrorsHeld, AuditInv, AuditOf, AuditStaysDue
  <2>4. Images # {} => Images' # {}
    BY <1>3, HandMovesEvidence, ImagesStay DEF TypeOK
  <2>5. ReportInv'
    BY <2>2, <2>4 DEF ReportInv, ReportOf
  <2> QED
    BY <2>1, <2>3, <2>5
<1> QED
  BY <1>1, <1>2, <1>3, NextIs

\* The inductive invariant holds in every reachable state: what the commands, the
\* scan, the markers, the archives and the records know of one another.
THEOREM FinishingInvariant == Spec => []FinishInv
<1>1. Init => FinishInv
  BY InitHolds, ScanAssumption, FinishingAssumption
<1>2. FinishInv /\ [Next]_vars => FinishInv'
  BY StepHolds, ScanAssumption
<1> QED
  BY <1>1, <1>2, PTL DEF Spec

\* Every file, record and step of a command has its type
\* (src/cli/finalization_state.rs, src/cli/production_flow.rs).
THEOREM TypeCorrect == Spec => []TypeOK
<1>1. FinishInv => TypeOK
  BY DEF FinishInv
<1> QED
  BY <1>1, FinishingInvariant, PTL

\* Whatever is called ready, complete or clean is so, after any number of failures,
\* crashes, restarts and repeated commands (src/cli/production_flow.rs,
\* src/cli/finalize.rs, src/delivery_publish.rs, src/cli/mutation_audit.rs).
THEOREM RecordsAreTrue == Spec => []RecordsTrue
<1>1. FinishInv => RecordsTrue
  <2> SUFFICES ASSUME FinishInv PROVE RecordsTrue
    OBVIOUS
  <2>1. ready # 0 => Delivered(ready)
    BY DEF FinishInv, HandoffInv
  <2>2. \A r \in {flow, final} : r.phase \in Complete =>
          /\ r.package \in DOMAIN zips /\ Delivered(r.package)
          /\ r.phase = "complete_clean" =>
               \A d \in Disks : zips[r.package].images[d] \in {"none", "full"}
    BY DEF FinishInv, HandoffInv, Closed, CleanZip
  <2>3. flow.phase \in Complete =>
          \A d \in Disks : zips[flow.package].images[d] \notin {"none", "damaged"}
    BY DEF FinishInv, HandoffInv, WholeZip
  <2>4. ReportedArchived
    BY DEF FinishInv, TypeOK, FilesOK, ReportInv, ReportedArchived
  <2>5. AuditStaysDue
    BY DEF FinishInv, AuditInv
  <2> QED
    BY <2>1, <2>2, <2>3, <2>4, <2>5 DEF RecordsTrue
<1> QED
  BY <1>1, FinishingInvariant, PTL

\* However often a scan ends or dies between the recovery job, the packing tasks,
\* its journal and the number, a completed label has its tasks, unless saving them
\* failed; and such a failure is reported, or a running scan still knows of it, or
\* the process that knew was killed (src/cli/flux_scan.rs, run).
THEOREM CompletedAreQueued == Spec => []CompletedQueued
<1>1. FinishInv => CompletedQueued
  BY DEF FinishInv, ScanInv, Unsaved, CompletedQueued
<1> QED
  BY <1>1, FinishingInvariant, PTL
=============================================================================
