------------------------------ MODULE Production ------------------------------
(***************************************************************************)
(* The dual-station coordinator (src/production.rs): one process owns the  *)
(* production journal and moves every floppy label through the USB and the *)
(* Greaseweazle (gw) station.  The journal is a single file replaced by    *)
(* rename, so one action changes it atomically and a restart finds exactly *)
(* what the last commit wrote; readers publish evidence (images, recovery  *)
(* jobs, rejection archives) in separate files, in steps of their own, and *)
(* the process may end between any two of them.                            *)
(*                                                                         *)
(* Sector data is abstracted to what the rules tell apart.  floppy is the  *)
(* physical disk an image was really read from (the program never sees     *)
(* it), bad tells whether no, some or all sectors are unreadable, and      *)
(* verdict is the outcome of the sector comparison with the USB image:     *)
(*   "agree"  every mutually readable sector is equal                      *)
(*   "minor"  few differences, inside the limits of read_conflicts::build  *)
(*   "broad"  differences beyond those limits                              *)
(*   "none"   no sector is readable in both                                *)
(* commit() runs validate() on every candidate journal and refuses a bad   *)
(* one.  That test is not a guard here: JournalValid states validate() as  *)
(* an invariant, so it shows that commit never has to refuse.              *)
(***************************************************************************)
EXTENDS Naturals, Sequences

CONSTANTS First, Last,    \* the label range of the run (Journal.first, .last)
          Floppies,       \* the physical disks that may be put into a drive
          MaxGeneration,  \* bound: tickets issued
          MaxCaptures     \* bound: flux captures taken per label

ASSUME RangeAssumption == First \in Nat \ {0} /\ Last \in Nat /\ First <= Last
ASSUME BoundAssumption == MaxGeneration \in Nat /\ MaxCaptures \in Nat

VARIABLES
  owner,       \* a coordinator holds the project's ownership lock
  paused, generation, occupied, disks,   \* the production journal
  images,      \* label -> completed acquisitions in attempt order, on disk
  captured,    \* label -> number of flux capture slots used, on disk
  job,         \* label -> the GW recovery job file
  archives,    \* label -> identity rejection archives, on disk
  reader,      \* station -> its worker thread
  releasing    \* progress of release_identity_mismatch in the owner's thread

journal  == <<paused, generation, occupied, disks>>
evidence == <<images, captured, job, archives>>
vars == <<owner, journal, evidence, reader, releasing>>

Labels   == First .. Last
Stations == {"usb", "gw"}
Phases   == {"absent", "reserved", "reading", "interrupted", "saved",
             "await_gw", "complete", "partial"}
Errors   == {"none", "disagree", "no_overlap", "other"}
Verdicts == {"agree", "minor", "broad", "none"}

Tickets == [disk : Labels, station : Stations, work : {"fresh", "recovery"},
            generation : Nat, retry : BOOLEAN]
NoTicket == [disk |-> 0, station |-> "none", work |-> "none",
             generation |-> 0, retry |-> FALSE]

\* A receipt seals one published image; attempt 0 stands for no receipt.
Receipts == [station : Stations, attempt : Nat \ {0}, floppy : Floppies,
             bad : {"none", "some", "all"}, verdict : Verdicts,
             confirmed : {"none", "conflicts", "custody"}, capture : Nat]
NoReceipt == [station |-> "none", attempt |-> 0, floppy |-> "none", bad |-> "none",
              verdict |-> "none", confirmed |-> "none", capture |-> 0]

Disks == [phase : Phases, ticket : Tickets \cup {NoTicket},
          usb : Receipts \cup {NoReceipt}, gw : Receipts \cup {NoReceipt},
          error : Errors, triage : Nat]
AbsentDisk == [phase |-> "absent", ticket |-> NoTicket, usb |-> NoReceipt,
               gw |-> NoReceipt, error |-> "none", triage |-> 0]

\* The stages of a recovery job, aggregated: one candidate image.
Captures == [id : Nat \ {0}, floppy : Floppies, bad : {"none", "some", "unformatted"},
             verdict : Verdicts]
NoCapture == [id |-> 0, floppy |-> "none", bad |-> "none", verdict |-> "none"]
Jobs == [candidate : Captures \cup {NoCapture}, rejected : SUBSET Nat,
         approval : {"none", "conflicts", "custody"}, pending : Nat,
         result : {"none", "image", "format_exception"}]
NoJob == [candidate |-> NoCapture, rejected |-> {}, approval |-> "none",
          pending |-> 0, result |-> "none"]

Readers == [ticket : Tickets \cup {NoTicket},
            pc : {"idle", "run", "accepted", "published", "ok", "err"},
            attempt : Nat, error : Errors]
Idle == [ticket |-> NoTicket, pc |-> "idle", attempt |-> 0, error |-> "none"]

TypeOK ==
  /\ owner \in BOOLEAN
  /\ paused \in BOOLEAN
  /\ generation \in Nat
  /\ occupied \in SUBSET Labels
  /\ disks \in [Labels -> Disks]
  /\ images \in [Labels -> Seq(Receipts)]
  /\ captured \in [Labels -> Nat]
  /\ job \in [Labels -> Jobs]
  /\ archives \in [Labels -> SUBSET [generation : Nat, capture : Nat]]
  /\ reader \in [Stations -> Readers]
  /\ releasing \in {"none", "archived", "reset"}

-----------------------------------------------------------------------------
(* Reading the journal. *)

Held(d)     == disks[d].phase \in {"reserved", "reading", "interrupted", "saved"}
HeldBy(s)   == {d \in Labels : Held(d) /\ disks[d].ticket.station = s}
Has(r)      == r.attempt # 0
Acquired    == {d \in Labels : images[d] # <<>>}
Unreserved(d)   == d \notin occupied /\ disks[d].phase = "absent"
IsNextFresh(d)  == Unreserved(d) /\ \A e \in Labels : e < d => ~Unreserved(e)
IdentityException(e) == e \in {"disagree", "no_overlap"}
Clean(gw)   == gw.bad = "none" /\ gw.confirmed = "none"
Rejected(d) == {a.capture : a \in archives[d]}
HasGwImage(d) == \E i \in 1 .. Len(images[d]) : images[d][i].station = "gw"

\* The coordinator's thread is free for another operation.
Ready == owner /\ releasing = "none"

(* Where validate() expects a label without a ticket to be. *)
Expected(k) ==
  IF Has(k.gw) THEN IF Clean(k.gw) THEN "complete" ELSE "partial"
  ELSE IF Has(k.usb) THEN IF k.usb.bad = "none" THEN "complete" ELSE "await_gw"
  ELSE "absent"

\* check_pair: an approved confirmation, or the byte comparison.
PairAgrees(gw) == gw.confirmed # "none" \/ gw.verdict = "agree"
PairError(verdict) == IF verdict = "none" THEN "no_overlap" ELSE "disagree"

(* verify_receipts: every receipt still matches a published original       *)
(* acquisition of its station, and the two of one label still agree.       *)
ReceiptVerified(d, r) ==
  Has(r) => r.attempt \in 1 .. Len(images[d]) /\ images[d][r.attempt] = r
ReceiptsVerify ==
  \A d \in Labels :
    /\ ReceiptVerified(d, disks[d].usb)
    /\ ReceiptVerified(d, disks[d].gw)
    /\ Has(disks[d].usb) /\ Has(disks[d].gw) => PairAgrees(disks[d].gw)

-----------------------------------------------------------------------------
(* Starting and ending the owning process. *)

\* Coordinator::open: nothing is inferred about the floppies; a read that was
\* authorised or running has to be confirmed again under the same label.
Reopened(k) ==
  IF k.phase \in {"reserved", "reading"} THEN [k EXCEPT !.phase = "interrupted"] ELSE k

Open ==
  /\ ~owner
  /\ ReceiptsVerify
  /\ owner' = TRUE
  /\ disks' = [d \in Labels |-> Reopened(disks[d])]
  /\ occupied' = occupied \cup Acquired
  /\ UNCHANGED <<paused, generation, evidence, reader, releasing>>

\* The process exits or is killed, between any two durable writes.
Exit ==
  /\ owner
  /\ owner' = FALSE
  /\ reader' = [s \in Stations |-> Idle]
  /\ releasing' = "none"
  /\ UNCHANGED <<journal, evidence>>

\* While no coordinator runs, another command acquires an unreserved label.
AcquireElsewhere(d, f) ==
  /\ ~owner
  /\ disks[d].phase = "absent"
  /\ images[d] = <<>>
  /\ images' = [images EXCEPT ![d] = Append(@,
       [station |-> "usb", attempt |-> 1, floppy |-> f, bad |-> "none",
        verdict |-> "none", confirmed |-> "none", capture |-> 0])]
  /\ UNCHANGED <<owner, journal, captured, job, archives, reader, releasing>>

-----------------------------------------------------------------------------
(* The operator's commands. *)

SetPaused(p) ==
  /\ Ready
  /\ paused' = p
  /\ UNCHANGED <<owner, generation, occupied, disks, evidence, reader, releasing>>

Issue(d, s, work, retry) ==
  [disk |-> d, station |-> s, work |-> work, generation |-> generation + 1, retry |-> retry]

\* (mutant) a claim inserts a new entry over the one the label has.
ReserveAfresh(d, t) == [disks EXCEPT ![d] = [AbsentDisk EXCEPT !.phase = "reserved", !.ticket = t]]

\* A new ticket for label d; the label becomes reserved, never yet readable.
Reserve(d, t) ==
  [disks EXCEPT ![d] = [@ EXCEPT !.phase = "reserved", !.ticket = t, !.error = "none"]]

ClaimGuard ==
  /\ Ready
  /\ ~paused
  /\ generation < MaxGeneration

\* (mutant) a claim reissues whatever label the station holds.
ClaimRetryAnyPhase(s, d) ==
  /\ ClaimGuard
  /\ d \in HeldBy(s)
  /\ disks' = Reserve(d, Issue(d, s, disks[d].ticket.work, TRUE))
  /\ generation' = generation + 1
  /\ UNCHANGED <<owner, paused, occupied, evidence, reader, releasing>>

\* claim of the label the station was interrupted on: the same work, again.
ClaimRetry(s, d) ==
  /\ ClaimGuard
  /\ d \in HeldBy(s)
  /\ disks[d].phase = "interrupted"
  /\ disks' = Reserve(d, Issue(d, s, disks[d].ticket.work, TRUE))
  /\ generation' = generation + 1
  /\ UNCHANGED <<owner, paused, occupied, evidence, reader, releasing>>

\* (mutants) a claim that ignores what the GW station holds; a claim of a saved
\* USB partial that is still in the USB drive.
ClaimRecoveryBusy(d) ==
  /\ ClaimGuard
  /\ disks[d].phase = "await_gw"
  /\ disks' = Reserve(d, Issue(d, "gw", "recovery", FALSE))
  /\ generation' = generation + 1
  /\ UNCHANGED <<owner, paused, occupied, evidence, reader, releasing>>
ClaimRecoveryUnremoved(d) ==
  /\ ClaimGuard
  /\ HeldBy("gw") = {}
  /\ disks[d].phase = "await_gw" \/ (disks[d].phase = "saved" /\ disks[d].usb.bad # "none")
  /\ disks' = Reserve(d, Issue(d, "gw", "recovery", FALSE))
  /\ generation' = generation + 1
  /\ UNCHANGED <<owner, paused, occupied, evidence, reader, releasing>>

\* claim of a USB partial whose removal from the USB drive was confirmed.
ClaimRecovery(d) ==
  /\ ClaimGuard
  /\ HeldBy("gw") = {}
  /\ disks[d].phase = "await_gw"
  /\ disks' = Reserve(d, Issue(d, "gw", "recovery", FALSE))
  /\ generation' = generation + 1
  /\ UNCHANGED <<owner, paused, occupied, evidence, reader, releasing>>

\* claim of the next label of the range that nothing has acquired.
ClaimFresh(s, d) ==
  /\ ClaimGuard
  /\ HeldBy(s) = {}
  /\ IsNextFresh(d)
  /\ disks' = Reserve(d, Issue(d, s, "fresh", FALSE))
  /\ generation' = generation + 1
  /\ UNCHANGED <<owner, paused, occupied, evidence, reader, releasing>>

\* An unread fresh offer at the GW gives way to the queued label inserted.
SelectQueuedInstead(offer, d) ==
  /\ ClaimGuard
  /\ offer # d
  /\ disks[offer].phase = "reserved"
  /\ disks[offer].ticket.station = "gw"
  /\ disks[offer].ticket.work = "fresh"
  /\ ~disks[offer].ticket.retry
  /\ offer \notin occupied
  /\ images[offer] = <<>>
  /\ disks[d].phase = "await_gw"
  /\ disks' = [Reserve(d, Issue(d, "gw", "recovery", FALSE)) EXCEPT ![offer] = AbsentDisk]
  /\ generation' = generation + 1
  /\ UNCHANGED <<owner, paused, occupied, evidence, reader, releasing>>

\* The operator asserts label and write protection; the read starts.
Confirm(s, d) ==
  /\ Ready
  /\ ~paused
  /\ d \in HeldBy(s)
  /\ disks[d].phase = "reserved"
  /\ disks[d].ticket.work = "recovery" => ReceiptVerified(d, disks[d].usb)
  /\ disks' = [disks EXCEPT ![d].phase = "reading"]
  /\ reader' = [reader EXCEPT ![s] = [Idle EXCEPT !.ticket = disks[d].ticket, !.pc = "run"]]
  /\ UNCHANGED <<owner, paused, generation, occupied, evidence, releasing>>

\* Physical removal of a saved disk decides where the label goes next.
Removed(s, d) ==
  /\ Ready
  /\ d \in HeldBy(s)
  /\ disks[d].phase = "saved"
  /\ disks' = [disks EXCEPT ![d] = [@ EXCEPT
       !.phase = IF s = "usb" THEN IF disks[d].usb.bad # "none" THEN "await_gw" ELSE "complete"
                 ELSE IF Clean(disks[d].gw) THEN "complete" ELSE "partial",
       !.ticket = NoTicket]]
  /\ UNCHANGED <<owner, paused, generation, occupied, evidence, reader, releasing>>

-----------------------------------------------------------------------------
(* Correcting an identity exception at the GW.  Release writes three files  *)
(* one after the other: the rejection archive, the reset recovery job and   *)
(* the journal; each step can be the last one of the process.               *)

Disputed(d) ==
  /\ d \in HeldBy("gw")
  /\ disks[d].phase = "interrupted"
  /\ disks[d].ticket.work = "recovery"
  /\ IdentityException(disks[d].error)
  /\ ReceiptVerified(d, disks[d].usb)

Archive(d) == [generation |-> disks[d].ticket.generation, capture |-> job[d].candidate.id]
ArchivedNow(d) == {a \in archives[d] : a.generation = disks[d].ticket.generation}

\* The earlier attempt of this very release got past the job reset.
AlreadyReset(d) ==
  /\ ArchivedNow(d) # {}
  /\ job[d].candidate = NoCapture
  /\ \A a \in ArchivedNow(d) : a.capture \in job[d].rejected

ReleaseArchive(d) ==
  /\ Ready
  /\ Disputed(d)
  /\ ~HasGwImage(d)
  /\ job[d].result = "none"
  /\ \/ /\ AlreadyReset(d)
        /\ releasing' = "reset"
        /\ UNCHANGED archives
     \/ /\ ~AlreadyReset(d)
        /\ ArchivedNow(d) \subseteq {Archive(d)}
        /\ releasing' = "archived"
        /\ archives' = [archives EXCEPT ![d] = @ \cup {Archive(d)}]
  /\ UNCHANGED <<owner, journal, images, captured, job, reader>>

ReleaseReset(d) ==
  /\ releasing = "archived"
  /\ Disputed(d)
  /\ releasing' = "reset"
  /\ job' = [job EXCEPT ![d] = [NoJob EXCEPT
       !.rejected = job[d].rejected \cup {job[d].candidate.id}]]
  /\ UNCHANGED <<owner, journal, images, captured, archives, reader>>

ReleaseCommit(d) ==
  /\ releasing = "reset"
  /\ Disputed(d)
  /\ releasing' = "none"
  /\ disks' = [disks EXCEPT ![d] = [@ EXCEPT !.phase = "await_gw", !.ticket = NoTicket,
                                               !.error = "other"]]
  /\ UNCHANGED <<owner, paused, generation, occupied, evidence, reader>>

\* A write fails: the command reports it and leaves what it wrote so far.
ReleaseFails ==
  /\ releasing # "none"
  /\ releasing' = "none"
  /\ UNCHANGED <<owner, journal, evidence, reader>>

\* (mutant) any disagreement may be approved.
ConfirmSameDiskAny(d) ==
  LET kind == IF disks[d].error = "no_overlap" THEN "custody" ELSE "conflicts" IN
  /\ Ready
  /\ Disputed(d)
  /\ job[d].result = "none"
  /\ job[d].candidate # NoCapture
  /\ job[d].candidate.id \notin Rejected(d)
  /\ job[d].approval \in {"none", kind}
  /\ job' = [job EXCEPT ![d].approval = kind]
  /\ UNCHANGED <<owner, journal, images, captured, archives, reader, releasing>>

\* confirm_same_disk: approve the decoded, unpublished candidate; only minor
\* disagreement, or a USB image without one readable sector, qualifies.
ConfirmSameDisk(d) ==
  LET kind == IF disks[d].error = "no_overlap" THEN "custody" ELSE "conflicts" IN
  /\ Ready
  /\ Disputed(d)
  /\ job[d].result = "none"
  /\ job[d].candidate # NoCapture
  /\ job[d].candidate.id \notin Rejected(d)
  /\ job[d].approval \in {"none", kind}
  /\ IF kind = "custody" THEN disks[d].usb.bad = "all"
                         ELSE job[d].candidate.verdict = "minor"
  /\ job' = [job EXCEPT ![d].approval = kind]
  /\ UNCHANGED <<owner, journal, images, captured, archives, reader, releasing>>

-----------------------------------------------------------------------------
(* The readers.  Each runs beside the owner's thread; what it publishes is   *)
(* durable before the owner hears of it.                                     *)

Reading(s) == reader[s].pc = "run"
Answer(s, pc, attempt, error) ==
  reader' = [reader EXCEPT ![s] = [@ EXCEPT !.pc = pc, !.attempt = attempt, !.error = error]]

NextAttempt(d) == Len(images[d]) + 1

\* usb_read of a retried ticket adopts an acquisition saved before the
\* interruption instead of reading the floppy again.
UsbAdopt ==
  LET d == reader["usb"].ticket.disk IN
  /\ Reading("usb")
  /\ reader["usb"].ticket.retry
  /\ images[d] # <<>>
  /\ IF images[d][Len(images[d])].station = "usb"
     THEN Answer("usb", "ok", Len(images[d]), "none")
     ELSE Answer("usb", "err", 0, "other")
  /\ UNCHANGED <<owner, journal, evidence, releasing>>

\* (mutant) a retry reads the floppy again although an image is saved.
UsbAcquireAgain(f, bad) ==
  LET d == reader["usb"].ticket.disk IN
  /\ Reading("usb")
  /\ images' = [images EXCEPT ![d] = Append(@,
       [station |-> "usb", attempt |-> NextAttempt(d), floppy |-> f, bad |-> bad,
        verdict |-> "none", confirmed |-> "none", capture |-> 0])]
  /\ Answer("usb", "ok", NextAttempt(d), "none")
  /\ UNCHANGED <<owner, journal, captured, job, archives, releasing>>

\* Imaging publishes image, log and metadata of the floppy in the drive.
UsbAcquire(f, bad) ==
  LET d == reader["usb"].ticket.disk IN
  /\ Reading("usb")
  /\ ~(reader["usb"].ticket.retry /\ images[d] # <<>>)
  /\ images' = [images EXCEPT ![d] = Append(@,
       [station |-> "usb", attempt |-> NextAttempt(d), floppy |-> f, bad |-> bad,
        verdict |-> "none", confirmed |-> "none", capture |-> 0])]
  /\ Answer("usb", "ok", NextAttempt(d), "none")
  /\ UNCHANGED <<owner, journal, captured, job, archives, releasing>>

\* A reader stops without a result: drive error, cancellation, panic.
ReadFails(s) ==
  /\ Reading(s)
  /\ Answer(s, "err", 0, "other")
  /\ UNCHANGED <<owner, journal, evidence, releasing>>

\* What comparing a flux image of floppy f with the USB image can yield: two
\* different floppies differ broadly wherever both are readable.
Comparisons(usb, f, bad) ==
  CASE ~Has(usb) \/ bad = "unformatted" \/ usb.bad = "all" -> {"none"}
    [] OTHER -> (IF f = usb.floppy THEN {"agree", "minor", "broad"} ELSE {"broad"})
                \cup (IF bad = "some" THEN {"none"} ELSE {})

\* recover_impl refuses a job whose captures an archive rejects.
GwRefuse ==
  LET d == reader["gw"].ticket.disk IN
  /\ Reading("gw")
  /\ job[d].candidate.id \in Rejected(d)
  /\ Answer("gw", "err", 0, "other")
  /\ UNCHANGED <<owner, journal, evidence, releasing>>

Candidate(d) == job[d].candidate
\* (mutant) the rejection archives are not consulted.
UsableRejected(d) == Candidate(d) # NoCapture
Usable(d) == Candidate(d) # NoCapture /\ Candidate(d).id \notin Rejected(d)

\* Flux is captured and decoded into a new capture slot of the job.
GwCapture(f, bad, verdict) ==
  LET d == reader["gw"].ticket.disk IN
  /\ Reading("gw")
  /\ Candidate(d) = NoCapture
  /\ captured[d] < MaxCaptures
  /\ verdict \in Comparisons(disks[d].usb, f, bad)
  /\ captured' = [captured EXCEPT ![d] = @ + 1]
  /\ job' = [job EXCEPT ![d].candidate =
       [id |-> captured[d] + 1, floppy |-> f, bad |-> bad, verdict |-> verdict]]
  /\ UNCHANGED <<owner, journal, images, archives, reader, releasing>>

\* No supported format: the job ends with raw evidence only.
GwFormatException ==
  LET d == reader["gw"].ticket.disk IN
  /\ Reading("gw")
  /\ Usable(d)
  /\ Candidate(d).bad = "unformatted"
  /\ job' = [job EXCEPT ![d].result = "format_exception"]
  /\ Answer("gw", "err", 0, "other")
  /\ UNCHANGED <<owner, journal, images, captured, archives, releasing>>

\* TransferGuard.check: a fresh read has no USB image to agree with.
Accepted(d) ==
  \/ reader["gw"].ticket.work = "fresh"
  \/ job[d].approval # "none"
  \/ Candidate(d).verdict = "agree"

Decoded(d) == Usable(d) /\ Candidate(d).bad # "unformatted"

GwReject ==
  LET d == reader["gw"].ticket.disk IN
  /\ Reading("gw")
  /\ Decoded(d)
  /\ ~Accepted(d)
  /\ Answer("gw", "err", 0, PairError(Candidate(d).verdict))
  /\ UNCHANGED <<owner, journal, evidence, releasing>>

\* An accepted candidate reserves its attempt slot, once; a restart resumes
\* the reserved publication.
GwAccept ==
  LET d == reader["gw"].ticket.disk IN
  /\ Reading("gw")
  /\ Decoded(d)
  /\ Accepted(d)
  /\ job[d].result = "none"
  /\ job' = [job EXCEPT ![d].pending = IF @ = 0 THEN NextAttempt(d) ELSE @]
  /\ Answer("gw", "accepted", 0, "none")
  /\ UNCHANGED <<owner, journal, images, captured, archives, releasing>>

\* The metadata file of the reserved slot commits the image; replay finds it.
GwPublish ==
  LET d == reader["gw"].ticket.disk IN
  /\ reader["gw"].pc = "accepted"
  /\ images' = IF job[d].pending <= Len(images[d]) THEN images
               ELSE [images EXCEPT ![d] = Append(@,
                 [station |-> "gw", attempt |-> job[d].pending,
                  floppy |-> Candidate(d).floppy, bad |-> Candidate(d).bad,
                  verdict |-> Candidate(d).verdict, confirmed |-> job[d].approval,
                  capture |-> Candidate(d).id])]
  /\ Answer("gw", "published", 0, "none")
  /\ UNCHANGED <<owner, journal, captured, job, archives, releasing>>

\* The job records its result and the reader returns the attempt.
GwSeal ==
  LET d == reader["gw"].ticket.disk IN
  /\ reader["gw"].pc = "published"
  /\ job' = [job EXCEPT ![d].result = "image"]
  /\ Answer("gw", "ok", job[d].pending, "none")
  /\ UNCHANGED <<owner, journal, images, captured, archives, releasing>>

\* A job that already has its result returns it without reading.
GwReuse ==
  LET d == reader["gw"].ticket.disk IN
  /\ Reading("gw")
  /\ Usable(d)
  /\ \/ /\ job[d].result = "image"
        /\ Accepted(d)
        /\ Answer("gw", "ok", job[d].pending, "none")
     \/ /\ job[d].result = "format_exception"
        /\ Answer("gw", "err", 0, "other")
  /\ UNCHANGED <<owner, journal, evidence, releasing>>

-----------------------------------------------------------------------------
(* A reader's answer reaches the owner. *)

Current(t, phase) ==
  t.disk \in Labels /\ disks[t.disk].ticket = t /\ disks[t.disk].phase = phase

\* complete: the evidence is read back and checked before the label is saved.
Completable(t, r) ==
  /\ Current(t, "reading")
  /\ r.station = t.station
  /\ t.work = "recovery" => /\ ReceiptVerified(t.disk, disks[t.disk].usb)
                            /\ PairAgrees(r)

Complete(s) ==
  LET t == reader[s].ticket
      r == images[t.disk][reader[s].attempt]
  IN
  /\ Ready
  /\ reader[s].pc = "ok"
  /\ Completable(t, r)
  /\ disks' = [disks EXCEPT ![t.disk] =
       IF s = "usb" THEN [@ EXCEPT !.phase = "saved", !.usb = r, !.triage = t.generation]
                    ELSE [@ EXCEPT !.phase = "saved", !.gw = r]]
  /\ reader' = [reader EXCEPT ![s] = Idle]
  /\ UNCHANGED <<owner, paused, generation, occupied, evidence, releasing>>

\* The read failed, or complete did (its check, or an unreadable file).
Failed(s) ==
  LET t == reader[s].ticket IN
  /\ Ready
  /\ Current(t, "reading")
  /\ \/ /\ reader[s].pc = "err"
        /\ disks' = [disks EXCEPT ![t.disk] = [@ EXCEPT !.phase = "interrupted",
                                                          !.error = reader[s].error]]
     \/ /\ reader[s].pc = "ok"
        /\ LET r == images[t.disk][reader[s].attempt] IN
           disks' = [disks EXCEPT ![t.disk] = [@ EXCEPT !.phase = "interrupted",
             !.error = IF t.work = "recovery" /\ ~PairAgrees(r)
                       THEN PairError(r.verdict) ELSE "other"]]
  /\ reader' = [reader EXCEPT ![s] = Idle]
  /\ UNCHANGED <<owner, paused, generation, occupied, evidence, releasing>>

-----------------------------------------------------------------------------
Init ==
  /\ owner = FALSE
  /\ paused = FALSE
  /\ generation = 0
  /\ occupied = {}
  /\ disks = [d \in Labels |-> AbsentDisk]
  /\ images = [d \in Labels |-> <<>>]
  /\ captured = [d \in Labels |-> 0]
  /\ job = [d \in Labels |-> NoJob]
  /\ archives = [d \in Labels |-> {}]
  /\ reader = [s \in Stations |-> Idle]
  /\ releasing = "none"

Operate ==
  \/ \E p \in BOOLEAN : SetPaused(p)
  \/ \E d \in Labels :
       \/ ClaimRecovery(d) \/ ReleaseArchive(d) \/ ReleaseReset(d)
       \/ ReleaseCommit(d) \/ ConfirmSameDisk(d)
       \/ \E s \in Stations : ClaimRetry(s, d) \/ ClaimFresh(s, d)
                              \/ Confirm(s, d) \/ Removed(s, d)
       \/ \E offer \in Labels : SelectQueuedInstead(offer, d)
  \/ ReleaseFails
  \/ \E s \in Stations : Complete(s) \/ Failed(s)

UsbRead ==
  \/ UsbAdopt \/ ReadFails("usb")
  \/ \E f \in Floppies, bad \in {"none", "some", "all"} : UsbAcquire(f, bad)

GwRead ==
  \/ GwRefuse \/ GwFormatException \/ GwReject \/ GwAccept \/ GwPublish
  \/ GwSeal \/ GwReuse \/ ReadFails("gw")
  \/ \E f \in Floppies, bad \in {"none", "some", "unformatted"}, v \in Verdicts :
       GwCapture(f, bad, v)

Restart == Open \/ Exit \/ \E d \in Labels, f \in Floppies : AcquireElsewhere(d, f)

Next == Operate \/ UsbRead \/ GwRead \/ Restart

Spec == Init /\ [][Next]_vars

-----------------------------------------------------------------------------
(* Properties. *)

\* validate(): every journal an operation commits passes, so no legal sequence
\* of commands, answers and restarts leaves the coordinator refusing commits.
TicketValid(d) ==
  LET k == disks[d]
      t == disks[d].ticket
  IN /\ t.disk = d
     /\ t.generation \in 1 .. generation
     /\ t.work = "recovery" => /\ t.station = "gw"
                               /\ Has(k.usb) /\ k.usb.bad # "none"
                               /\ k.phase # "saved" => ~Has(k.gw)
     /\ t.work = "fresh" => /\ ~Has(IF t.station = "usb" THEN k.gw ELSE k.usb)
                            /\ k.phase # "saved" => ~Has(k.usb) /\ ~Has(k.gw)
     /\ k.phase = "saved" => Has(IF t.station = "usb" THEN k.usb ELSE k.gw)

ReceiptsValid(d) ==
  LET k == disks[d] IN
  /\ Has(k.usb) => k.usb.station = "usb" /\ k.usb.confirmed = "none"
  /\ Has(k.gw) => k.gw.station = "gw" /\ (k.gw.confirmed # "none" => Has(k.usb))
  /\ k.triage # 0 => /\ Has(k.usb) /\ k.triage <= generation
                     /\ k.phase = "saved" /\ k.ticket.station = "usb"
                          => k.triage = k.ticket.generation

LabelValid(d) ==
  /\ Held(d) <=> disks[d].ticket # NoTicket
  /\ Held(d) => TicketValid(d)
  /\ ReceiptsValid(d)
  /\ ~Held(d) => disks[d].phase = Expected(disks[d])

Apart(d, e) ==
  /\ disks[d].ticket.station # disks[e].ticket.station
  /\ disks[d].ticket.generation # disks[e].ticket.generation

JournalValid ==
  /\ \A d \in Labels : LabelValid(d)
  /\ \A d, e \in Labels : d # e /\ Held(d) /\ Held(e) => Apart(d, e)

\* One ticketed acquisition is published once, whatever crash or failed commit
\* comes between the image, the job's result and the journal: retries adopt it.
OneImagePerStation ==
  \A d \in Labels : \A i, j \in 1 .. Len(images[d]) :
    i # j => images[d][i].station # images[d][j].station

\* No published image draws on a flux capture that an identity release
\* rejected, even if the release was cut between its three files.
RejectedNeverPublished ==
  \A d \in Labels : \A i \in 1 .. Len(images[d]) :
    images[d][i].station = "gw" => images[d][i].capture \notin Rejected(d)

\* Images of two different floppies meet under one label only by an explicit
\* custody assertion, and such a label never counts as complete.
MixedIdentityFlagged ==
  \A d \in Labels : LET k == disks[d] IN
    Has(k.usb) /\ Has(k.gw) /\ k.usb.floppy # k.gw.floppy =>
      k.gw.confirmed = "custody" /\ k.phase # "complete"

\* A sealed receipt is never dropped or replaced, by no command and no restart.
ReceiptsKept ==
  \A d \in Labels :
    /\ Has(disks[d].usb) => disks'[d].usb = disks[d].usb
    /\ Has(disks[d].gw) => disks'[d].gw = disks[d].gw
ReceiptsPermanent == [][ReceiptsKept]_vars

\* The coordinator implements the custody of every label.
Place(k) ==
  CASE k.phase \in {"reserved", "reading", "interrupted", "saved"} -> k.ticket.station
    [] k.phase = "absent" -> "unread"
    [] k.phase = "await_gw" -> "queue"
    [] OTHER -> "done"
Sealed(k) == {s \in Stations : Has(IF s = "usb" THEN k.usb ELSE k.gw)}

Abstract == INSTANCE Custody WITH
  place <- [d \in Labels |-> Place(disks[d])],
  sealed <- [d \in Labels |-> Sealed(disks[d])]
ImplementsCustody == Abstract!CustodySpec

\* A running reader always serves the ticket its station holds, so its answer
\* is never stale; what it hands over is an attempt that is on disk.
ReaderServesTicket ==
  \A s \in Stations : LET t == reader[s].ticket IN
    reader[s].pc # "idle" =>
      /\ owner
      /\ t \in Tickets /\ t.station = s
      /\ disks[t.disk].ticket = t /\ disks[t.disk].phase = "reading"
      /\ reader[s].pc = "ok" => reader[s].attempt \in 1 .. Len(images[t.disk])

\* A reserved publication slot is the next one or already published, and an
\* approval, in a job or in an image, always has the USB receipt it binds.
PublicationBound ==
  /\ \A d \in Labels :
       /\ job[d].pending <= Len(images[d]) + 1
       /\ job[d].result = "image" => job[d].pending \in 1 .. Len(images[d])
       /\ job[d].approval # "none" => Has(disks[d].usb)
       /\ \A i \in 1 .. Len(images[d]) :
            images[d][i].confirmed # "none" => /\ Has(disks[d].usb)
                                               /\ images[d][i].station = "gw"
  /\ LET d == reader["gw"].ticket.disk IN
       /\ reader["gw"].pc \in {"accepted", "published"} => Decoded(d)
       /\ reader["gw"].pc = "accepted" => job[d].pending # 0
       /\ reader["gw"].pc = "published" => job[d].pending \in 1 .. Len(images[d])

\* The inductive invariant behind JournalValid.
CoordinatorInv == TypeOK /\ JournalValid /\ ReaderServesTicket /\ PublicationBound

=============================================================================
