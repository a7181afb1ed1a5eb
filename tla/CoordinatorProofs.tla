-------------------------- MODULE CoordinatorProofs --------------------------
(***************************************************************************)
(* The coordinator, for every range of labels, every set of floppies and   *)
(* every bound (Production), and a dual-scan session as a use of it        *)
(* (DualScan).                                                             *)
(***************************************************************************)
EXTENDS DualScan, SequenceTheorems, TLAPS

USE DEF Stations

-----------------------------------------------------------------------------
(* Typing of the values the actions build. *)

LEMMA NoTicketIsNone == NoTicket \notin Tickets
  BY DEF NoTicket, Tickets, Stations

LEMMA IssueType ==
  ASSUME generation \in Nat, NEW d \in Labels, NEW s \in Stations,
         NEW work \in {"fresh", "recovery"}, NEW retry \in BOOLEAN
  PROVE  Issue(d, s, work, retry) \in Tickets
  BY DEF Issue, Tickets

LEMMA ReserveType ==
  ASSUME disks \in [Labels -> Disks], NEW d \in Labels, NEW t \in Tickets
  PROVE  Reserve(d, t) \in [Labels -> Disks]
  BY ZenonT(60) DEF Reserve, Disks, Phases, Errors

LEMMA HeldTicket ==
  ASSUME CoordinatorInv, NEW d \in Labels, Held(d)
  PROVE  /\ disks[d].ticket \in Tickets
         /\ disks[d].ticket.disk = d
         /\ TicketValid(d)
  BY DEF CoordinatorInv, TypeOK, JournalValid, LabelValid, TicketValid, Disks

\* A busy reader serves a label of the range under a ticket of its station.
LEMMA BusyReader ==
  ASSUME CoordinatorInv, NEW s \in Stations, reader[s].pc # "idle"
  PROVE  /\ reader[s].ticket \in Tickets
         /\ reader[s].ticket.disk \in Labels
         /\ reader[s].ticket.station = s
         /\ Held(reader[s].ticket.disk)
         /\ disks[reader[s].ticket.disk].ticket = reader[s].ticket
         /\ disks[reader[s].ticket.disk].phase = "reading"
  BY DEF CoordinatorInv, ReaderServesTicket, Tickets, Held

LEMMA AnswerType ==
  ASSUME TypeOK, NEW s \in Stations, NEW attempt \in Nat, NEW error \in Errors,
         NEW pc \in {"idle", "run", "accepted", "published", "ok", "err"},
         Answer(s, pc, attempt, error)
  PROVE  reader' \in [Stations -> Readers]
  BY ZenonT(60) DEF TypeOK, Answer, Readers

-----------------------------------------------------------------------------
(* Type correctness. *)

LEMMA OperateType == CoordinatorInv /\ Operate => TypeOK'
<1> SUFFICES ASSUME CoordinatorInv, Operate PROVE TypeOK'
  OBVIOUS
<1>t. TypeOK
  BY DEF CoordinatorInv
<1>d. disks \in [Labels -> Disks]
  BY <1>t DEF TypeOK
<1>j. job \in [Labels -> Jobs]
  BY <1>t DEF TypeOK
<1>1. ASSUME NEW p \in BOOLEAN, SetPaused(p) PROVE TypeOK'
  BY <1>1, <1>t DEF SetPaused, TypeOK, evidence
<1>2. ASSUME NEW d \in Labels, NEW s \in Stations, ClaimRetry(s, d) PROVE TypeOK'
  <2> DEFINE t == Issue(d, s, disks[d].ticket.work, TRUE)
  <2>1. disks[d].ticket.work \in {"fresh", "recovery"}
    BY <1>2, HeldTicket DEF ClaimRetry, HeldBy, Tickets
  <2>2. t \in Tickets
    BY <1>t, <2>1, IssueType DEF TypeOK
  <2>3. Reserve(d, t) \in [Labels -> Disks]
    BY <1>t, <2>2, ReserveType DEF TypeOK
  <2>4. disks' \in [Labels -> Disks] /\ generation' = generation + 1
    BY <1>2, <2>3 DEF ClaimRetry
  <2>5. UNCHANGED <<owner, paused, occupied, images, captured, job, archives, reader, releasing>>
    BY <1>2 DEF ClaimRetry, evidence
  <2> QED
    BY <1>t, <2>4, <2>5 DEF TypeOK
<1>3. ASSUME NEW d \in Labels, ClaimRecovery(d) PROVE TypeOK'
  <2>1. Issue(d, "gw", "recovery", FALSE) \in Tickets
    BY <1>t, IssueType DEF TypeOK
  <2>2. Reserve(d, Issue(d, "gw", "recovery", FALSE)) \in [Labels -> Disks]
    BY <1>t, <2>1, ReserveType DEF TypeOK
  <2>3. disks' \in [Labels -> Disks] /\ generation' = generation + 1
    BY <1>3, <2>2 DEF ClaimRecovery
  <2>4. UNCHANGED <<owner, paused, occupied, images, captured, job, archives, reader, releasing>>
    BY <1>3 DEF ClaimRecovery, evidence
  <2> QED
    BY <1>t, <2>3, <2>4 DEF TypeOK
<1>4. ASSUME NEW d \in Labels, NEW s \in Stations, ClaimFresh(s, d) PROVE TypeOK'
  <2>1. Issue(d, s, "fresh", FALSE) \in Tickets
    BY <1>t, IssueType DEF TypeOK
  <2>2. Reserve(d, Issue(d, s, "fresh", FALSE)) \in [Labels -> Disks]
    BY <1>t, <2>1, ReserveType DEF TypeOK
  <2>3. disks' \in [Labels -> Disks] /\ generation' = generation + 1
    BY <1>4, <2>2 DEF ClaimFresh
  <2>4. UNCHANGED <<owner, paused, occupied, images, captured, job, archives, reader, releasing>>
    BY <1>4 DEF ClaimFresh, evidence
  <2> QED
    BY <1>t, <2>3, <2>4 DEF TypeOK
<1>5. ASSUME NEW d \in Labels, NEW offer \in Labels, SelectQueuedInstead(offer, d)
      PROVE TypeOK'
  <2>1. Issue(d, "gw", "recovery", FALSE) \in Tickets
    BY <1>t, IssueType DEF TypeOK
  <2>2. Reserve(d, Issue(d, "gw", "recovery", FALSE)) \in [Labels -> Disks]
    BY <1>t, <2>1, ReserveType DEF TypeOK
  <2>3. AbsentDisk \in Disks
    BY DEF AbsentDisk, Disks, Phases, Errors
  <2>4. disks' \in [Labels -> Disks]
    BY <1>5, <2>2, <2>3 DEF SelectQueuedInstead
  <2>5. disks' \in [Labels -> Disks] /\ generation' = generation + 1
    BY <1>5, <2>4 DEF SelectQueuedInstead
  <2>6. UNCHANGED <<owner, paused, occupied, images, captured, job, archives, reader, releasing>>
    BY <1>5 DEF SelectQueuedInstead, evidence
  <2> QED
    BY <1>t, <2>5, <2>6 DEF TypeOK
<1>6. ASSUME NEW d \in Labels, NEW s \in Stations, Confirm(s, d) PROVE TypeOK'
  <2>1. disks[d].ticket \in Tickets
    BY <1>6, HeldTicket DEF Confirm, HeldBy
  <2>2. [Idle EXCEPT !.ticket = disks[d].ticket, !.pc = "run"] \in Readers
    BY <2>1 DEF Idle, Readers, Errors
  <2>3. disks' \in [Labels -> Disks]
    BY <1>6, <1>d DEF Confirm, Disks, Phases
  <2>4. reader' \in [Stations -> Readers]
    BY <1>6, <1>t, <2>2 DEF Confirm, TypeOK
  <2> QED
    BY <1>6, <1>t, <2>3, <2>4 DEF Confirm, TypeOK, evidence
<1>7. ASSUME NEW d \in Labels, NEW s \in Stations, Removed(s, d) PROVE TypeOK'
  <2>1. PICK p \in Phases :
          disks' = [disks EXCEPT ![d] = [@ EXCEPT !.phase = p, !.ticket = NoTicket]]
    BY <1>7 DEF Removed, Phases
  <2>2. disks' \in [Labels -> Disks]
    BY <1>d, <2>1 DEF Disks
  <2> QED
    BY <1>7, <1>t, <2>2 DEF Removed, TypeOK, evidence
<1>8. ASSUME NEW d \in Labels, ReleaseArchive(d) PROVE TypeOK'
  <2>1. disks[d].ticket \in Tickets
    BY <1>8, HeldTicket DEF ReleaseArchive, Disputed, HeldBy
  <2>2. job[d].candidate.id \in Nat
    BY <1>t DEF TypeOK, Jobs, Captures, NoCapture
  <2>3. Archive(d) \in [generation : Nat, capture : Nat]
    BY <2>1, <2>2 DEF Archive, Tickets
  <2>4. archives \in [Labels -> SUBSET [generation : Nat, capture : Nat]]
    BY <1>t DEF TypeOK
  <2>5. archives' \in [Labels -> SUBSET [generation : Nat, capture : Nat]]
    BY <1>8, <2>3, <2>4 DEF ReleaseArchive
  <2> QED
    BY <1>8, <1>t, <2>5 DEF ReleaseArchive, TypeOK, journal
<1>9. ASSUME NEW d \in Labels, ReleaseReset(d) PROVE TypeOK'
  <2>1. job[d].candidate.id \in Nat /\ job[d].rejected \subseteq Nat
    BY <1>t DEF TypeOK, Jobs, Captures, NoCapture
  <2>2. [NoJob EXCEPT !.rejected = job[d].rejected \cup {job[d].candidate.id}] \in Jobs
    BY <2>1 DEF NoJob, Jobs
  <2>3. job' \in [Labels -> Jobs]
    BY <1>9, <1>t, <2>2 DEF ReleaseReset, TypeOK
  <2> QED
    BY <1>9, <1>t, <2>3 DEF ReleaseReset, TypeOK, journal
<1>10. ASSUME NEW d \in Labels, ReleaseCommit(d) PROVE TypeOK'
  <2>1. disks' \in [Labels -> Disks]
    BY <1>10, <1>d, ZenonT(60) DEF ReleaseCommit, Disks, Phases, Errors
  <2> QED
    BY <1>10, <1>t, <2>1 DEF ReleaseCommit, TypeOK, evidence
<1>11. ASSUME ReleaseFails PROVE TypeOK'
  BY <1>11, <1>t DEF ReleaseFails, TypeOK, evidence, journal
<1>12. ASSUME NEW d \in Labels, ConfirmSameDisk(d) PROVE TypeOK'
  <2>1. job' \in [Labels -> Jobs]
    BY <1>12, <1>j DEF ConfirmSameDisk, Jobs
  <2> QED
    BY <1>12, <1>t, <2>1 DEF ConfirmSameDisk, TypeOK, journal
<1>13. ASSUME NEW s \in Stations, Complete(s) PROVE TypeOK'
  <2> DEFINE t == reader[s].ticket
             r == images[t.disk][reader[s].attempt]
  <2>1. t.disk \in Labels /\ reader[s].attempt \in 1 .. Len(images[t.disk])
    BY <1>13, BusyReader, Zenon DEF Complete, CoordinatorInv, ReaderServesTicket
  <2>2. r \in Receipts
    BY <1>t, <2>1, SMTT(30) DEF TypeOK
  <2>3. t.generation \in Nat
    BY <1>13, BusyReader DEF Complete, Tickets
  <2>4. Idle \in Readers
    BY DEF Idle, Readers, Errors
  <2>5. disks' \in [Labels -> Disks]
    <3>1. CASE s = "usb"
      <4>1. disks' = [disks EXCEPT ![t.disk] = [@ EXCEPT !.phase = "saved", !.usb = r, !.triage = t.generation]]
        BY <1>13, <3>1 DEF Complete
      <4>2. PICK e \in Disks : e = disks[t.disk] BY <1>d, <2>1
      <4> HIDE DEF t, r
      <4>3. [e EXCEPT !.phase = "saved", !.usb = r, !.triage = t.generation] \in Disks BY <2>2, <2>3 DEF Disks, Phases
      <4>4. disks' = [disks EXCEPT ![t.disk] = [e EXCEPT !.phase = "saved", !.usb = r, !.triage = t.generation]] BY <4>1, <4>2
      <4> QED
        BY <1>d, <2>1, <4>3, <4>4
    <3>2. CASE s = "gw"
      <4>1. disks' = [disks EXCEPT ![t.disk] = [@ EXCEPT !.phase = "saved", !.gw = r]]
        BY <1>13, <3>2 DEF Complete
      <4>2. PICK e \in Disks : e = disks[t.disk] BY <1>d, <2>1
      <4> HIDE DEF t, r
      <4>3. [e EXCEPT !.phase = "saved", !.gw = r] \in Disks BY <2>2, <2>3 DEF Disks, Phases
      <4>4. disks' = [disks EXCEPT ![t.disk] = [e EXCEPT !.phase = "saved", !.gw = r]] BY <4>1, <4>2
      <4> QED
        BY <1>d, <2>1, <4>3, <4>4
    <3> QED
      BY <3>1, <3>2
  <2>6. reader' \in [Stations -> Readers]
    BY <1>13, <1>t, <2>4 DEF Complete, TypeOK
  <2> QED
    BY <1>13, <1>t, <2>5, <2>6, SMTT(30) DEF Complete, TypeOK, evidence
<1>14. ASSUME NEW s \in Stations, Failed(s) PROVE TypeOK'
  <2> DEFINE t == reader[s].ticket
  <2>1. t.disk \in Labels /\ reader[s].error \in Errors
    BY <1>14, <1>t, SMTT(30) DEF Failed, Current, TypeOK, Readers
  <2>2. PICK e \in Errors :
          disks' = [disks EXCEPT ![t.disk] = [@ EXCEPT !.phase = "interrupted", !.error = e]]
    BY <1>14, <2>1 DEF Failed, PairError, Errors
  <2>3. Idle \in Readers
    BY DEF Idle, Readers, Errors
  <2>4. disks' \in [Labels -> Disks]
    BY <1>d, <2>1, <2>2, ZenonT(60) DEF Disks, Phases
  <2>5. reader' \in [Stations -> Readers]
    BY <1>14, <1>t, <2>3 DEF Failed, TypeOK
  <2> QED
    BY <1>14, <1>t, <2>4, <2>5 DEF Failed, TypeOK, evidence
<1> QED
  BY <1>1, <1>2, <1>3, <1>4, <1>5, <1>6, <1>7, <1>8, <1>9, <1>10, <1>11, <1>12, <1>13,
     <1>14 DEF Operate

LEMMA ImageType ==
  ASSUME images \in [Labels -> Seq(Receipts)], NEW d \in Labels, NEW r \in Receipts,
         images' = [images EXCEPT ![d] = Append(@, r)]
  PROVE  images' \in [Labels -> Seq(Receipts)]
  BY AppendProperties

LEMMA UsbReadType == CoordinatorInv /\ UsbRead => TypeOK'
<1> SUFFICES ASSUME CoordinatorInv, UsbRead PROVE TypeOK'
  OBVIOUS
<1> DEFINE d == reader["usb"].ticket.disk
<1>t. TypeOK
  BY DEF CoordinatorInv
<1>l. Reading("usb") => d \in Labels
  BY BusyReader DEF Reading
<1>i. d \in Labels => Len(images[d]) \in Nat
  BY <1>t DEF TypeOK
<1>1. ASSUME UsbAdopt PROVE TypeOK'
  <2>1. reader' \in [Stations -> Readers]
    BY <1>1, <1>t, <1>l, <1>i, AnswerType DEF UsbAdopt, Errors
  <2> QED
    BY <1>1, <1>t, <2>1 DEF UsbAdopt, TypeOK, evidence, journal
<1>2. ASSUME ReadFails("usb") PROVE TypeOK'
  <2>1. reader' \in [Stations -> Readers]
    BY <1>2, <1>t, AnswerType DEF ReadFails, Errors
  <2> QED
    BY <1>2, <1>t, <2>1 DEF ReadFails, TypeOK, evidence, journal
<1>3. ASSUME NEW f \in Floppies, NEW bad \in {"none", "some", "all"}, UsbAcquire(f, bad)
      PROVE TypeOK'
  <2> DEFINE r == [station |-> "usb", attempt |-> NextAttempt(d), floppy |-> f, bad |-> bad,
                   verdict |-> "none", confirmed |-> "none", capture |-> 0]
  <2>1. d \in Labels
    BY <1>3, <1>l DEF UsbAcquire
  <2>2. NextAttempt(d) \in Nat \ {0}
    BY <1>i, <2>1 DEF NextAttempt
  <2>3. r \in Receipts
    BY <2>2 DEF Receipts, Verdicts
  <2>4. images' \in [Labels -> Seq(Receipts)]
    <3>1. images' = [images EXCEPT ![d] = Append(@, r)]
      BY <1>3 DEF UsbAcquire
    <3> QED
      BY <1>t, <2>1, <2>3, <3>1, ImageType DEF TypeOK
  <2>5. reader' \in [Stations -> Readers]
    BY <1>3, <1>t, <2>2, AnswerType DEF UsbAcquire, Errors
  <2> QED
    BY <1>3, <1>t, <2>4, <2>5 DEF UsbAcquire, TypeOK, journal
<1> QED
  BY <1>1, <1>2, <1>3 DEF UsbRead

LEMMA GwReadType == CoordinatorInv /\ GwRead => TypeOK'
<1> SUFFICES ASSUME CoordinatorInv, GwRead PROVE TypeOK'
  OBVIOUS
<1> DEFINE d == reader["gw"].ticket.disk
<1>t. TypeOK
  BY DEF CoordinatorInv
<1>j. job \in [Labels -> Jobs] /\ captured \in [Labels -> Nat]
  BY <1>t DEF TypeOK
<1>l. reader["gw"].pc # "idle" => d \in Labels
  BY BusyReader
<1>i. d \in Labels => NextAttempt(d) \in Nat /\ job[d].pending \in Nat
  BY <1>t DEF TypeOK, NextAttempt, Jobs
<1>e. {"none", "other", "disagree", "no_overlap"} \subseteq Errors
  BY DEF Errors
<1>1. ASSUME GwRefuse \/ GwReject \/ GwReuse \/ ReadFails("gw") PROVE TypeOK'
  <2>1. reader' \in [Stations -> Readers]
    <3>1. CASE GwRefuse
      BY <3>1, <1>t, <1>e, AnswerType DEF GwRefuse
    <3>2. CASE GwReject
      <4>1. PairError(Candidate(d).verdict) \in Errors
        BY <1>e DEF PairError
      <4> QED
        BY <3>2, <4>1, <1>t, AnswerType DEF GwReject
    <3>3. CASE GwReuse
      BY <3>3, <1>t, <1>e, <1>l, <1>i, AnswerType DEF GwReuse, Reading
    <3>4. CASE ReadFails("gw")
      BY <3>4, <1>t, <1>e, AnswerType DEF ReadFails
    <3> QED
      BY <1>1, <3>1, <3>2, <3>3, <3>4
  <2>2. UNCHANGED <<owner, journal, evidence, releasing>>
    BY <1>1 DEF GwRefuse, GwReject, GwReuse, ReadFails
  <2> QED
    BY <1>t, <2>1, <2>2 DEF TypeOK, evidence, journal
<1>2. ASSUME NEW f \in Floppies, NEW bad \in {"none", "some", "unformatted"},
             NEW v \in Verdicts, GwCapture(f, bad, v)
      PROVE TypeOK'
  <2>1. d \in Labels
    BY <1>2, <1>l DEF GwCapture, Reading
  <2>2. [id |-> captured[d] + 1, floppy |-> f, bad |-> bad, verdict |-> v] \in Captures
    BY <1>j, <2>1 DEF Captures
  <2>3. job' \in [Labels -> Jobs]
    BY <1>2, <1>j, <2>1, <2>2 DEF GwCapture, Jobs
  <2>4. captured' \in [Labels -> Nat]
    BY <1>2, <1>j, <2>1 DEF GwCapture
  <2> QED
    BY <1>2, <1>t, <2>3, <2>4 DEF GwCapture, TypeOK, journal
<1>3. ASSUME GwFormatException PROVE TypeOK'
  <2>1. job' \in [Labels -> Jobs]
    BY <1>3, <1>j, ZenonT(60) DEF GwFormatException, Jobs
  <2>2. reader' \in [Stations -> Readers]
    BY <1>3, <1>t, <1>e, AnswerType DEF GwFormatException
  <2> QED
    BY <1>3, <1>t, <2>1, <2>2 DEF GwFormatException, TypeOK, journal
<1>4. ASSUME GwAccept PROVE TypeOK'
  <2>1. d \in Labels
    BY <1>4, <1>l DEF GwAccept, Reading
  <2>2. job' \in [Labels -> Jobs]
    BY <1>4, <1>i, <1>j, <2>1 DEF GwAccept, Jobs
  <2>3. reader' \in [Stations -> Readers]
    BY <1>4, <1>t, <1>e, AnswerType DEF GwAccept
  <2> QED
    BY <1>4, <1>t, <2>2, <2>3 DEF GwAccept, TypeOK, journal
<1>5. ASSUME GwPublish PROVE TypeOK'
  <2>1. d \in Labels
    BY <1>5, <1>l DEF GwPublish
  <2>2. images' \in [Labels -> Seq(Receipts)]
    <3>1. CASE images' = images
      BY <3>1, <1>t, SMTT(30) DEF TypeOK
    <3>2. CASE images' # images
      <4> DEFINE r == [station |-> "gw", attempt |-> job[d].pending,
                       floppy |-> Candidate(d).floppy, bad |-> Candidate(d).bad,
                       verdict |-> Candidate(d).verdict, confirmed |-> job[d].approval,
                       capture |-> Candidate(d).id]
      <4>1. images' = [images EXCEPT ![d] = Append(@, r)] /\ job[d].pending # 0
        BY <1>5, <3>2, <1>i, <1>t, <2>1 DEF GwPublish, TypeOK
      <4>2. Decoded(d)
        BY <1>5 DEF GwPublish, CoordinatorInv, PublicationBound
      <4>3. Candidate(d) \in Captures /\ Candidate(d).bad # "unformatted"
        BY <1>j, <2>1, <4>2 DEF Decoded, Usable, Candidate, Jobs
      <4>4. job[d].pending \in Nat \ {0} /\ job[d].approval \in {"none", "conflicts", "custody"}
        BY <1>j, <2>1, <4>1 DEF Jobs
      <4>5. r \in Receipts
        BY <4>3, <4>4 DEF Receipts, Captures
      <4> QED
        BY <1>t, <2>1, <4>1, <4>5, ImageType, SMTT(30) DEF TypeOK
    <3> QED
      BY <3>1, <3>2
  <2>3. reader' \in [Stations -> Readers]
    BY <1>5, <1>t, <1>e, AnswerType DEF GwPublish
  <2> QED
    BY <1>5, <1>t, <2>2, <2>3 DEF GwPublish, TypeOK, journal
<1>6. ASSUME GwSeal PROVE TypeOK'
  <2>1. job' \in [Labels -> Jobs]
    BY <1>6, <1>j, ZenonT(60) DEF GwSeal, Jobs
  <2>2. reader' \in [Stations -> Readers]
    BY <1>6, <1>t, <1>e, <1>l, <1>i, AnswerType DEF GwSeal
  <2> QED
    BY <1>6, <1>t, <2>1, <2>2 DEF GwSeal, TypeOK, journal
<1> QED
  BY <1>1, <1>2, <1>3, <1>4, <1>5, <1>6 DEF GwRead

LEMMA RestartType == CoordinatorInv /\ Restart => TypeOK'
<1> SUFFICES ASSUME CoordinatorInv, Restart PROVE TypeOK'
  OBVIOUS
<1>t. TypeOK
  BY DEF CoordinatorInv
<1>1. ASSUME Open PROVE TypeOK'
  <2>1. disks' \in [Labels -> Disks]
    <3>1. ASSUME NEW k \in Disks PROVE Reopened(k) \in Disks
      BY DEF Reopened, Disks, Phases
    <3> QED
      BY <1>1, <1>t, <3>1 DEF Open, TypeOK
  <2>2. occupied' \in SUBSET Labels
    BY <1>1, <1>t DEF Open, Acquired, TypeOK
  <2> QED
    BY <1>1, <1>t, <2>1, <2>2 DEF Open, TypeOK, evidence
<1>2. ASSUME Exit PROVE TypeOK'
  <2>1. Idle \in Readers
    BY DEF Idle, Readers, Errors
  <2> QED
    BY <1>2, <1>t, <2>1 DEF Exit, TypeOK, evidence, journal
<1>3. ASSUME NEW d \in Labels, NEW f \in Floppies, AcquireElsewhere(d, f) PROVE TypeOK'
  <2> DEFINE r == [station |-> "usb", attempt |-> 1, floppy |-> f, bad |-> "none",
                   verdict |-> "none", confirmed |-> "none", capture |-> 0]
  <2>1. r \in Receipts
    BY DEF Receipts, Verdicts
  <2>2. images' = [images EXCEPT ![d] = Append(@, r)]
    BY <1>3 DEF AcquireElsewhere
  <2>3. images' \in [Labels -> Seq(Receipts)]
    BY <1>t, <2>1, <2>2, ImageType DEF TypeOK
  <2> QED
    BY <1>3, <1>t, <2>3 DEF AcquireElsewhere, TypeOK, journal
<1> QED
  BY <1>1, <1>2, <1>3 DEF Restart

LEMMA NextType == CoordinatorInv /\ [Next]_vars => TypeOK'
<1>1. CoordinatorInv /\ UNCHANGED vars => TypeOK'
  BY DEF CoordinatorInv, TypeOK, vars, journal, evidence
<1> QED
  BY <1>1, OperateType, UsbReadType, GwReadType, RestartType DEF Next

-----------------------------------------------------------------------------
(* Receipts.  Only Complete writes one, into a label that has none for the   *)
(* station of its ticket; SelectQueuedInstead clears a label without any.    *)

LEMMA ReceiptsFree ==
  ASSUME CoordinatorInv, NEW d \in Labels, Held(d), disks[d].phase # "saved"
  PROVE  /\ disks[d].ticket.work = "fresh" => ~Has(disks[d].usb) /\ ~Has(disks[d].gw)
         /\ disks[d].ticket.work = "recovery" =>
              /\ disks[d].ticket.station = "gw"
              /\ Has(disks[d].usb) /\ disks[d].usb.bad # "none"
              /\ ~Has(disks[d].gw)
  BY HeldTicket DEF TicketValid

LEMMA ReceiptsStep == CoordinatorInv /\ [Next]_vars => ReceiptsKept
<1> SUFFICES ASSUME CoordinatorInv, [Next]_vars PROVE ReceiptsKept
  OBVIOUS
<1>d. disks \in [Labels -> Disks]
  BY DEF CoordinatorInv, TypeOK
<1>1. CASE UNCHANGED disks
  BY <1>1 DEF ReceiptsKept
<1>2. ASSUME NEW d \in Labels, NEW t, disks' = Reserve(d, t) PROVE ReceiptsKept
  BY <1>2, <1>d DEF Reserve, ReceiptsKept, Disks
<1>4. ASSUME NEW d \in Labels, NEW offer \in Labels, SelectQueuedInstead(offer, d)
      PROVE ReceiptsKept
  <2>1. ~Has(disks[offer].usb) /\ ~Has(disks[offer].gw)
    BY <1>4, ReceiptsFree DEF SelectQueuedInstead, Held
  <2>2. ASSUME NEW e \in Labels
        PROVE  \/ e = offer
               \/ disks'[e].usb = disks[e].usb /\ disks'[e].gw = disks[e].gw
    BY <1>4, <1>d, Zenon DEF SelectQueuedInstead, Reserve, Disks
  <2> QED
    BY <2>1, <2>2 DEF ReceiptsKept
<1>5. ASSUME NEW s \in Stations, Complete(s) PROVE ReceiptsKept
  <2> DEFINE d == reader[s].ticket.disk
             r == images[d][reader[s].attempt]
  <2>1. /\ d \in Labels /\ Held(d) /\ disks[d].phase = "reading"
        /\ disks[d].ticket = reader[s].ticket /\ disks[d].ticket.station = s
        /\ disks[d].ticket \in Tickets
    BY <1>5, BusyReader, Zenon DEF Complete
  <2>2. disks[d].ticket.work \in {"fresh", "recovery"}
    BY <2>1 DEF Tickets
  <2>3. s = "usb" => ~Has(disks[d].usb)
    BY <2>1, <2>2, ReceiptsFree
  <2>4. ~Has(disks[d].gw)
    BY <2>1, <2>2, ReceiptsFree
  <2>5. CASE s = "usb"
    <3>1. disks' = [disks EXCEPT ![d] = [@ EXCEPT !.phase = "saved", !.usb = r,
                                                  !.triage = reader[s].ticket.generation]]
      BY <1>5, <2>5 DEF Complete
    <3> QED
      BY <1>d, <2>3, <2>5, <3>1 DEF ReceiptsKept, Disks
  <2>6. CASE s = "gw"
    <3>1. disks' = [disks EXCEPT ![d] = [@ EXCEPT !.phase = "saved", !.gw = r]]
      BY <1>5, <2>6 DEF Complete
    <3> QED
      BY <1>d, <2>4, <3>1 DEF ReceiptsKept, Disks
  <2> QED
    BY <2>5, <2>6
<1>6. ASSUME Operate PROVE ReceiptsKept
  <2>1. ASSUME NEW p \in BOOLEAN, SetPaused(p) PROVE ReceiptsKept
    BY <2>1, <1>1 DEF SetPaused
  <2>2. ASSUME NEW d \in Labels, ClaimRecovery(d) PROVE ReceiptsKept
    BY <2>2, <1>2 DEF ClaimRecovery
  <2>3. ASSUME NEW d \in Labels, NEW s \in Stations, ClaimRetry(s, d) \/ ClaimFresh(s, d)
        PROVE ReceiptsKept
    BY <2>3, <1>2 DEF ClaimRetry, ClaimFresh
  <2>4. ASSUME NEW d \in Labels, ReleaseArchive(d) \/ ReleaseReset(d) \/ ConfirmSameDisk(d)
        PROVE ReceiptsKept
    BY <2>4, <1>1 DEF ReleaseArchive, ReleaseReset, ConfirmSameDisk, journal
  <2>5. ASSUME NEW d \in Labels, ReleaseCommit(d) PROVE ReceiptsKept
    BY <2>5, <1>d DEF ReleaseCommit, ReceiptsKept, Disks
  <2>6. ASSUME NEW d \in Labels, NEW s \in Stations, Confirm(s, d) PROVE ReceiptsKept
    BY <2>6, <1>d DEF Confirm, ReceiptsKept, Disks
  <2>7. ASSUME NEW d \in Labels, NEW s \in Stations, Removed(s, d) PROVE ReceiptsKept
    BY <2>7, <1>d DEF Removed, ReceiptsKept, Disks
  <2>8. ASSUME ReleaseFails PROVE ReceiptsKept
    BY <2>8, <1>1 DEF ReleaseFails, journal
  <2>9. ASSUME NEW s \in Stations, Failed(s) PROVE ReceiptsKept
    <3>1. PICK e \in Errors \cup {reader[s].error} :
            disks' = [disks EXCEPT ![reader[s].ticket.disk] =
                        [@ EXCEPT !.phase = "interrupted", !.error = e]]
      BY <2>9, Zenon DEF Failed, PairError, Errors
    <3> QED
      BY <3>1, <1>d, SMTT(30) DEF ReceiptsKept, Disks
  <2> QED
    BY <1>6, <1>4, <1>5, <2>1, <2>2, <2>3, <2>4, <2>5, <2>6, <2>7, <2>8, <2>9 DEF Operate
<1>7. ASSUME UsbRead \/ GwRead PROVE UNCHANGED disks
  BY <1>7, Zenon DEF UsbRead, GwRead, UsbAdopt, UsbAcquire, ReadFails, GwRefuse, GwFormatException,
     GwReject, GwAccept, GwPublish, GwSeal, GwReuse, GwCapture, journal
<1>8. ASSUME Restart PROVE ReceiptsKept
  <2>1. CASE Open
    BY <2>1, <1>d DEF Open, Reopened, ReceiptsKept, Disks
  <2>2. CASE Exit
    BY <2>2, <1>1 DEF Exit, journal
  <2>3. ASSUME NEW d \in Labels, NEW f \in Floppies, AcquireElsewhere(d, f)
        PROVE ReceiptsKept
    BY <2>3, <1>1 DEF AcquireElsewhere, journal
  <2> QED
    BY <1>8, <2>1, <2>2, <2>3 DEF Restart
<1> QED
  BY <1>1, <1>6, <1>7, <1>8 DEF Next, vars, journal

-----------------------------------------------------------------------------
(* The journal.  A step changes the entry of at most one label (two for     *)
(* SelectQueuedInstead); the other entries stay valid as generations grow.  *)

LEMMA OtherLabel ==
  ASSUME CoordinatorInv, NEW e \in Labels, disks'[e] = disks[e],
         generation' \in Nat, generation <= generation'
  PROVE  LabelValid(e)' /\ (Held(e)' <=> Held(e))
<1>1. LabelValid(e) /\ generation \in Nat /\ disks[e] \in Disks
  BY DEF CoordinatorInv, TypeOK, JournalValid
<1>2. Held(e)' <=> Held(e)
  BY DEF Held
<1>3. Held(e) => TicketValid(e)'
  <2> SUFFICES ASSUME Held(e) PROVE TicketValid(e)'
    OBVIOUS
  <2>1. TicketValid(e) /\ disks[e].ticket.generation \in Nat
    BY <1>1, HeldTicket DEF Tickets
  <2> QED
    BY <1>1, <2>1 DEF TicketValid
<1>4. ReceiptsValid(e)'
  <2>1. ReceiptsValid(e) /\ disks[e].triage \in Nat
    BY <1>1 DEF LabelValid, Disks
  <2> QED
    BY <1>1, <2>1 DEF ReceiptsValid
<1>5. /\ (Held(e) <=> disks[e].ticket # NoTicket)'
      /\ (~Held(e) => disks[e].phase = Expected(disks[e]))'
  BY <1>1, <1>2 DEF LabelValid
<1> QED
  BY <1>2, <1>3, <1>4, <1>5 DEF LabelValid

LEMMA SameTicket ==
  ASSUME CoordinatorInv, NEW d \in Labels, Held(d),
         \A e \in Labels \ {d} : disks'[e] = disks[e], generation' = generation,
         LabelValid(d)', Held(d)' => disks'[d].ticket = disks[d].ticket
  PROVE  JournalValid'
<1>1. generation \in Nat
  BY DEF CoordinatorInv, TypeOK
<1>2. \A e \in Labels \ {d} : LabelValid(e)' /\ (Held(e)' <=> Held(e))
  BY <1>1, OtherLabel
<1>3. \A e \in Labels : Held(e)' => Held(e) /\ disks'[e].ticket = disks[e].ticket
  BY <1>2
<1>4. \A e, f \in Labels : e # f /\ Held(e)' /\ Held(f)' => Apart(e, f)'
  BY <1>3 DEF CoordinatorInv, JournalValid, Apart
<1> QED
  BY <1>2, <1>4 DEF JournalValid

LEMMA AbsentLabel ==
  ASSUME NEW o \in Labels, disks'[o] = AbsentDisk
  PROVE  LabelValid(o)' /\ ~Held(o)'
<1>1. ~Held(o)'
  BY DEF Held, AbsentDisk
<1>2. ReceiptsValid(o)'
  BY DEF ReceiptsValid, AbsentDisk, NoReceipt, Has
<1>3. disks'[o].phase = Expected(disks'[o])
  BY DEF AbsentDisk, Expected, NoReceipt, Has
<1>4. disks'[o].ticket = NoTicket
  BY DEF AbsentDisk
<1> QED
  BY <1>1, <1>2, <1>3, <1>4 DEF LabelValid

\* A new ticket goes to a station that no label keeps: o gave it up, unless o = d.
LEMMA NewTicket ==
  ASSUME CoordinatorInv, NEW d \in Labels, NEW s \in Stations, NEW o \in Labels,
         \A e \in Labels \ {d, o} : disks'[e] = disks[e],
         \A e \in Labels \ {d, o} : Held(e) => disks[e].ticket.station # s,
         o = d \/ disks'[o] = AbsentDisk,
         generation' = generation + 1, LabelValid(d)',
         disks'[d].ticket.station = s, disks'[d].ticket.generation = generation + 1
  PROVE  JournalValid'
<1>1. generation \in Nat
  BY DEF CoordinatorInv, TypeOK
<1>2. ASSUME NEW e \in Labels, e # d
      PROVE  /\ LabelValid(e)'
             /\ Held(e)' => /\ Held(e) /\ disks'[e] = disks[e]
                            /\ disks[e].ticket.station # s
  <2>1. CASE e = o
    BY <1>2, <2>1, AbsentLabel
  <2>2. CASE e # o
    BY <1>1, <1>2, <2>2, OtherLabel
  <2> QED
    BY <2>1, <2>2
<1>3. ASSUME NEW e \in Labels, e # d, Held(e)' PROVE Apart(e, d)' /\ Apart(d, e)'
  <2>1. Held(e) /\ disks'[e] = disks[e] /\ disks[e].ticket.station # s
    BY <1>2, <1>3
  <2>2. disks[e].ticket.generation \in 1 .. generation
    BY <2>1, HeldTicket DEF TicketValid
  <2>3. disks[e].ticket.generation # generation + 1
    BY <1>1, <2>2
  <2> QED
    BY <2>1, <2>3 DEF Apart
<1>4. ASSUME NEW e \in Labels, NEW f \in Labels, e # f, Held(e)', Held(f)'
      PROVE  Apart(e, f)'
  <2>1. CASE e = d \/ f = d
    BY <1>3, <1>4, <2>1
  <2>2. CASE e # d /\ f # d
    <3>1. Held(e) /\ disks'[e] = disks[e] /\ Held(f) /\ disks'[f] = disks[f]
      BY <1>2, <1>4, <2>2
    <3>2. Apart(e, f)
      BY <1>4, <3>1 DEF CoordinatorInv, JournalValid
    <3> QED
      BY <3>1, <3>2 DEF Apart
  <2> QED
    BY <2>1, <2>2
<1> QED
  BY <1>2, <1>4 DEF JournalValid

\* The entry of a label after a claim.
LEMMA ReservedLabel ==
  ASSUME CoordinatorInv, NEW d \in Labels, NEW s \in Stations,
         NEW work \in {"fresh", "recovery"}, NEW retry \in BOOLEAN,
         disks'[d] = [disks[d] EXCEPT !.phase = "reserved",
                        !.ticket = Issue(d, s, work, retry), !.error = "none"],
         generation' = generation + 1, ~Has(disks[d].gw),
         work = "recovery" => s = "gw" /\ Has(disks[d].usb) /\ disks[d].usb.bad # "none",
         work = "fresh" => ~Has(disks[d].usb)
  PROVE  /\ LabelValid(d)'
         /\ disks'[d].ticket.station = s /\ disks'[d].ticket.generation = generation + 1
<1>1. generation \in Nat /\ disks[d] \in Disks /\ LabelValid(d)
  BY DEF CoordinatorInv, TypeOK, JournalValid
<1>2. /\ disks'[d].phase = "reserved" /\ disks'[d].ticket = Issue(d, s, work, retry)
      /\ disks'[d].usb = disks[d].usb /\ disks'[d].gw = disks[d].gw
      /\ disks'[d].triage = disks[d].triage
  BY <1>1 DEF Disks
<1>3. /\ disks'[d].ticket.disk = d /\ disks'[d].ticket.station = s
      /\ disks'[d].ticket.work = work /\ disks'[d].ticket.generation = generation + 1
  BY <1>2 DEF Issue
<1>4. Held(d)'
  BY <1>2 DEF Held
<1>5. disks'[d].ticket # NoTicket
  BY <1>2, <1>1, IssueType, NoTicketIsNone
<1>6. TicketValid(d)'
  BY <1>1, <1>2, <1>3 DEF TicketValid
<1>7. ReceiptsValid(d)'
  <2>1. disks[d].triage \in Nat /\ ReceiptsValid(d)
    BY <1>1 DEF Disks, LabelValid
  <2> QED
    BY <1>1, <1>2, <2>1 DEF ReceiptsValid
<1> QED
  BY <1>3, <1>4, <1>5, <1>6, <1>7 DEF LabelValid

LEMMA ClaimJournal ==
  ASSUME CoordinatorInv, NEW d \in Labels, NEW s \in Stations,
         ClaimRetry(s, d) \/ ClaimFresh(s, d) \/ (s = "gw" /\ ClaimRecovery(d))
  PROVE  JournalValid'
<1>d. disks \in [Labels -> Disks]
  BY DEF CoordinatorInv, TypeOK
<1>1. PICK work \in {"fresh", "recovery"}, retry \in BOOLEAN :
        disks' = Reserve(d, Issue(d, s, work, retry))
        /\ ~Has(disks[d].gw)
        /\ (work = "recovery" => s = "gw" /\ Has(disks[d].usb) /\ disks[d].usb.bad # "none")
        /\ (work = "fresh" => ~Has(disks[d].usb))
  <2>1. CASE ClaimRetry(s, d)
    <3>1. /\ Held(d) /\ disks[d].phase = "interrupted" /\ disks[d].ticket.station = s
          /\ disks' = Reserve(d, Issue(d, s, disks[d].ticket.work, TRUE))
      BY <2>1 DEF ClaimRetry, HeldBy
    <3>2. disks[d].ticket.work \in {"fresh", "recovery"}
      BY <3>1, HeldTicket DEF Tickets
    <3> QED
      BY <3>1, <3>2, ReceiptsFree
  <2>2. CASE ClaimFresh(s, d)
    <3>1. disks[d].phase = "absent"
      BY <2>2 DEF ClaimFresh, IsNextFresh, Unreserved
    <3>2. Expected(disks[d]) = "absent"
      BY <3>1 DEF CoordinatorInv, JournalValid, LabelValid, Held
    <3>3. ~Has(disks[d].gw) /\ ~Has(disks[d].usb)
      BY <3>2 DEF Expected
    <3> QED
      BY <2>2, <3>3 DEF ClaimFresh
  <2>3. CASE s = "gw" /\ ClaimRecovery(d)
    <3>1. disks[d].phase = "await_gw"
      BY <2>3 DEF ClaimRecovery
    <3>2. Expected(disks[d]) = "await_gw"
      BY <3>1 DEF CoordinatorInv, JournalValid, LabelValid, Held
    <3>3. ~Has(disks[d].gw) /\ Has(disks[d].usb) /\ disks[d].usb.bad # "none"
      BY <3>2 DEF Expected
    <3> QED
      BY <2>3, <3>3 DEF ClaimRecovery
  <2> QED
    BY <2>1, <2>2, <2>3
<1>2. generation' = generation + 1
  BY Zenon DEF ClaimRetry, ClaimFresh, ClaimRecovery
<1>3. /\ disks'[d] = [disks[d] EXCEPT !.phase = "reserved",
                        !.ticket = Issue(d, s, work, retry), !.error = "none"]
      /\ \A e \in Labels \ {d} : disks'[e] = disks[e]
  BY <1>1, <1>d DEF Reserve
<1>4. /\ LabelValid(d)'
      /\ disks'[d].ticket.station = s /\ disks'[d].ticket.generation = generation + 1
  BY <1>1, <1>2, <1>3, ReservedLabel, ZenonT(60)
<1>5. \A e \in Labels \ {d} : Held(e) => disks[e].ticket.station # s
  <2>1. CASE Held(d) /\ disks[d].ticket.station = s
    <3>1. \A e \in Labels \ {d} : Held(e) => Apart(d, e)
      BY <2>1 DEF CoordinatorInv, JournalValid
    <3> QED
      BY <2>1, <3>1 DEF Apart
  <2>2. CASE HeldBy(s) = {}
    BY <2>2 DEF HeldBy
  <2> QED
    BY <2>1, <2>2 DEF ClaimRetry, ClaimFresh, ClaimRecovery, HeldBy
<1>6. /\ \A e \in Labels \ {d, d} : disks'[e] = disks[e]
      /\ \A e \in Labels \ {d, d} : Held(e) => disks[e].ticket.station # s
  BY <1>3, <1>5
<1> QED
  BY <1>2, <1>4, <1>6, NewTicket

LEMMA SwapJournal ==
  ASSUME CoordinatorInv, NEW d \in Labels, NEW offer \in Labels,
         SelectQueuedInstead(offer, d)
  PROVE  JournalValid'
<1>d. disks \in [Labels -> Disks]
  BY DEF CoordinatorInv, TypeOK
<1>1. /\ offer # d /\ disks[d].phase = "await_gw"
      /\ Held(offer) /\ disks[offer].ticket.station = "gw"
  BY DEF SelectQueuedInstead, Held
<1>2. Expected(disks[d]) = "await_gw"
  BY <1>1 DEF CoordinatorInv, JournalValid, LabelValid, Held
<1>3. ~Has(disks[d].gw) /\ Has(disks[d].usb) /\ disks[d].usb.bad # "none"
  BY <1>2 DEF Expected
<1>4. /\ disks'[d] = [disks[d] EXCEPT !.phase = "reserved",
                        !.ticket = Issue(d, "gw", "recovery", FALSE), !.error = "none"]
      /\ disks'[offer] = AbsentDisk
      /\ \A e \in Labels \ {d, offer} : disks'[e] = disks[e]
  BY <1>1, <1>d DEF SelectQueuedInstead, Reserve
<1>5. generation' = generation + 1
  BY DEF SelectQueuedInstead
<1>6. /\ LabelValid(d)'
      /\ disks'[d].ticket.station = "gw" /\ disks'[d].ticket.generation = generation + 1
  BY <1>3, <1>4, <1>5, ReservedLabel
<1>7. \A e \in Labels \ {d, offer} : Held(e) => disks[e].ticket.station # "gw"
  <2>1. \A e \in Labels \ {d, offer} : Held(e) => Apart(offer, e)
    BY <1>1 DEF CoordinatorInv, JournalValid
  <2> QED
    BY <1>1, <2>1 DEF Apart
<1> QED
  BY <1>4, <1>5, <1>6, <1>7, NewTicket

\* A held label whose ticket and receipts stay keeps a valid entry.
LEMMA MovedLabel ==
  ASSUME CoordinatorInv, NEW d \in Labels, Held(d),
         NEW p \in {"reading", "interrupted"}, NEW error,
         disks'[d] = [disks[d] EXCEPT !.phase = p, !.error = error],
         disks[d].phase # "saved", generation' = generation
  PROVE  LabelValid(d)' /\ Held(d)' /\ disks'[d].ticket = disks[d].ticket
<1>1. disks[d] \in Disks /\ LabelValid(d)
  BY DEF CoordinatorInv, TypeOK, JournalValid
<1>2. /\ disks'[d].phase = p /\ disks'[d].ticket = disks[d].ticket
      /\ disks'[d].usb = disks[d].usb /\ disks'[d].gw = disks[d].gw
      /\ disks'[d].triage = disks[d].triage
  BY <1>1 DEF Disks
<1>3. Held(d)'
  BY <1>2 DEF Held
<1>4. TicketValid(d)'
  BY <1>1, <1>2 DEF LabelValid, TicketValid
<1>5. ReceiptsValid(d)'
  BY <1>1, <1>2 DEF LabelValid, ReceiptsValid
<1> QED
  BY <1>1, <1>2, <1>3, <1>4, <1>5 DEF LabelValid

LEMMA MovedJournal ==
  ASSUME CoordinatorInv, NEW d \in Labels, Held(d),
         NEW p \in {"reading", "interrupted"}, NEW error,
         disks' = [disks EXCEPT ![d] = [@ EXCEPT !.phase = p, !.error = error]],
         disks[d].phase # "saved", generation' = generation
  PROVE  JournalValid'
<1>d. disks \in [Labels -> Disks]
  BY DEF CoordinatorInv, TypeOK
<1>1. /\ disks'[d] = [disks[d] EXCEPT !.phase = p, !.error = error]
      /\ \A e \in Labels \ {d} : disks'[e] = disks[e]
  BY <1>d
<1>2. LabelValid(d)' /\ disks'[d].ticket = disks[d].ticket
  BY <1>1, MovedLabel, ZenonT(60)
<1> QED
  BY <1>1, <1>2, SameTicket

LEMMA RemovedJournal ==
  ASSUME CoordinatorInv, NEW d \in Labels, NEW s \in Stations, Removed(s, d)
  PROVE  JournalValid'
<1>d. disks \in [Labels -> Disks] /\ disks[d] \in Disks
  BY DEF CoordinatorInv, TypeOK
<1>1. Held(d) /\ disks[d].ticket.station = s /\ disks[d].phase = "saved"
  BY DEF Removed, HeldBy
<1>2. TicketValid(d) /\ disks[d].ticket.work \in {"fresh", "recovery"} /\ ReceiptsValid(d)
  BY <1>1, HeldTicket DEF Tickets, CoordinatorInv, JournalValid, LabelValid
<1>3. /\ disks'[d].phase = IF s = "usb"
           THEN IF disks[d].usb.bad # "none" THEN "await_gw" ELSE "complete"
           ELSE IF Clean(disks[d].gw) THEN "complete" ELSE "partial"
      /\ disks'[d].ticket = NoTicket
      /\ disks'[d].usb = disks[d].usb /\ disks'[d].gw = disks[d].gw
      /\ disks'[d].triage = disks[d].triage
      /\ \A e \in Labels \ {d} : disks'[e] = disks[e]
  BY <1>d DEF Removed, Disks
<1>4. ~Held(d)'
  BY <1>3 DEF Held
<1>5. disks'[d].phase = Expected(disks[d])
  <2>1. CASE s = "usb"
    <3>1. Has(disks[d].usb) /\ ~Has(disks[d].gw)
      BY <1>1, <1>2, <2>1 DEF TicketValid
    <3> QED
      BY <1>3, <2>1, <3>1 DEF Expected
  <2>2. CASE s = "gw"
    <3>1. Has(disks[d].gw)
      BY <1>1, <1>2, <2>2 DEF TicketValid
    <3> QED
      BY <1>3, <2>2, <3>1 DEF Expected
  <2> QED
    BY <2>1, <2>2
<1>6. Expected(disks'[d]) = Expected(disks[d])
  BY <1>3 DEF Expected
<1>7. generation' = generation
  BY DEF Removed
<1>8. ReceiptsValid(d)'
  BY <1>2, <1>3, <1>4, <1>7 DEF ReceiptsValid, Held
<1>9. LabelValid(d)'
  BY <1>3, <1>4, <1>5, <1>6, <1>8 DEF LabelValid
<1> QED
  BY <1>1, <1>3, <1>4, <1>7, <1>9, SameTicket

LEMMA ReleaseJournal ==
  ASSUME CoordinatorInv, NEW d \in Labels, ReleaseCommit(d)
  PROVE  JournalValid'
<1>d. disks \in [Labels -> Disks] /\ disks[d] \in Disks
  BY DEF CoordinatorInv, TypeOK
<1>1. Held(d) /\ disks[d].phase = "interrupted" /\ disks[d].ticket.work = "recovery"
  BY DEF ReleaseCommit, Disputed, HeldBy
<1>2. ReceiptsValid(d)
  BY DEF CoordinatorInv, JournalValid, LabelValid
<1>3. Has(disks[d].usb) /\ disks[d].usb.bad # "none" /\ ~Has(disks[d].gw)
  BY <1>1, ReceiptsFree
<1>4. /\ disks'[d].phase = "await_gw" /\ disks'[d].ticket = NoTicket
      /\ disks'[d].usb = disks[d].usb /\ disks'[d].gw = disks[d].gw
      /\ disks'[d].triage = disks[d].triage
      /\ \A e \in Labels \ {d} : disks'[e] = disks[e]
  BY <1>d DEF ReleaseCommit, Disks
<1>5. ~Held(d)'
  BY <1>4 DEF Held
<1>6. Expected(disks'[d]) = "await_gw"
  BY <1>3, <1>4 DEF Expected
<1>7. generation' = generation
  BY DEF ReleaseCommit
<1>8. ReceiptsValid(d)'
  BY <1>2, <1>4, <1>7 DEF ReceiptsValid
<1>9. LabelValid(d)'
  BY <1>4, <1>5, <1>6, <1>8 DEF LabelValid
<1> QED
  BY <1>1, <1>4, <1>5, <1>7, <1>9, SameTicket

\* What complete() seals comes from the images of the label the reader served.
LEMMA CompleteJournal ==
  ASSUME CoordinatorInv, NEW s \in Stations, Complete(s)
  PROVE  JournalValid'
<1>0. PICK d, t, r : t = reader[s].ticket /\ d = t.disk /\ r = images[d][reader[s].attempt]
  BY SMTT(30)
<1>1. /\ t \in Tickets /\ d \in Labels /\ t.station = s /\ Held(d)
      /\ disks[d].ticket = t /\ disks[d].phase = "reading"
  BY <1>0, BusyReader, SMTT(30) DEF Complete
<1>d. disks \in [Labels -> Disks] /\ disks[d] \in Disks
  BY <1>1, SMTT(30) DEF CoordinatorInv, TypeOK
<1>2. reader[s].attempt \in 1 .. Len(images[d])
  BY <1>0 DEF Complete, CoordinatorInv, ReaderServesTicket
<1>3. r \in Receipts
  BY <1>0, <1>1, <1>2 DEF CoordinatorInv, TypeOK
<1>4. r.confirmed # "none" => Has(disks[d].usb) /\ r.station = "gw"
  BY <1>0, <1>1, <1>2, SMTT(30) DEF CoordinatorInv, PublicationBound
<1>5. r.station = s /\ Has(r)
  BY <1>0, <1>1, <1>3, Zenon DEF Complete, Completable, Has, Receipts
<1>6. TicketValid(d) /\ ReceiptsValid(d) /\ t.work \in {"fresh", "recovery"}
  BY <1>1, HeldTicket DEF Tickets, CoordinatorInv, JournalValid, LabelValid
<1>7. generation' = generation
  BY DEF Complete
<1>8. /\ disks'[d].phase = "saved" /\ disks'[d].ticket = t
      /\ \A e \in Labels \ {d} : disks'[e] = disks[e]
      /\ IF s = "usb"
         THEN /\ disks'[d].usb = r /\ disks'[d].gw = disks[d].gw
              /\ disks'[d].triage = t.generation
         ELSE /\ disks'[d].usb = disks[d].usb /\ disks'[d].gw = r
              /\ disks'[d].triage = disks[d].triage
  <2>1. CASE s = "usb"
    <3>1. disks' = [disks EXCEPT ![d] = [@ EXCEPT !.phase = "saved", !.usb = r,
                                                  !.triage = t.generation]]
      BY <1>0, <2>1 DEF Complete
    <3> QED
      BY <1>1, <1>d, <2>1, <3>1 DEF Disks
  <2>2. CASE s = "gw"
    <3>1. disks' = [disks EXCEPT ![d] = [@ EXCEPT !.phase = "saved", !.gw = r]]
      BY <1>0, <2>2 DEF Complete
    <3> QED
      BY <1>1, <1>d, <2>2, <3>1 DEF Disks
  <2> QED
    BY <2>1, <2>2
<1>9. Held(d)'
  BY <1>8 DEF Held
<1>10. t # NoTicket /\ disks'[d].ticket # NoTicket
  BY <1>1, <1>8, NoTicketIsNone
<1>11. TicketValid(d)'
  BY <1>1, <1>5, <1>6, <1>7, <1>8 DEF TicketValid
<1>12. ReceiptsValid(d)'
  <2>1. CASE s = "usb"
    <3>1. r.confirmed = "none"
      BY <1>4, <1>5, <2>1
    <3>2. ~Has(disks[d].gw)
      BY <1>1, <1>6, <2>1 DEF TicketValid
    <3>3. t.generation <= generation
      BY <1>1, <1>6 DEF TicketValid, Tickets, CoordinatorInv, TypeOK
    <3> QED
      BY <1>5, <1>7, <1>8, <2>1, <3>1, <3>2, <3>3 DEF ReceiptsValid
  <2>2. CASE s = "gw"
    BY <1>1, <1>4, <1>5, <1>6, <1>7, <1>8, <2>2 DEF ReceiptsValid
  <2> QED
    BY <2>1, <2>2
<1>13. LabelValid(d)'
  BY <1>9, <1>10, <1>11, <1>12 DEF LabelValid
<1> QED
  BY <1>1, <1>7, <1>8, <1>13, SameTicket

LEMMA OpenJournal ==
  ASSUME CoordinatorInv, Open
  PROVE  JournalValid'
<1>d. disks \in [Labels -> Disks]
  BY DEF CoordinatorInv, TypeOK
<1>1. generation' = generation
  BY DEF Open
<1>2. ASSUME NEW d \in Labels
      PROVE  /\ LabelValid(d)' /\ (Held(d)' <=> Held(d))
             /\ disks'[d].ticket = disks[d].ticket
  <2>1. disks'[d] = Reopened(disks[d])
    BY DEF Open
  <2>2. CASE disks[d].phase \in {"reserved", "reading"}
    <3>1. disks'[d] = [disks[d] EXCEPT !.phase = "interrupted", !.error = disks[d].error]
      BY <1>d, <2>1, <2>2 DEF Reopened, Disks
    <3>2. Held(d) /\ disks[d].phase # "saved"
      BY <2>2 DEF Held
    <3> QED
      BY <1>1, <3>1, <3>2, MovedLabel
  <2>3. CASE disks[d].phase \notin {"reserved", "reading"}
    <3>1. disks'[d] = disks[d]
      BY <2>1, <2>3 DEF Reopened
    <3>2. generation \in Nat
      BY DEF CoordinatorInv, TypeOK
    <3> QED
      BY <1>1, <3>1, <3>2, OtherLabel
  <2> QED
    BY <2>2, <2>3
<1>3. ASSUME NEW d \in Labels, NEW e \in Labels, d # e, Held(d)', Held(e)'
      PROVE  Apart(d, e)'
  <2>1. Apart(d, e)
    BY <1>2, <1>3 DEF CoordinatorInv, JournalValid
  <2>2. disks'[d].ticket = disks[d].ticket /\ disks'[e].ticket = disks[e].ticket
    BY <1>2
  <2> QED
    BY <2>1, <2>2 DEF Apart
<1> QED
  BY <1>2, <1>3 DEF JournalValid

LEMMA SameJournal ==
  ASSUME CoordinatorInv, UNCHANGED <<disks, generation>>
  PROVE  JournalValid'
  BY DEF CoordinatorInv, JournalValid, LabelValid, Apart, Held, TicketValid, ReceiptsValid

LEMMA JournalStep == CoordinatorInv /\ [Next]_vars => JournalValid'
<1> SUFFICES ASSUME CoordinatorInv, [Next]_vars PROVE JournalValid'
  OBVIOUS
<1>d. disks \in [Labels -> Disks]
  BY DEF CoordinatorInv, TypeOK
<1>1. CASE UNCHANGED <<disks, generation>>
  BY <1>1, SameJournal
<1>2. ASSUME Operate PROVE JournalValid'
  <2>1. ASSUME NEW p \in BOOLEAN, SetPaused(p) PROVE JournalValid'
    BY <2>1, <1>1 DEF SetPaused
  <2>2. ASSUME NEW d \in Labels, NEW s \in Stations, ClaimRetry(s, d) \/ ClaimFresh(s, d)
        PROVE JournalValid'
    BY <2>2, ClaimJournal
  <2>3. ASSUME NEW d \in Labels, ClaimRecovery(d) PROVE JournalValid'
    BY <2>3, ClaimJournal
  <2>4. ASSUME NEW d \in Labels, ReleaseArchive(d) \/ ReleaseReset(d) \/ ConfirmSameDisk(d)
        PROVE JournalValid'
    BY <2>4, <1>1 DEF ReleaseArchive, ReleaseReset, ConfirmSameDisk, journal
  <2>5. ASSUME NEW d \in Labels, ReleaseCommit(d) PROVE JournalValid'
    BY <2>5, ReleaseJournal
  <2>6. ASSUME NEW d \in Labels, NEW s \in Stations, Confirm(s, d) PROVE JournalValid'
    <3>1. disks' = [disks EXCEPT ![d] = [@ EXCEPT !.phase = "reading", !.error = disks[d].error]]
      BY <2>6, <1>d DEF Confirm, Disks
    <3>2. Held(d) /\ disks[d].phase # "saved" /\ generation' = generation
      BY <2>6 DEF Confirm, HeldBy
    <3> QED
      BY <3>1, <3>2, MovedJournal
  <2>7. ASSUME NEW d \in Labels, NEW s \in Stations, Removed(s, d) PROVE JournalValid'
    BY <2>7, RemovedJournal
  <2>8. ASSUME ReleaseFails PROVE JournalValid'
    BY <2>8, <1>1 DEF ReleaseFails, journal
  <2>9. ASSUME NEW d \in Labels, NEW offer \in Labels, SelectQueuedInstead(offer, d)
        PROVE JournalValid'
    BY <2>9, SwapJournal
  <2>10. ASSUME NEW s \in Stations, Complete(s) PROVE JournalValid'
    BY <2>10, CompleteJournal
  <2>11. ASSUME NEW s \in Stations, Failed(s) PROVE JournalValid'
    <3> DEFINE d == reader[s].ticket.disk
    <3>1. PICK e : disks' = [disks EXCEPT ![d] = [@ EXCEPT !.phase = "interrupted", !.error = e]]
      BY <2>11, Zenon DEF Failed
    <3>2. /\ d \in Labels /\ disks[d].phase = "reading" /\ Held(d)
          /\ generation' = generation
      BY <2>11, SMTT(30) DEF Failed, Current, Held
    <3> QED
      BY <3>1, <3>2, MovedJournal, ZenonT(60)
  <2> QED
    BY <1>2, <2>1, <2>2, <2>3, <2>4, <2>5, <2>6, <2>7, <2>8, <2>9, <2>10, <2>11 DEF Operate
<1>3. ASSUME UsbRead \/ GwRead PROVE UNCHANGED <<disks, generation>>
  BY <1>3, Zenon DEF UsbRead, GwRead, UsbAdopt, UsbAcquire, ReadFails, GwRefuse, GwFormatException,
     GwReject, GwAccept, GwPublish, GwSeal, GwReuse, GwCapture, journal
<1>4. ASSUME Restart PROVE JournalValid'
  BY <1>4, <1>1, OpenJournal DEF Restart, Exit, AcquireElsewhere, journal
<1> QED
  BY <1>1, <1>2, <1>3, <1>4 DEF Next, vars, journal

-----------------------------------------------------------------------------
(* The readers.  An entry in phase "reading" is only moved by the answer of  *)
(* the reader that serves it, so a busy reader keeps its ticket.             *)

ServesTicket(s) ==
  LET t == reader[s].ticket IN
  reader[s].pc # "idle" =>
    /\ owner
    /\ t \in Tickets /\ t.station = s
    /\ disks[t.disk].ticket = t /\ disks[t.disk].phase = "reading"
    /\ reader[s].pc = "ok" => reader[s].attempt \in 1 .. Len(images[t.disk])

LEMMA ServesEach == ReaderServesTicket <=> \A s \in Stations : ServesTicket(s)
  BY DEF ReaderServesTicket, ServesTicket

LEMMA KeepsServing ==
  ASSUME CoordinatorInv, NEW s \in Stations, owner' = owner, reader'[s] = reader[s],
         reader[s].pc # "idle" => LET d == reader[s].ticket.disk IN
           /\ disks'[d].ticket = disks[d].ticket /\ disks'[d].phase = disks[d].phase
           /\ Len(images[d]) <= Len(images'[d]) /\ Len(images'[d]) \in Nat
  PROVE  ServesTicket(s)'
<1> USE DEF ServesTicket
<1>1. ServesTicket(s)
  BY ServesEach DEF CoordinatorInv
<1> SUFFICES ASSUME reader[s].pc # "idle" PROVE ServesTicket(s)'
  OBVIOUS
<1>2. PICK d : d = reader[s].ticket.disk
  OBVIOUS
<1>3. Len(images[d]) \in Nat
  BY <1>2, BusyReader DEF CoordinatorInv, TypeOK
<1> QED
  BY <1>1, <1>2, <1>3

\* Steps that leave every label being read and all published images alone.
LEMMA BystandersServe ==
  ASSUME CoordinatorInv, UNCHANGED <<owner, images>>, NEW s \in Stations,
         reader'[s] = reader[s],
         \A d \in Labels : Held(d) /\ disks[d].phase = "reading" /\ disks[d].ticket.station = s =>
           disks'[d].ticket = disks[d].ticket /\ disks'[d].phase = disks[d].phase
  PROVE  ServesTicket(s)'
<1>1. ASSUME reader[s].pc # "idle"
      PROVE  LET d == reader[s].ticket.disk IN
           /\ disks'[d].ticket = disks[d].ticket /\ disks'[d].phase = disks[d].phase
           /\ Len(images[d]) <= Len(images'[d]) /\ Len(images'[d]) \in Nat
  <2>1. PICK d : d = reader[s].ticket.disk
    OBVIOUS
  <2>2. /\ d \in Labels /\ Held(d) /\ disks[d].phase = "reading"
        /\ disks[d].ticket.station = s
    BY <1>1, <2>1, BusyReader
  <2>3. Len(images[d]) \in Nat
    BY <2>2 DEF CoordinatorInv, TypeOK
  <2> QED
    BY <2>1, <2>2, <2>3
<1> QED
  BY <1>1, KeepsServing

LEMMA OperateReaders == CoordinatorInv /\ Operate => ReaderServesTicket'
<1> SUFFICES ASSUME CoordinatorInv, Operate PROVE ReaderServesTicket'
  OBVIOUS
<1>t. TypeOK
  BY DEF CoordinatorInv
<1>d. disks \in [Labels -> Disks] /\ reader \in [Stations -> Readers]
  BY <1>t DEF TypeOK
<1>0. ASSUME UNCHANGED <<owner, images, reader>>,
             \A d \in Labels : disks[d].phase = "reading" =>
               disks'[d].ticket = disks[d].ticket /\ disks'[d].phase = disks[d].phase
      PROVE  ReaderServesTicket'
  <2>1. ASSUME NEW s \in Stations PROVE ServesTicket(s)'
    BY <1>0, BystandersServe
  <2> QED
    BY <2>1, ServesEach DEF ReaderServesTicket, ServesTicket
<1>1. ASSUME NEW d \in Labels, NEW t, disks' = Reserve(d, t), disks[d].phase # "reading",
             UNCHANGED <<owner, images, reader>>
      PROVE  ReaderServesTicket'
  BY <1>0, <1>1, <1>d DEF Reserve
<1>2. ASSUME NEW p \in BOOLEAN, SetPaused(p) PROVE ReaderServesTicket'
  BY <1>0, <1>2 DEF SetPaused, evidence
<1>3. ASSUME NEW d \in Labels, ClaimRecovery(d) PROVE ReaderServesTicket'
  BY <1>1, <1>3 DEF ClaimRecovery, evidence
<1>4. ASSUME NEW d \in Labels, NEW s \in Stations, ClaimRetry(s, d) \/ ClaimFresh(s, d)
      PROVE  ReaderServesTicket'
  BY <1>1, <1>4 DEF ClaimRetry, ClaimFresh, IsNextFresh, Unreserved, evidence
<1>5. ASSUME NEW d \in Labels, ReleaseArchive(d) \/ ReleaseReset(d) \/ ConfirmSameDisk(d)
      PROVE  ReaderServesTicket'
  BY <1>0, <1>5 DEF ReleaseArchive, ReleaseReset, ConfirmSameDisk, journal
<1>6. ASSUME NEW d \in Labels, ReleaseCommit(d) PROVE ReaderServesTicket'
  <2>1. disks[d].phase = "interrupted" /\ UNCHANGED <<owner, images, reader>>
    BY <1>6 DEF ReleaseCommit, Disputed, evidence
  <2>2. \A e \in Labels \ {d} : disks'[e] = disks[e]
    BY <1>6, <1>d DEF ReleaseCommit
  <2> QED
    BY <1>0, <2>1, <2>2
<1>7. ASSUME NEW d \in Labels, NEW s \in Stations, Removed(s, d) PROVE ReaderServesTicket'
  <2>1. disks[d].phase = "saved" /\ UNCHANGED <<owner, images, reader>>
    BY <1>7 DEF Removed, evidence
  <2>2. \A e \in Labels \ {d} : disks'[e] = disks[e]
    BY <1>7, <1>d DEF Removed
  <2> QED
    BY <1>0, <2>1, <2>2
<1>8. ASSUME ReleaseFails PROVE ReaderServesTicket'
  BY <1>0, <1>8 DEF ReleaseFails, evidence, journal
<1>9. ASSUME NEW d \in Labels, NEW offer \in Labels, SelectQueuedInstead(offer, d)
      PROVE  ReaderServesTicket'
  <2>1. /\ disks[d].phase = "await_gw" /\ disks[offer].phase = "reserved"
        /\ UNCHANGED <<owner, images, reader>>
    BY <1>9 DEF SelectQueuedInstead, evidence
  <2>2. \A e \in Labels \ {d, offer} : disks'[e] = disks[e]
    BY <1>9, <1>d DEF SelectQueuedInstead, Reserve
  <2> QED
    BY <1>0, <2>1, <2>2
<1>10. ASSUME NEW d \in Labels, NEW s \in Stations, Confirm(s, d) PROVE ReaderServesTicket'
  <2>1. /\ Held(d) /\ disks[d].ticket.station = s /\ disks[d].phase = "reserved"
        /\ UNCHANGED <<owner, images>> /\ owner
    BY <1>10 DEF Confirm, HeldBy, Ready, evidence
  <2>2. disks[d].ticket \in Tickets /\ disks[d].ticket.disk = d
    BY <2>1, HeldTicket
  <2>3. /\ disks'[d].phase = "reading" /\ disks'[d].ticket = disks[d].ticket
        /\ \A e \in Labels \ {d} : disks'[e] = disks[e]
    BY <1>10, <1>d DEF Confirm, Disks
  <2>4. /\ reader'[s].ticket = disks[d].ticket /\ reader'[s].pc = "run"
        /\ \A o \in Stations \ {s} : reader'[o] = reader[o]
    BY <1>10, <1>d DEF Confirm, Idle
  <2>5. ServesTicket(s)'
    BY <2>1, <2>2, <2>3, <2>4 DEF ServesTicket
  <2>6. ASSUME NEW o \in Stations \ {s} PROVE ServesTicket(o)'
    <3>1. reader'[o] = reader[o]
      BY <2>4
    <3>2. \A e \in Labels : disks[e].phase = "reading" => disks'[e] = disks[e]
      BY <2>1, <2>3
    <3> QED
      BY <2>1, <3>1, <3>2, BystandersServe
  <2> QED
    BY <2>5, <2>6 DEF ReaderServesTicket, ServesTicket
<1>11. ASSUME NEW s \in Stations, Complete(s) \/ Failed(s) PROVE ReaderServesTicket'
  <2>1. PICK d : d = reader[s].ticket.disk
    OBVIOUS
  <2>2. /\ reader'[s] = Idle /\ UNCHANGED <<owner, images>>
        /\ \A o \in Stations \ {s} : reader'[o] = reader[o]
    BY <1>11, <1>d DEF Complete, Failed, evidence
  <2>3. reader[s].pc # "idle"
    BY <1>11 DEF Complete, Failed
  <2>4. d \in Labels /\ Held(d) /\ disks[d].ticket.station = s
    BY <2>1, <2>3, BusyReader
  <2>5. \A e \in Labels \ {d} : disks'[e] = disks[e]
    <3>1. CASE Complete(s) /\ s = "usb"
      BY <3>1, <2>1, <2>4, <1>d DEF Complete
    <3>2. CASE Complete(s) /\ s = "gw"
      BY <3>2, <2>1, <2>4, <1>d DEF Complete
    <3>3. CASE Failed(s)
      BY <3>3, <2>1, <2>4, <1>d DEF Failed
    <3> QED
      BY <1>11, <3>1, <3>2, <3>3
  <2>6. ServesTicket(s)'
    BY <2>2 DEF ServesTicket, Idle
  <2>7. ASSUME NEW o \in Stations \ {s} PROVE ServesTicket(o)'
    <3>1. reader'[o] = reader[o]
      BY <2>2
    <3>2. \A e \in Labels : Held(e) /\ disks[e].ticket.station = o => disks'[e] = disks[e]
      BY <2>4, <2>5
    <3> QED
      BY <2>2, <3>1, <3>2, BystandersServe
  <2> QED
    BY <2>6, <2>7, SMTT(30) DEF ReaderServesTicket, ServesTicket
<1> QED
  BY <1>2, <1>3, <1>4, <1>5, <1>6, <1>7, <1>8, <1>9, <1>10, <1>11 DEF Operate

\* A step of one reader changes neither the journal nor the other reader.
LEMMA ReaderMoves ==
  ASSUME CoordinatorInv, NEW s \in Stations, reader[s].pc # "idle",
         UNCHANGED <<owner, disks>>,
         \A e \in Labels : Len(images[e]) <= Len(images'[e]) /\ Len(images'[e]) \in Nat,
         \A o \in Stations \ {s} : reader'[o] = reader[o],
         reader'[s].ticket = reader[s].ticket,
         reader'[s].pc = "ok" =>
           reader'[s].attempt \in 1 .. Len(images'[reader[s].ticket.disk])
  PROVE  ReaderServesTicket'
<1>1. ServesTicket(s)'
  <2>1. ServesTicket(s)
    BY ServesEach DEF CoordinatorInv
  <2> QED
    BY <2>1 DEF ServesTicket
<1>2. ASSUME NEW o \in Stations \ {s} PROVE ServesTicket(o)'
  <2>1. reader[o].pc # "idle" => reader[o].ticket.disk \in Labels
    BY BusyReader
  <2> QED
    BY <2>1, KeepsServing
<1> QED
  BY <1>1, <1>2 DEF ReaderServesTicket, ServesTicket

LEMMA AnswerMoves ==
  ASSUME TypeOK, NEW s \in Stations, NEW pc, NEW attempt, NEW error,
         Answer(s, pc, attempt, error)
  PROVE  /\ reader'[s].pc = pc /\ reader'[s].attempt = attempt
         /\ reader'[s].ticket = reader[s].ticket
         /\ \A o \in Stations \ {s} : reader'[o] = reader[o]
  BY DEF Answer, TypeOK, Readers

\* Publishing never removes an image.
LEMMA ImagesGrow ==
  ASSUME CoordinatorInv, NEW d \in Labels, NEW r,
         images' = [images EXCEPT ![d] = Append(@, r)] \/ images' = images
  PROVE  \A e \in Labels : /\ Len(images[e]) \in Nat /\ Len(images'[e]) \in Nat
                           /\ Len(images[e]) <= Len(images'[e])
<1>1. \A e \in Labels : images[e] \in Seq(Receipts) /\ Len(images[e]) \in Nat
  BY DEF CoordinatorInv, TypeOK
<1>2. CASE images' = images
  BY <1>1, <1>2
<1>3. CASE images' = [images EXCEPT ![d] = Append(@, r)]
  <2>1. Len(Append(images[d], r)) = Len(images[d]) + 1
    BY <1>1
  <2>2. /\ images'[d] = Append(images[d], r)
        /\ \A e \in Labels \ {d} : images'[e] = images[e]
    BY <1>3 DEF CoordinatorInv, TypeOK
  <2> QED
    BY <1>1, <2>1, <2>2
<1> QED
  BY <1>2, <1>3

LEMMA ReadReaders == CoordinatorInv /\ (UsbRead \/ GwRead) => ReaderServesTicket'
<1> SUFFICES ASSUME CoordinatorInv, UsbRead \/ GwRead PROVE ReaderServesTicket'
  OBVIOUS
<1>t. TypeOK
  BY DEF CoordinatorInv
<1>n. \A e \in Labels : Len(images[e]) \in Nat
  BY <1>t DEF TypeOK
<1>1. ASSUME NEW s \in Stations, NEW pc, NEW attempt, NEW error,
             Answer(s, pc, attempt, error), reader[s].pc # "idle",
             UNCHANGED <<owner, disks, images>>,
             pc = "ok" => attempt \in 1 .. Len(images[reader[s].ticket.disk])
      PROVE  ReaderServesTicket'
  BY <1>1, <1>t, <1>n, AnswerMoves, ReaderMoves
<1>2. CASE UsbAdopt
  <2>1. reader["usb"].ticket.disk \in Labels
    BY <1>2, BusyReader DEF UsbAdopt, Reading
  <2>2. images[reader["usb"].ticket.disk] \in Seq(Receipts)
    BY <1>t, <2>1 DEF TypeOK
  <2>3. Len(images[reader["usb"].ticket.disk]) # 0
    BY <1>2, <2>2, EmptySeq DEF UsbAdopt
  <2> QED
    BY <1>1, <1>2, <1>n, <2>1, <2>3 DEF UsbAdopt, Reading, journal, evidence
<1>3. ASSUME NEW f \in Floppies, NEW bad \in {"none", "some", "all"}, UsbAcquire(f, bad)
      PROVE  ReaderServesTicket'
  <2>1. PICK d, r : /\ d = reader["usb"].ticket.disk
                    /\ images' = [images EXCEPT ![d] = Append(@, r)]
    BY <1>3 DEF UsbAcquire
  <2>2. d \in Labels
    BY <1>3, <2>1, BusyReader DEF UsbAcquire, Reading
  <2>3. \A e \in Labels : /\ Len(images[e]) \in Nat /\ Len(images'[e]) \in Nat
                          /\ Len(images[e]) <= Len(images'[e])
    BY <2>1, <2>2, ImagesGrow
  <2>4. Len(images'[d]) = Len(images[d]) + 1
    <3>1. images[d] \in Seq(Receipts) /\ images'[d] = Append(images[d], r)
      BY <1>t, <2>1, <2>2, SMTT(30) DEF TypeOK
    <3> QED
      BY <3>1
  <2>5. Answer("usb", "ok", Len(images[d]) + 1, "none")
    BY <1>3, <2>1 DEF UsbAcquire, NextAttempt
  <2>6. /\ reader'["usb"].attempt = Len(images[d]) + 1
        /\ reader'["usb"].ticket = reader["usb"].ticket
        /\ \A o \in Stations \ {"usb"} : reader'[o] = reader[o]
    BY <1>t, <2>5, AnswerMoves
  <2>7. Len(images[d]) + 1 \in 1 .. Len(images'[d])
    BY <2>2, <2>3, <2>4
  <2>8. reader["usb"].pc # "idle" /\ UNCHANGED <<owner, disks>>
    BY <1>3 DEF UsbAcquire, Reading, journal
  <2> QED
    BY <2>1, <2>3, <2>6, <2>7, <2>8, ReaderMoves, SMTT(30)
<1>4. ASSUME NEW s \in Stations, ReadFails(s) PROVE ReaderServesTicket'
  BY <1>1, <1>4, SMTT(30) DEF ReadFails, Reading, journal, evidence
<1>5. CASE GwRefuse \/ GwReject \/ GwFormatException \/ GwAccept
  <2>1. reader["gw"].pc # "idle" /\ UNCHANGED <<owner, disks, images>>
    BY <1>5 DEF GwRefuse, GwReject, GwFormatException, GwAccept, Reading, journal, evidence
  <2> QED
    BY <1>1, <1>5, <2>1 DEF GwRefuse, GwReject, GwFormatException, GwAccept
<1>6. ASSUME NEW f \in Floppies, NEW bad \in {"none", "some", "unformatted"},
             NEW v \in Verdicts, GwCapture(f, bad, v)
      PROVE  ReaderServesTicket'
  <2>1. UNCHANGED <<owner, reader, images, disks>>
    BY <1>6 DEF GwCapture, journal
  <2>2. ASSUME NEW s \in Stations PROVE ServesTicket(s)'
    BY <2>1, BystandersServe
  <2> QED
    BY <2>2 DEF ReaderServesTicket, ServesTicket
<1>7. CASE GwPublish
  <2>1. PICK d, r : /\ d = reader["gw"].ticket.disk
                    /\ images' = [images EXCEPT ![d] = Append(@, r)] \/ images' = images
    BY <1>7, Zenon DEF GwPublish
  <2>2. d \in Labels /\ reader["gw"].pc # "idle"
    BY <1>7, <2>1, BusyReader, Zenon DEF GwPublish
  <2>3. \A e \in Labels : /\ Len(images[e]) \in Nat /\ Len(images'[e]) \in Nat
                          /\ Len(images[e]) <= Len(images'[e])
    BY <2>1, <2>2, ImagesGrow
  <2>4. /\ reader'["gw"].pc = "published"
        /\ reader'["gw"].ticket = reader["gw"].ticket
        /\ \A o \in Stations \ {"gw"} : reader'[o] = reader[o]
    BY <1>7, <1>t, AnswerMoves DEF GwPublish
  <2>5. UNCHANGED <<owner, disks>>
    BY <1>7 DEF GwPublish, journal
  <2> QED
    BY <2>2, <2>3, <2>4, <2>5, ReaderMoves, SMTT(30)
<1>8. CASE GwSeal
  <2>1. reader["gw"].pc # "idle" /\ UNCHANGED <<owner, disks, images>>
    BY <1>8, SMTT(30) DEF GwSeal, journal
  <2>2. job[reader["gw"].ticket.disk].pending \in 1 .. Len(images[reader["gw"].ticket.disk])
    BY <1>8 DEF GwSeal, CoordinatorInv, PublicationBound
  <2> QED
    BY <1>1, <1>8, <2>1, <2>2 DEF GwSeal
<1>9. CASE GwReuse
  <2>1. reader["gw"].pc # "idle" /\ UNCHANGED <<owner, disks, images>>
    BY <1>9 DEF GwReuse, Reading, journal, evidence
  <2>2. reader["gw"].ticket.disk \in Labels
    BY <2>1, BusyReader
  <2>3. job[reader["gw"].ticket.disk].result = "image" =>
          job[reader["gw"].ticket.disk].pending \in 1 .. Len(images[reader["gw"].ticket.disk])
    BY <2>2 DEF CoordinatorInv, PublicationBound
  <2> QED
    BY <1>1, <1>9, <2>1, <2>3 DEF GwReuse
<1> QED
  BY <1>2, <1>3, <1>4, <1>5, <1>6, <1>7, <1>8, <1>9 DEF UsbRead, GwRead

LEMMA RestartReaders == CoordinatorInv /\ Restart => ReaderServesTicket'
<1> SUFFICES ASSUME CoordinatorInv, Restart PROVE ReaderServesTicket'
  OBVIOUS
<1>1. CASE Exit
  BY <1>1 DEF Exit, ReaderServesTicket, Idle
<1>2. CASE ~owner /\ UNCHANGED reader
  BY <1>2 DEF CoordinatorInv, ReaderServesTicket
<1> QED
  BY <1>1, <1>2 DEF Restart, Open, AcquireElsewhere

LEMMA ReadersStep == CoordinatorInv /\ [Next]_vars => ReaderServesTicket'
<1>1. CoordinatorInv /\ UNCHANGED vars => ReaderServesTicket'
  BY DEF CoordinatorInv, ReaderServesTicket, vars, journal, evidence
<1> QED
  BY <1>1, OperateReaders, ReadReaders, RestartReaders DEF Next

-----------------------------------------------------------------------------
(* Publication.  LabelBound is the part of PublicationBound about one label, *)
(* ReaderBound the part about the step the GW reader is in.                  *)

LabelBound(d) ==
  /\ job[d].pending <= Len(images[d]) + 1
  /\ job[d].result = "image" => job[d].pending \in 1 .. Len(images[d])
  /\ job[d].approval # "none" => Has(disks[d].usb)
  /\ \A i \in 1 .. Len(images[d]) :
       images[d][i].confirmed # "none" => /\ Has(disks[d].usb)
                                          /\ images[d][i].station = "gw"

ReaderBound(d) ==
  /\ reader["gw"].pc \in {"accepted", "published"} => Decoded(d)
  /\ reader["gw"].pc = "accepted" => job[d].pending # 0
  /\ reader["gw"].pc = "published" => job[d].pending \in 1 .. Len(images[d])

LEMMA BoundParts ==
  PublicationBound <=> /\ \A d \in Labels : LabelBound(d)
                       /\ ReaderBound(reader["gw"].ticket.disk)
  BY DEF PublicationBound, LabelBound, ReaderBound

\* Nothing about the label changes but its journal entry, which keeps receipts.
LEMMA LabelFrame ==
  ASSUME CoordinatorInv, ReceiptsKept, NEW e \in Labels,
         images'[e] = images[e], job'[e] = job[e]
  PROVE  LabelBound(e)'
<1>1. LabelBound(e)
  BY BoundParts DEF CoordinatorInv
<1>2. Has(disks[e].usb) => Has(disks'[e].usb)
  BY DEF ReceiptsKept, Has
<1> QED
  BY <1>1, <1>2 DEF LabelBound

\* The step of the GW reader, seen from a label that its step leaves alone.
LEMMA ReaderFrame ==
  ASSUME CoordinatorInv,
         \/ reader'["gw"].pc \notin {"accepted", "published"}
         \/ /\ reader'["gw"] = reader["gw"]
            /\ reader["gw"].pc # "idle" => LET d == reader["gw"].ticket.disk IN
                 /\ images'[d] = images[d] /\ job'[d] = job[d]
                 /\ archives'[d] = archives[d]
  PROVE  ReaderBound(reader["gw"].ticket.disk)'
<1>1. CASE reader'["gw"].pc \notin {"accepted", "published"}
  BY <1>1, SMTT(30) DEF ReaderBound
<1>2. CASE reader'["gw"] = reader["gw"] /\ reader["gw"].pc \in {"accepted", "published"}
  <2>1. PICK d : d = reader["gw"].ticket.disk
    OBVIOUS
  <2>2. ReaderBound(d)
    BY <2>1, BoundParts DEF CoordinatorInv
  <2>3. images'[d] = images[d] /\ job'[d] = job[d] /\ archives'[d] = archives[d]
    BY <1>2, <2>1
  <2> QED
    BY <1>2, <2>1, <2>2, <2>3, Zenon DEF ReaderBound, Decoded, Usable, Candidate, Rejected
<1> QED
  BY <1>1, <1>2

LEMMA QuietBound ==
  ASSUME CoordinatorInv, ReceiptsKept, UNCHANGED <<images, job, archives>>,
         reader'["gw"] = reader["gw"] \/ reader'["gw"].pc \notin {"accepted", "published"}
  PROVE  PublicationBound'
<1>1. \A e \in Labels : LabelBound(e)'
  BY LabelFrame
<1>2. ReaderBound(reader["gw"].ticket.disk)'
  BY ReaderFrame
<1> QED
  BY <1>1, <1>2 DEF PublicationBound, LabelBound, ReaderBound

\* An operation on a disputed label: no reader serves it.
LEMMA DisputedBound ==
  ASSUME CoordinatorInv, ReceiptsKept, NEW d \in Labels, disks[d].phase = "interrupted",
         UNCHANGED <<images, reader>>,
         \A e \in Labels \ {d} : job'[e] = job[e] /\ archives'[e] = archives[e],
         LabelBound(d)'
  PROVE  PublicationBound'
<1>1. \A e \in Labels : LabelBound(e)'
  BY LabelFrame
<1>2. ReaderBound(reader["gw"].ticket.disk)'
  <2>1. reader["gw"].pc # "idle" =>
          reader["gw"].ticket.disk \in Labels /\ reader["gw"].ticket.disk # d
    BY BusyReader
  <2> QED
    BY <2>1, ReaderFrame
<1> QED
  BY <1>1, <1>2 DEF PublicationBound, LabelBound, ReaderBound

LEMMA OperateBound == CoordinatorInv /\ ReceiptsKept /\ Operate => PublicationBound'
<1> SUFFICES ASSUME CoordinatorInv, ReceiptsKept, Operate PROVE PublicationBound'
  OBVIOUS
<1>j. /\ job \in [Labels -> Jobs] /\ reader \in [Stations -> Readers]
      /\ archives \in [Labels -> SUBSET [generation : Nat, capture : Nat]]
  BY DEF CoordinatorInv, TypeOK
<1>1. CASE UNCHANGED <<images, job, archives, reader>>
  BY <1>1, QuietBound
<1>2. ASSUME NEW d \in Labels, ReleaseArchive(d) PROVE PublicationBound'
  <2>1. disks[d].phase = "interrupted" /\ UNCHANGED <<images, job, reader>>
    BY <1>2 DEF ReleaseArchive, Disputed
  <2>2. \A e \in Labels \ {d} : archives'[e] = archives[e]
    BY <1>2, <1>j DEF ReleaseArchive
  <2>3. LabelBound(d)'
    BY <2>1, LabelFrame
  <2> QED
    BY <2>1, <2>2, <2>3, DisputedBound
<1>3. ASSUME NEW d \in Labels, ReleaseReset(d) PROVE PublicationBound'
  <2>1. disks[d].phase = "interrupted" /\ UNCHANGED <<disks, images, archives, reader>>
    BY <1>3 DEF ReleaseReset, Disputed, journal
  <2>2. /\ \A e \in Labels \ {d} : job'[e] = job[e]
        /\ job'[d].pending = 0 /\ job'[d].result = "none" /\ job'[d].approval = "none"
    BY <1>3, <1>j DEF ReleaseReset, NoJob
  <2>3. LabelBound(d)'
    <3>1. LabelBound(d) /\ Len(images[d]) \in Nat
      BY BoundParts DEF CoordinatorInv, TypeOK
    <3> QED
      BY <2>1, <2>2, <3>1 DEF LabelBound
  <2> QED
    BY <2>1, <2>2, <2>3, DisputedBound
<1>4. ASSUME NEW d \in Labels, ConfirmSameDisk(d) PROVE PublicationBound'
  <2>1. /\ disks[d].phase = "interrupted" /\ Held(d) /\ disks[d].ticket.work = "recovery"
        /\ UNCHANGED <<disks, images, archives, reader>>
    BY <1>4 DEF ConfirmSameDisk, Disputed, HeldBy, journal
  <2>2. /\ \A e \in Labels \ {d} : job'[e] = job[e]
        /\ job'[d].pending = job[d].pending /\ job'[d].result = job[d].result
    BY <1>4, <1>j DEF ConfirmSameDisk, Jobs
  <2>3. Has(disks[d].usb)
    BY <2>1, ReceiptsFree
  <2>4. LabelBound(d)'
    <3>1. LabelBound(d)
      BY BoundParts DEF CoordinatorInv
    <3> QED
      BY <2>1, <2>2, <2>3, <3>1 DEF LabelBound
  <2> QED
    BY <2>1, <2>2, <2>4, DisputedBound
<1>5. ASSUME NEW d \in Labels, NEW s \in Stations, Confirm(s, d) PROVE PublicationBound'
  <2>1. UNCHANGED <<images, job, archives>>
    BY <1>5 DEF Confirm, evidence
  <2>2. reader'["gw"] = reader["gw"] \/ reader'["gw"].pc = "run"
    BY <1>5, <1>j DEF Confirm, Idle
  <2> QED
    BY <2>1, <2>2, QuietBound
<1>6. ASSUME NEW s \in Stations, Complete(s) \/ Failed(s) PROVE PublicationBound'
  <2>1. UNCHANGED <<images, job, archives>>
    BY <1>6, SMTT(30) DEF Complete, Failed, evidence
  <2>2. reader'["gw"] = reader["gw"] \/ reader'["gw"].pc = "idle"
    BY <1>6, <1>j DEF Complete, Failed, Idle
  <2> QED
    BY <2>1, <2>2, QuietBound, SMTT(30)
<1>7. ASSUME NEW p \in BOOLEAN, SetPaused(p) PROVE PublicationBound'
  BY <1>1, <1>7 DEF SetPaused, evidence
<1>8. ASSUME NEW d \in Labels, ClaimRecovery(d) \/ ReleaseCommit(d) PROVE PublicationBound'
  BY <1>1, <1>8 DEF ClaimRecovery, ReleaseCommit, evidence
<1>9. ASSUME NEW d \in Labels, NEW s \in Stations,
             ClaimRetry(s, d) \/ ClaimFresh(s, d) \/ Removed(s, d)
      PROVE  PublicationBound'
  BY <1>1, <1>9 DEF ClaimRetry, ClaimFresh, Removed, evidence
<1>10. ASSUME NEW d \in Labels, NEW offer \in Labels, SelectQueuedInstead(offer, d)
       PROVE  PublicationBound'
  BY <1>1, <1>10 DEF SelectQueuedInstead, evidence
<1>11. ASSUME ReleaseFails PROVE PublicationBound'
  BY <1>1, <1>11 DEF ReleaseFails, evidence
<1> QED
  BY <1>2, <1>3, <1>4, <1>5, <1>6, <1>7, <1>8, <1>9, <1>10, <1>11 DEF Operate

\* An image joins a label: the bounds of the label survive, given its binding.
LEMMA AppendBound ==
  ASSUME CoordinatorInv, NEW d \in Labels, NEW r, UNCHANGED <<job, disks>>,
         images' = [images EXCEPT ![d] = Append(@, r)],
         r.confirmed # "none" => Has(disks[d].usb) /\ r.station = "gw"
  PROVE  /\ \A e \in Labels : LabelBound(e)'
         /\ Len(images'[d]) = Len(images[d]) + 1
         /\ \A e \in Labels \ {d} : images'[e] = images[e]
<1>1. /\ images'[d] = Append(images[d], r)
      /\ \A e \in Labels \ {d} : images'[e] = images[e]
  BY DEF CoordinatorInv, TypeOK
<1>2. images[d] \in Seq(Receipts) /\ job[d].pending \in Nat /\ Len(images[d]) \in Nat
  BY DEF CoordinatorInv, TypeOK, Jobs
<1>3. /\ Len(images'[d]) = Len(images[d]) + 1
      /\ \A i \in 1 .. Len(images[d]) : images'[d][i] = images[d][i]
      /\ images'[d][Len(images[d]) + 1] = r
  BY <1>1, <1>2
<1>4. \A e \in Labels : LabelBound(e)
  BY BoundParts DEF CoordinatorInv
<1>5. \A e \in Labels \ {d} : LabelBound(e)'
  BY <1>1, <1>4 DEF LabelBound
<1>6. LabelBound(d)'
  <2>1. /\ job'[d].pending <= Len(images'[d]) + 1
        /\ job'[d].result = "image" => job'[d].pending \in 1 .. Len(images'[d])
        /\ job'[d].approval # "none" => Has(disks'[d].usb)
    BY <1>2, <1>3, <1>4 DEF LabelBound
  <2>2. ASSUME NEW i \in 1 .. Len(images'[d]), images'[d][i].confirmed # "none"
        PROVE  Has(disks'[d].usb) /\ images'[d][i].station = "gw"
    <3>1. CASE i = Len(images[d]) + 1
      BY <1>3, <2>2, <3>1
    <3>2. CASE i # Len(images[d]) + 1
      <4>1. i \in 1 .. Len(images[d])
        BY <1>2, <1>3, <3>2
      <4> QED
        BY <1>3, <1>4, <2>2, <4>1 DEF LabelBound
    <3> QED
      BY <3>1, <3>2
  <2> QED
    BY <2>1, <2>2 DEF LabelBound
<1> QED
  BY <1>1, <1>3, <1>5, <1>6

\* The GW reader changes its own job and no image.
LEMMA JobBound ==
  ASSUME CoordinatorInv, ReceiptsKept, UNCHANGED images,
         NEW d \in Labels, \A e \in Labels \ {d} : job'[e] = job[e],
         LabelBound(d)', ReaderBound(reader["gw"].ticket.disk)'
  PROVE  PublicationBound'
<1>1. \A e \in Labels : LabelBound(e)'
  BY LabelFrame
<1> QED
  BY <1>1 DEF PublicationBound, LabelBound, ReaderBound

LEMMA UsbBound == CoordinatorInv /\ ReceiptsKept /\ UsbRead => PublicationBound'
<1> SUFFICES ASSUME CoordinatorInv, ReceiptsKept, UsbRead PROVE PublicationBound'
  OBVIOUS
<1>t. TypeOK
  BY DEF CoordinatorInv
<1>1. CASE UsbAdopt \/ ReadFails("usb")
  <2>1. UNCHANGED <<images, job, archives>>
    BY <1>1 DEF UsbAdopt, ReadFails, evidence
  <2>2. reader'["gw"] = reader["gw"]
    BY <1>1, <1>t, AnswerMoves DEF UsbAdopt, ReadFails
  <2> QED
    BY <2>1, <2>2, QuietBound
<1>2. ASSUME NEW f \in Floppies, NEW bad \in {"none", "some", "all"}, UsbAcquire(f, bad)
      PROVE  PublicationBound'
  <2>0. PICK d, r :
          /\ d = reader["usb"].ticket.disk
          /\ images' = [images EXCEPT ![d] = Append(@, r)]
          /\ r = [station |-> "usb", attempt |-> NextAttempt(d), floppy |-> f, bad |-> bad,
                  verdict |-> "none", confirmed |-> "none", capture |-> 0]
    BY <1>2 DEF UsbAcquire
  <2>1. /\ d = reader["usb"].ticket.disk /\ r.confirmed = "none"
        /\ images' = [images EXCEPT ![d] = Append(@, r)]
    BY <2>0
  <2>2. d \in Labels /\ disks[d].ticket.station = "usb" /\ reader["usb"].pc # "idle"
    BY <1>2, <2>1, BusyReader DEF UsbAcquire, Reading
  <2>3. UNCHANGED <<job, archives, disks>>
    BY <1>2 DEF UsbAcquire, journal
  <2>4. /\ \A e \in Labels : LabelBound(e)'
        /\ \A e \in Labels \ {d} : images'[e] = images[e]
    BY <2>1, <2>2, <2>3, AppendBound
  <2>5. reader'["gw"] = reader["gw"]
    BY <1>2, <1>t, AnswerMoves DEF UsbAcquire
  <2>6. reader["gw"].pc # "idle" =>
          reader["gw"].ticket.disk \in Labels /\ reader["gw"].ticket.disk # d
    BY <2>2, BusyReader
  <2>7. ReaderBound(reader["gw"].ticket.disk)'
    BY <2>3, <2>4, <2>5, <2>6, ReaderFrame
  <2> QED
    BY <2>4, <2>7 DEF PublicationBound, LabelBound, ReaderBound
<1> QED
  BY <1>1, <1>2 DEF UsbRead

LEMMA GwBound == CoordinatorInv /\ ReceiptsKept /\ GwRead => PublicationBound'
<1> SUFFICES ASSUME CoordinatorInv, ReceiptsKept, GwRead PROVE PublicationBound'
  OBVIOUS
<1>t. TypeOK
  BY DEF CoordinatorInv
<1>0. PICK d : d = reader["gw"].ticket.disk
  BY SMTT(30)
<1>1. d \in Labels /\ reader["gw"].pc # "idle"
  BY <1>0, BusyReader, Zenon DEF GwRead, GwRefuse, GwFormatException, GwReject, GwAccept, GwPublish,
     GwSeal, GwReuse, GwCapture, ReadFails, Reading
<1>2. /\ job \in [Labels -> Jobs] /\ job[d] \in Jobs /\ job[d].pending \in Nat
      /\ images[d] \in Seq(Receipts) /\ Len(images[d]) \in Nat
  BY <1>1, <1>t DEF TypeOK, Jobs
<1>3. LabelBound(d) /\ ReaderBound(d)
  BY <1>0, <1>1, BoundParts DEF CoordinatorInv
<1>4. CASE GwRefuse \/ GwReject \/ GwReuse \/ ReadFails("gw")
  <2>1. UNCHANGED <<images, job, archives>>
    BY <1>4 DEF GwRefuse, GwReject, GwReuse, ReadFails, evidence
  <2>2. reader'["gw"].pc \notin {"accepted", "published"}
    BY <1>4, <1>t, AnswerMoves DEF GwRefuse, GwReject, GwReuse, ReadFails
  <2> QED
    BY <2>1, <2>2, QuietBound
<1>5. ASSUME NEW f \in Floppies, NEW bad \in {"none", "some", "unformatted"},
             NEW v \in Verdicts, GwCapture(f, bad, v)
      PROVE  PublicationBound'
  <2>1. UNCHANGED <<images, disks, reader>> /\ reader["gw"].pc = "run"
    BY <1>5, SMTT(30) DEF GwCapture, Reading, journal
  <2>2. /\ \A e \in Labels \ {d} : job'[e] = job[e]
        /\ job'[d].pending = job[d].pending /\ job'[d].result = job[d].result
        /\ job'[d].approval = job[d].approval
    BY <1>0, <1>1, <1>2, <1>5 DEF GwCapture, Jobs
  <2>3. LabelBound(d)'
    BY <1>3, <2>1, <2>2 DEF LabelBound
  <2>4. ReaderBound(reader["gw"].ticket.disk)'
    BY <2>1 DEF ReaderBound
  <2> QED
    BY <1>1, <2>1, <2>2, <2>3, <2>4, JobBound
<1>6. CASE GwFormatException \/ GwSeal
  <2>1. UNCHANGED <<images, disks>>
    BY <1>6 DEF GwFormatException, GwSeal, journal
  <2>2. reader'["gw"].pc \notin {"accepted", "published"}
    BY <1>6, <1>t, AnswerMoves DEF GwFormatException, GwSeal
  <2>3. /\ \A e \in Labels \ {d} : job'[e] = job[e]
        /\ job'[d].pending = job[d].pending /\ job'[d].approval = job[d].approval
        /\ job'[d].result = "image" => GwSeal
    <3>1. CASE GwFormatException
      BY <1>0, <1>1, <1>2, <3>1, SMTT(30) DEF GwFormatException, Jobs
    <3>2. CASE GwSeal
      BY <1>0, <1>1, <1>2, <3>2 DEF GwSeal, Jobs
    <3> QED
      BY <1>6, <3>1, <3>2
  <2>4. GwSeal => job[d].pending \in 1 .. Len(images[d])
    BY <1>3 DEF GwSeal, ReaderBound
  <2>5. LabelBound(d)'
    BY <1>3, <2>1, <2>3, <2>4 DEF LabelBound
  <2>6. ReaderBound(reader["gw"].ticket.disk)'
    BY <2>2 DEF ReaderBound
  <2> QED
    BY <1>1, <2>1, <2>3, <2>5, <2>6, JobBound
<1>7. CASE GwAccept
  <2>1. UNCHANGED <<images, disks, archives>>
    BY <1>7 DEF GwAccept, journal
  <2>2. reader'["gw"].pc = "accepted" /\ reader'["gw"].ticket = reader["gw"].ticket
    BY <1>7, <1>t, AnswerMoves, SMTT(30) DEF GwAccept
  <2>3. /\ \A e \in Labels \ {d} : job'[e] = job[e]
        /\ job'[d] = [job[d] EXCEPT !.pending = IF @ = 0 THEN NextAttempt(d) ELSE @]
        /\ job[d].result = "none"
    BY <1>0, <1>1, <1>2, <1>7 DEF GwAccept
  <2>4. /\ job'[d].pending \in Nat \ {0} /\ job'[d].pending <= Len(images[d]) + 1
        /\ job'[d].result = "none" /\ job'[d].approval = job[d].approval
        /\ job'[d].candidate = job[d].candidate
    BY <1>2, <1>3, <2>3 DEF Jobs, NextAttempt, LabelBound
  <2>5. LabelBound(d)'
    BY <1>3, <2>1, <2>4 DEF LabelBound
  <2>6. Decoded(d)'
    <3>1. Decoded(d)
      BY <1>0, <1>7 DEF GwAccept
    <3> QED
      BY <2>1, <2>4, <3>1 DEF Decoded, Usable, Candidate, Rejected
  <2>7. ReaderBound(d)'
    BY <2>2, <2>4, <2>6 DEF ReaderBound
  <2>8. ReaderBound(reader["gw"].ticket.disk)'
    BY <1>0, <2>2, <2>7 DEF ReaderBound
  <2> QED
    BY <1>1, <2>1, <2>3, <2>5, <2>8, JobBound
<1>8. CASE GwPublish
  <2>1. UNCHANGED <<disks, job, archives>> /\ reader["gw"].pc = "accepted"
    BY <1>8 DEF GwPublish, journal
  <2>2. reader'["gw"].pc = "published" /\ reader'["gw"].ticket = reader["gw"].ticket
    BY <1>8, <1>t, AnswerMoves DEF GwPublish
  <2>3. Decoded(d) /\ job[d].pending # 0
    BY <1>3, <2>1 DEF ReaderBound
  <2>4. Decoded(d)'
    BY <2>1, <2>3 DEF Decoded, Usable, Candidate, Rejected
  <2>5. (\A e \in Labels : LabelBound(e)') /\ job[d].pending \in 1 .. Len(images'[d])
    <3>1. CASE job[d].pending <= Len(images[d])
      <4>1. images' = images
        BY <1>0, <1>8, <3>1 DEF GwPublish
      <4>2. \A e \in Labels : LabelBound(e)'
        BY <2>1, <4>1, LabelFrame
      <4>3. job[d].pending \in 1 .. Len(images[d])
        BY <1>2, <2>3, <3>1
      <4> QED
        BY <4>1, <4>2, <4>3
    <3>2. CASE ~(job[d].pending <= Len(images[d]))
      <4>0. PICK r :
              /\ images' = [images EXCEPT ![d] = Append(@, r)]
              /\ r = [station |-> "gw", attempt |-> job[d].pending,
                      floppy |-> Candidate(d).floppy, bad |-> Candidate(d).bad,
                      verdict |-> Candidate(d).verdict, confirmed |-> job[d].approval,
                      capture |-> Candidate(d).id]
        BY <1>0, <1>8, <3>2, Zenon DEF GwPublish
      <4>1. /\ images' = [images EXCEPT ![d] = Append(@, r)]
            /\ r.confirmed = job[d].approval /\ r.station = "gw"
        BY <4>0
      <4>2. r.confirmed # "none" => Has(disks[d].usb) /\ r.station = "gw"
        BY <1>3, <4>1 DEF LabelBound
      <4>3. (\A e \in Labels : LabelBound(e)') /\ Len(images'[d]) = Len(images[d]) + 1
        BY <1>1, <2>1, <4>1, <4>2, AppendBound
      <4>4. job[d].pending <= Len(images[d]) + 1
        BY <1>3 DEF LabelBound
      <4> QED
        BY <1>2, <2>3, <4>3, <4>4, SMTT(30)
    <3> QED
      BY <3>1, <3>2
  <2>6. ReaderBound(reader["gw"].ticket.disk)'
    BY <1>0, <2>1, <2>2, <2>4, <2>5 DEF ReaderBound
  <2> QED
    BY <2>5, <2>6 DEF PublicationBound, LabelBound, ReaderBound
<1> QED
  BY <1>4, <1>5, <1>6, <1>7, <1>8 DEF GwRead

LEMMA RestartBound == CoordinatorInv /\ ReceiptsKept /\ Restart => PublicationBound'
<1> SUFFICES ASSUME CoordinatorInv, ReceiptsKept, Restart PROVE PublicationBound'
  OBVIOUS
<1>1. CASE Open
  BY <1>1, QuietBound DEF Open, evidence
<1>2. CASE Exit
  <2>1. UNCHANGED <<images, job, archives>> /\ reader'["gw"].pc = "idle"
    BY <1>2 DEF Exit, evidence, Idle
  <2> QED
    BY <2>1, QuietBound
<1>3. ASSUME NEW d \in Labels, NEW f \in Floppies, AcquireElsewhere(d, f)
      PROVE  PublicationBound'
  <2>0. PICK r :
          /\ images' = [images EXCEPT ![d] = Append(@, r)]
          /\ r = [station |-> "usb", attempt |-> 1, floppy |-> f, bad |-> "none",
                  verdict |-> "none", confirmed |-> "none", capture |-> 0]
    BY <1>3 DEF AcquireElsewhere
  <2>1. images' = [images EXCEPT ![d] = Append(@, r)] /\ r.confirmed = "none"
    BY <2>0
  <2>2. UNCHANGED <<job, archives, disks, reader>> /\ reader["gw"].pc = "idle"
    BY <1>3 DEF AcquireElsewhere, journal, CoordinatorInv, ReaderServesTicket
  <2>3. \A e \in Labels : LabelBound(e)'
    BY <2>1, <2>2, AppendBound
  <2>4. ReaderBound(reader["gw"].ticket.disk)'
    BY <2>2 DEF ReaderBound
  <2> QED
    BY <2>3, <2>4 DEF PublicationBound, LabelBound, ReaderBound
<1> QED
  BY <1>1, <1>2, <1>3 DEF Restart

LEMMA BoundStep == CoordinatorInv /\ [Next]_vars => PublicationBound'
<1> SUFFICES ASSUME CoordinatorInv, [Next]_vars PROVE PublicationBound'
  OBVIOUS
<1>1. ReceiptsKept
  BY ReceiptsStep
<1>2. CASE UNCHANGED vars
  BY <1>1, <1>2, QuietBound DEF vars, evidence
<1> QED
  BY <1>1, <1>2, OperateBound, UsbBound, GwBound, RestartBound DEF Next

-----------------------------------------------------------------------------
LEMMA InitInv == Init => CoordinatorInv
<1> SUFFICES ASSUME Init PROVE CoordinatorInv
  OBVIOUS
<1>1. TypeOK
  <2>1. AbsentDisk \in Disks
    BY DEF AbsentDisk, Disks, Phases, Errors
  <2>2. NoJob \in Jobs
    BY DEF NoJob, Jobs
  <2>3. Idle \in Readers
    BY DEF Idle, Readers, Errors
  <2>4. images \in [Labels -> Seq(Receipts)]
    BY EmptySeq DEF Init
  <2>5. archives \in [Labels -> SUBSET [generation : Nat, capture : Nat]]
    BY DEF Init
  <2> QED
    BY <2>1, <2>2, <2>3, <2>4, <2>5 DEF Init, TypeOK
<1>2. JournalValid
  <2>1. ASSUME NEW d \in Labels PROVE LabelValid(d) /\ ~Held(d)
    <3>1. disks[d] = AbsentDisk
      BY DEF Init
    <3>2. ~Held(d) /\ disks[d].ticket = NoTicket
      BY <3>1 DEF Held, AbsentDisk
    <3>3. ReceiptsValid(d)
      BY <3>1 DEF ReceiptsValid, AbsentDisk, NoReceipt, Has
    <3>4. disks[d].phase = Expected(disks[d])
      BY <3>1 DEF AbsentDisk, Expected, NoReceipt, Has
    <3> QED
      BY <3>2, <3>3, <3>4 DEF LabelValid
  <2> QED
    BY <2>1 DEF JournalValid
<1>3. ReaderServesTicket
  BY DEF Init, ReaderServesTicket, Idle
<1>4. PublicationBound
  BY DEF Init, PublicationBound, NoJob, Idle
<1> QED
  BY <1>1, <1>2, <1>3, <1>4 DEF CoordinatorInv

\* The strengthening of JournalValid that every step preserves: types, the journal,
\* busy readers holding their station's ticket, publication slots and approvals.
THEOREM CoordinatorInvariant == Spec => []CoordinatorInv
<1>1. CoordinatorInv /\ [Next]_vars => CoordinatorInv'
  BY NextType, JournalStep, ReadersStep, BoundStep DEF CoordinatorInv
<1> QED
  BY InitInv, <1>1, PTL DEF Spec

\* Every state is typed: no claim, answer or restart builds an ill-formed entry.
THEOREM TypeCorrect == Spec => []TypeOK
<1>1. CoordinatorInv => TypeOK
  BY DEF CoordinatorInv
<1> QED
  BY <1>1, CoordinatorInvariant, PTL

\* validate() accepts the journal of every reachable state, so commit() never
\* refuses what an operation built, for every label range.
THEOREM JournalAlwaysValid == Spec => []JournalValid
<1>1. CoordinatorInv => JournalValid
  BY DEF CoordinatorInv
<1> QED
  BY <1>1, CoordinatorInvariant, PTL

\* A running reader serves the ticket of its station, so its answer is never
\* stale when complete() or failed() takes it.
THEOREM ReadersServeTheirTickets == Spec => []ReaderServesTicket
<1>1. CoordinatorInv => ReaderServesTicket
  BY DEF CoordinatorInv
<1> QED
  BY <1>1, CoordinatorInvariant, PTL

\* No step, restart or release drops or replaces a sealed receipt.
THEOREM ReceiptsArePermanent == Spec => ReceiptsPermanent
<1>1. CoordinatorInv /\ [Next]_vars => [ReceiptsKept]_vars
  BY ReceiptsStep
<1> QED
  BY <1>1, CoordinatorInvariant, PTL DEF Spec, ReceiptsPermanent
-----------------------------------------------------------------------------
(* The published evidence.  LabelEvidence is the part of the invariant about *)
(* the images, the recovery job and the rejection archives of one label.     *)

\* A comparison that found agreement, or few differences, was with the same floppy.
SameFloppy(d, c) == c.verdict \in {"agree", "minor"} => Has(disks[d].usb) /\ c.floppy = disks[d].usb.floppy

\* A published image of the GW is from a capture no archive rejects.
GwEvidence(d, r) ==
  r.station = "gw" =>
    /\ r.capture \notin Rejected(d)
    /\ SameFloppy(d, r)
    /\ r.confirmed = "conflicts" => r.verdict = "minor"

LabelEvidence(d) ==
  /\ \A i, j \in 1 .. Len(images[d]) : i # j => images[d][i].station # images[d][j].station
  /\ HasGwImage(d) => job[d].pending \in 1 .. Len(images[d])
  /\ SameFloppy(d, job[d].candidate)
  /\ job[d].approval # "none" => job[d].candidate # NoCapture
  /\ job[d].approval = "conflicts" => job[d].candidate.verdict = "minor"
  /\ \A i \in 1 .. Len(images[d]) : GwEvidence(d, images[d][i])

EvidenceKept == \A d \in Labels : LabelEvidence(d)

\* No label counts as fresh while an acquisition of it is on disk, and the first USB
\* read of a ticket finds none.
FreshKept ==
  /\ owner => \A d \in Labels : images[d] # <<>> => d \in occupied \/ disks[d].phase # "absent"
  /\ \A d \in Labels :
       disks[d].phase = "reserved" /\ disks[d].ticket.station = "usb" /\ ~disks[d].ticket.retry =>
         images[d] = <<>>
  /\ reader["usb"].pc = "run" /\ ~reader["usb"].ticket.retry => images[reader["usb"].ticket.disk] = <<>>

\* A release in progress is of the one disputed label, which has no GW image.
ReleaseKept ==
  releasing # "none" => owner /\ \E d \in Labels : Disputed(d) /\ ~HasGwImage(d)

EvidenceInv == EvidenceKept /\ FreshKept /\ ReleaseKept /\ MixedIdentityFlagged

\* Nothing about the label changes but its journal entry, which keeps receipts.
LEMMA EvidenceFrame ==
  ASSUME ReceiptsKept, NEW d \in Labels, LabelEvidence(d),
         images'[d] = images[d], job'[d] = job[d], archives'[d] = archives[d]
  PROVE  LabelEvidence(d)'
<1>1. Has(disks[d].usb) => Has(disks'[d].usb) /\ disks'[d].usb = disks[d].usb
  BY DEF ReceiptsKept, Has
<1>2. SameFloppy(d, job[d].candidate)'
  BY <1>1 DEF LabelEvidence, SameFloppy
<1>3. ASSUME NEW i \in 1 .. Len(images[d]) PROVE GwEvidence(d, images[d][i])'
  BY <1>1 DEF LabelEvidence, GwEvidence, SameFloppy, Rejected
<1> QED
  BY <1>2, <1>3 DEF LabelEvidence, HasGwImage

\* An image joins a label that has none of its station.
LEMMA EvidenceAppend ==
  ASSUME CoordinatorInv, ReceiptsKept, EvidenceKept, NEW d \in Labels, NEW r, UNCHANGED <<job, archives>>,
         images' = [images EXCEPT ![d] = Append(@, r)],
         \A i \in 1 .. Len(images[d]) : images[d][i].station # r.station,
         GwEvidence(d, r)', (r.station = "gw" => job[d].pending = Len(images[d]) + 1)
  PROVE  EvidenceKept'
<1>1. /\ images'[d] = Append(images[d], r)
      /\ \A e \in Labels \ {d} : images'[e] = images[e]
  BY DEF CoordinatorInv, TypeOK
<1>2. images[d] \in Seq(Receipts) /\ Len(images[d]) \in Nat
  BY DEF CoordinatorInv, TypeOK
<1>3. /\ Len(images'[d]) = Len(images[d]) + 1
      /\ \A i \in 1 .. Len(images[d]) : images'[d][i] = images[d][i]
      /\ images'[d][Len(images[d]) + 1] = r
  BY <1>1, <1>2
<1>4. ASSUME NEW e \in Labels \ {d} PROVE LabelEvidence(e)'
  BY <1>1, EvidenceFrame DEF EvidenceKept
<1>5. LabelEvidence(d)'
  <2> USE DEF LabelEvidence
  <2>0. LabelEvidence(d)
    BY DEF EvidenceKept
  <2>1. Has(disks[d].usb) => Has(disks'[d].usb) /\ disks'[d].usb = disks[d].usb
    BY DEF ReceiptsKept, Has
  <2>2. \A i \in 1 .. Len(images'[d]) : i \in 1 .. Len(images[d]) \/ i = Len(images[d]) + 1
    BY <1>2, <1>3
  <2>3. \A i, j \in 1 .. Len(images'[d]) : i # j => images'[d][i].station # images'[d][j].station
    BY <1>3, <2>0, <2>2
  <2>4. HasGwImage(d)' => job'[d].pending \in 1 .. Len(images'[d])
    <3>1. CASE HasGwImage(d)
      BY <1>2, <1>3, <2>0, <3>1
    <3>2. CASE ~HasGwImage(d)
      <4>1. HasGwImage(d)' => r.station = "gw"
        BY <1>3, <2>2, <3>2 DEF HasGwImage
      <4> QED
        BY <1>2, <1>3, <4>1
    <3> QED
      BY <3>1, <3>2
  <2>5. SameFloppy(d, job[d].candidate)'
    BY <2>0, <2>1 DEF SameFloppy
  <2>6. ASSUME NEW i \in 1 .. Len(images'[d]) PROVE GwEvidence(d, images[d][i])'
    <3>1. CASE i = Len(images[d]) + 1
      BY <1>3, <3>1
    <3>2. CASE i \in 1 .. Len(images[d])
      <4>1. GwEvidence(d, images[d][i]) /\ images'[d][i] = images[d][i]
        BY <1>3, <2>0, <3>2
      <4> QED
        BY <2>1, <4>1 DEF GwEvidence, SameFloppy, Rejected
    <3> QED
      BY <2>2, <3>1, <3>2
  <2> QED
    BY <2>0, <2>3, <2>4, <2>5, <2>6
<1> QED
  BY <1>4, <1>5 DEF EvidenceKept

LEMMA EvidenceStays ==
  ASSUME ReceiptsKept, EvidenceKept, UNCHANGED <<images, job, archives>>
  PROVE  EvidenceKept'
BY EvidenceFrame DEF EvidenceKept

\* Only the job of one label, or its archives, change.
LEMMA EvidenceJob ==
  ASSUME ReceiptsKept, EvidenceKept, NEW d \in Labels, UNCHANGED images,
         \A e \in Labels \ {d} : job'[e] = job[e] /\ archives'[e] = archives[e],
         LabelEvidence(d)'
  PROVE  EvidenceKept'
BY EvidenceFrame DEF EvidenceKept

\* The two labels that a release can be about are one.
LEMMA OneDisputed ==
  ASSUME CoordinatorInv, NEW d \in Labels, NEW e \in Labels, Disputed(d), Disputed(e)
  PROVE  d = e
BY DEF CoordinatorInv, JournalValid, Disputed, HeldBy, Apart

LEMMA EvidenceOperate ==
  ASSUME CoordinatorInv, ReceiptsKept, EvidenceKept, ReleaseKept, Operate
  PROVE  EvidenceKept'
<1>j. /\ job \in [Labels -> Jobs]
      /\ archives \in [Labels -> SUBSET [generation : Nat, capture : Nat]]
  BY DEF CoordinatorInv, TypeOK
<1>1. CASE UNCHANGED <<images, job, archives>>
  BY <1>1, EvidenceStays
<1>2. ASSUME NEW d \in Labels, ReleaseArchive(d) PROVE EvidenceKept'
  <2>1. UNCHANGED <<images, job>> /\ ~HasGwImage(d)
    BY <1>2 DEF ReleaseArchive
  <2>2. \A e \in Labels \ {d} : archives'[e] = archives[e]
    BY <1>2, <1>j DEF ReleaseArchive
  <2>3. Has(disks[d].usb) => Has(disks'[d].usb) /\ disks'[d].usb = disks[d].usb
    BY DEF ReceiptsKept, Has
  <2>4. LabelEvidence(d)'
    BY <2>1, <2>3 DEF EvidenceKept, LabelEvidence, SameFloppy, GwEvidence, HasGwImage
  <2> QED
    BY <2>1, <2>2, <2>4, EvidenceJob
<1>3. ASSUME NEW d \in Labels, ReleaseReset(d) PROVE EvidenceKept'
  <2>1. UNCHANGED <<images, archives>> /\ Disputed(d) /\ releasing # "none"
    BY <1>3 DEF ReleaseReset
  <2>2. ~HasGwImage(d)
    BY <2>1, OneDisputed DEF ReleaseKept
  <2>3. /\ \A e \in Labels \ {d} : job'[e] = job[e]
        /\ job'[d].approval = "none" /\ job'[d].candidate.verdict = "none"
    BY <1>3, <1>j DEF ReleaseReset, NoJob, NoCapture
  <2>4. LabelEvidence(d)'
    BY <2>1, <2>2, <2>3, SMTT(30) DEF EvidenceKept, LabelEvidence, SameFloppy, GwEvidence, HasGwImage
  <2> QED
    BY <2>1, <2>3, <2>4, EvidenceJob
<1>4. ASSUME NEW d \in Labels, ConfirmSameDisk(d) PROVE EvidenceKept'
  <2>1. UNCHANGED <<disks, images, archives>>
    BY <1>4 DEF ConfirmSameDisk, journal
  <2>2. PICK kind \in {"custody", "conflicts"} :
          /\ job' = [job EXCEPT ![d].approval = kind] /\ job[d].candidate # NoCapture
          /\ kind = "conflicts" => job[d].candidate.verdict = "minor"
    BY <1>4 DEF ConfirmSameDisk
  <2>3. /\ \A e \in Labels \ {d} : job'[e] = job[e]
        /\ job'[d].approval = kind /\ job'[d].candidate = job[d].candidate /\ job'[d].pending = job[d].pending
    BY <2>2, <1>j DEF Jobs
  <2>4. LabelEvidence(d)'
    BY <2>1, <2>2, <2>3 DEF EvidenceKept, LabelEvidence, SameFloppy, GwEvidence, HasGwImage, Rejected
  <2> QED
    BY <2>1, <2>3, <2>4, EvidenceJob
<1>5. ASSUME NEW d \in Labels, NEW s \in Stations,
             ClaimRetry(s, d) \/ ClaimFresh(s, d) \/ Confirm(s, d) \/ Removed(s, d)
      PROVE  EvidenceKept'
  BY <1>1, <1>5 DEF ClaimRetry, ClaimFresh, Confirm, Removed, evidence
<1>6. ASSUME NEW d \in Labels, NEW offer \in Labels, SelectQueuedInstead(offer, d) PROVE EvidenceKept'
  BY <1>1, <1>6 DEF SelectQueuedInstead, evidence
<1>7. ASSUME NEW s \in Stations, Complete(s) \/ Failed(s) PROVE EvidenceKept'
  BY <1>1, <1>7 DEF Complete, Failed, evidence
<1>8. ASSUME NEW d \in Labels, ClaimRecovery(d) \/ ReleaseCommit(d) PROVE EvidenceKept'
  BY <1>1, <1>8 DEF ClaimRecovery, ReleaseCommit, evidence
<1>9. CASE ReleaseFails \/ \E p \in BOOLEAN : SetPaused(p)
  BY <1>1, <1>9 DEF ReleaseFails, SetPaused, evidence
<1> QED
  BY <1>2, <1>3, <1>4, <1>5, <1>6, <1>7, <1>8, <1>9 DEF Operate
LEMMA EvidenceUsb ==
  ASSUME CoordinatorInv, ReceiptsKept, EvidenceKept, FreshKept, UsbRead
  PROVE  EvidenceKept'
<1>1. CASE UsbAdopt \/ ReadFails("usb")
  BY <1>1, EvidenceStays DEF UsbAdopt, ReadFails, evidence
<1>2. ASSUME NEW f \in Floppies, NEW bad \in {"none", "some", "all"}, UsbAcquire(f, bad)
      PROVE  EvidenceKept'
  <2>0. PICK d, r :
          /\ d = reader["usb"].ticket.disk
          /\ images' = [images EXCEPT ![d] = Append(@, r)]
          /\ r = [station |-> "usb", attempt |-> NextAttempt(d), floppy |-> f, bad |-> bad,
                  verdict |-> "none", confirmed |-> "none", capture |-> 0]
    BY <1>2 DEF UsbAcquire
  <2>1. images' = [images EXCEPT ![d] = Append(@, r)] /\ r.station = "usb"
    BY <2>0
  <2>2. d \in Labels /\ UNCHANGED <<job, archives>>
    BY <1>2, <2>0, BusyReader DEF UsbAcquire, Reading
  <2>3. images[d] = <<>>
    BY <1>2, <2>0 DEF UsbAcquire, Reading, FreshKept
  <2>4. \A i \in 1 .. Len(images[d]) : images[d][i].station # r.station
    BY <2>3
  <2>5. GwEvidence(d, r)'
    BY <2>1 DEF GwEvidence
  <2> QED
    BY <2>1, <2>2, <2>4, <2>5, EvidenceAppend
<1> QED
  BY <1>1, <1>2 DEF UsbRead

LEMMA EvidenceGw ==
  ASSUME CoordinatorInv, ReceiptsKept, EvidenceKept, GwRead
  PROVE  EvidenceKept'
<1>0. PICK d : d = reader["gw"].ticket.disk
  BY SMTT(30)
<1>1. d \in Labels /\ reader["gw"].pc # "idle" /\ UNCHANGED <<disks, archives>>
  BY <1>0, BusyReader, Zenon DEF GwRead, GwRefuse, GwFormatException, GwReject, GwAccept, GwPublish,
     GwSeal, GwReuse, GwCapture, ReadFails, Reading, journal, evidence
<1>2. /\ job \in [Labels -> Jobs] /\ job[d] \in Jobs /\ job[d].pending \in Nat
      /\ images[d] \in Seq(Receipts) /\ Len(images[d]) \in Nat
  BY <1>1 DEF CoordinatorInv, TypeOK, Jobs
<1>3. LabelBound(d) /\ ReaderBound(d) /\ LabelEvidence(d)
  BY <1>0, <1>1, BoundParts DEF CoordinatorInv, EvidenceKept
<1>4. CASE GwRefuse \/ GwReject \/ GwReuse \/ ReadFails("gw")
  BY <1>4, EvidenceStays DEF GwRefuse, GwReject, GwReuse, ReadFails, evidence
<1>5. ASSUME NEW f \in Floppies, NEW bad \in {"none", "some", "unformatted"},
             NEW v \in Verdicts, GwCapture(f, bad, v)
      PROVE  EvidenceKept'
  <2>1. UNCHANGED images /\ job[d].candidate = NoCapture
    BY <1>0, <1>5, SMTT(30) DEF GwCapture, Candidate
  <2>2. /\ \A e \in Labels \ {d} : job'[e] = job[e]
        /\ job'[d].pending = job[d].pending /\ job'[d].approval = job[d].approval
        /\ job'[d].candidate.verdict = v /\ job'[d].candidate.floppy = f
    BY <1>0, <1>1, <1>2, <1>5 DEF GwCapture, Jobs
  <2>3. v \in {"agree", "minor"} => Has(disks[d].usb) /\ f = disks[d].usb.floppy
    BY <1>0, <1>5 DEF GwCapture, Comparisons
  <2>4. LabelEvidence(d)'
    BY <1>1, <1>3, <2>1, <2>2, <2>3 DEF LabelEvidence, SameFloppy, GwEvidence, HasGwImage, Rejected
  <2> QED
    BY <1>1, <2>1, <2>2, <2>4, EvidenceJob
<1>6. CASE GwFormatException \/ GwSeal
  <2>1. UNCHANGED images
    BY <1>6, SMTT(30) DEF GwFormatException, GwSeal
  <2>2. /\ \A e \in Labels \ {d} : job'[e] = job[e]
        /\ job'[d].pending = job[d].pending /\ job'[d].approval = job[d].approval
        /\ job'[d].candidate = job[d].candidate
    BY <1>0, <1>1, <1>2, <1>6 DEF GwFormatException, GwSeal, Jobs
  <2>3. LabelEvidence(d)'
    BY <1>1, <1>3, <2>1, <2>2 DEF LabelEvidence, SameFloppy, GwEvidence, HasGwImage, Rejected
  <2> QED
    BY <1>1, <2>1, <2>2, <2>3, EvidenceJob
<1>7. CASE GwAccept
  <2>1. UNCHANGED images
    BY <1>7, SMTT(30) DEF GwAccept
  <2>2. /\ \A e \in Labels \ {d} : job'[e] = job[e]
        /\ job'[d] = [job[d] EXCEPT !.pending = IF @ = 0 THEN NextAttempt(d) ELSE @]
    BY <1>0, <1>1, <1>2, <1>7 DEF GwAccept
  <2>3. /\ job[d].pending # 0 => job'[d].pending = job[d].pending
        /\ job'[d].approval = job[d].approval /\ job'[d].candidate = job[d].candidate
    BY <1>2, <2>2 DEF Jobs
  <2>4. HasGwImage(d) => job[d].pending # 0 /\ job[d].pending \in 1 .. Len(images[d])
    BY <1>2, <1>3 DEF LabelEvidence
  <2>5. LabelEvidence(d)'
    BY <1>1, <1>3, <2>1, <2>3, <2>4 DEF LabelEvidence, SameFloppy, GwEvidence, HasGwImage, Rejected
  <2> QED
    BY <1>1, <2>1, <2>2, <2>5, EvidenceJob
<1>8. CASE GwPublish
  <2>1. UNCHANGED job /\ Decoded(d)
    BY <1>3, <1>8 DEF GwPublish, ReaderBound
  <2>2. CASE job[d].pending <= Len(images[d])
    BY <1>0, <1>1, <1>8, <2>1, <2>2, EvidenceStays DEF GwPublish
  <2>3. CASE ~(job[d].pending <= Len(images[d]))
    <3>0. PICK r :
            /\ images' = [images EXCEPT ![d] = Append(@, r)]
            /\ r = [station |-> "gw", attempt |-> job[d].pending,
                    floppy |-> Candidate(d).floppy, bad |-> Candidate(d).bad,
                    verdict |-> Candidate(d).verdict, confirmed |-> job[d].approval,
                    capture |-> Candidate(d).id]
      BY <1>0, <1>8, <2>3, Zenon DEF GwPublish
    <3>1. /\ images' = [images EXCEPT ![d] = Append(@, r)]
          /\ r.station = "gw" /\ r.floppy = job[d].candidate.floppy /\ r.verdict = job[d].candidate.verdict
          /\ r.confirmed = job[d].approval /\ r.capture = job[d].candidate.id
      BY <3>0 DEF Candidate
    <3>2. ~HasGwImage(d) /\ job[d].pending = Len(images[d]) + 1
      BY <1>2, <1>3, <2>3 DEF LabelEvidence, LabelBound
    <3>3. \A i \in 1 .. Len(images[d]) : images[d][i].station # r.station
      BY <3>1, <3>2 DEF HasGwImage
    <3>4. GwEvidence(d, r)'
      BY <1>1, <1>3, <2>1, <3>1 DEF GwEvidence, LabelEvidence, SameFloppy, Decoded, Usable, Candidate, Rejected
    <3> QED
      BY <1>1, <2>1, <3>1, <3>2, <3>3, <3>4, EvidenceAppend, Zenon
  <2> QED
    BY <2>2, <2>3
<1> QED
  BY <1>4, <1>5, <1>6, <1>7, <1>8 DEF GwRead

LEMMA EvidenceRestart ==
  ASSUME CoordinatorInv, ReceiptsKept, EvidenceKept, Restart
  PROVE  EvidenceKept'
<1>1. CASE Open \/ Exit
  BY <1>1, EvidenceStays DEF Open, Exit, evidence
<1>2. ASSUME NEW d \in Labels, NEW f \in Floppies, AcquireElsewhere(d, f) PROVE EvidenceKept'
  <2>0. PICK r :
          /\ images' = [images EXCEPT ![d] = Append(@, r)]
          /\ r = [station |-> "usb", attempt |-> 1, floppy |-> f, bad |-> "none",
                  verdict |-> "none", confirmed |-> "none", capture |-> 0]
    BY <1>2 DEF AcquireElsewhere
  <2>1. images' = [images EXCEPT ![d] = Append(@, r)] /\ r.station = "usb"
    BY <2>0
  <2>2. UNCHANGED <<job, archives>> /\ images[d] = <<>>
    BY <1>2 DEF AcquireElsewhere
  <2>3. \A i \in 1 .. Len(images[d]) : images[d][i].station # r.station
    BY <2>2
  <2>4. GwEvidence(d, r)'
    BY <2>1 DEF GwEvidence
  <2> QED
    BY <2>1, <2>2, <2>3, <2>4, EvidenceAppend
<1> QED
  BY <1>1, <1>2 DEF Restart

LEMMA EvidenceStep ==
  ASSUME CoordinatorInv, EvidenceInv, [Next]_vars
  PROVE  EvidenceKept'
<1>1. ReceiptsKept
  BY ReceiptsStep
<1>2. CASE UNCHANGED vars
  BY <1>1, <1>2, EvidenceStays DEF EvidenceInv, vars, evidence
<1> QED
  BY <1>1, <1>2, EvidenceOperate, EvidenceUsb, EvidenceGw, EvidenceRestart DEF EvidenceInv, Next
\* A step of the owner: no image is published, and a label that becomes absent or is
\* reserved for a first USB read has none.
LEMMA FreshFrame ==
  ASSUME FreshKept, UNCHANGED images, owner' => owner, occupied' = occupied,
         \A d \in Labels : disks'[d].phase = "absent" => disks[d].phase = "absent" \/ images[d] = <<>>,
         \A d \in Labels :
           disks'[d].phase = "reserved" /\ disks'[d].ticket.station = "usb" /\ ~disks'[d].ticket.retry =>
             images[d] = <<>> \/ disks'[d] = disks[d],
         reader'["usb"].pc = "run" /\ ~reader'["usb"].ticket.retry =>
           reader'["usb"] = reader["usb"] \/ images[reader'["usb"].ticket.disk] = <<>>
  PROVE  FreshKept'
<1>1. owner' => \A d \in Labels : images'[d] # <<>> => d \in occupied' \/ disks'[d].phase # "absent"
  BY DEF FreshKept
<1>2. \A d \in Labels :
        disks'[d].phase = "reserved" /\ disks'[d].ticket.station = "usb" /\ ~disks'[d].ticket.retry =>
          images'[d] = <<>>
  BY DEF FreshKept
<1>3. reader'["usb"].pc = "run" /\ ~reader'["usb"].ticket.retry => images'[reader'["usb"].ticket.disk] = <<>>
  BY DEF FreshKept
<1> QED
  BY <1>1, <1>2, <1>3 DEF FreshKept

LEMMA FreshOperate ==
  ASSUME CoordinatorInv, FreshKept, Operate
  PROVE  FreshKept'
<1>d. disks \in [Labels -> Disks] /\ reader \in [Stations -> Readers]
  BY SMTT(30) DEF CoordinatorInv, TypeOK
<1>u. UNCHANGED images /\ owner' = owner /\ occupied' = occupied
  BY ZenonT(60) DEF Operate, SetPaused, ClaimRecovery, ReleaseArchive, ReleaseReset, ReleaseCommit, ConfirmSameDisk,
     ClaimRetry, ClaimFresh, Confirm, Removed, SelectQueuedInstead, ReleaseFails, Complete, Failed, journal, evidence
<1>0. ASSUME reader' = reader,
             \A d \in Labels : disks'[d] = disks[d] \/ disks'[d].phase \notin {"absent", "reserved"}
      PROVE  FreshKept'
  BY <1>0, <1>u, FreshFrame
<1>1. ASSUME UNCHANGED <<disks, reader>> PROVE FreshKept'
  BY <1>0, <1>1
<1>2. ASSUME NEW d \in Labels, NEW s \in Stations, NEW work, NEW retry,
             disks' = Reserve(d, Issue(d, s, work, retry)), reader' = reader,
             s = "usb" /\ ~retry => images[d] = <<>>
      PROVE  FreshKept'
  <2>1. /\ disks'[d].phase = "reserved" /\ disks'[d].ticket.station = s /\ disks'[d].ticket.retry = retry
        /\ \A e \in Labels \ {d} : disks'[e] = disks[e]
    BY <1>2, <1>d DEF Reserve, Issue, Disks
  <2> QED
    BY <1>2, <1>u, <2>1, FreshFrame
<1>3. ASSUME NEW d \in Labels, ClaimRecovery(d) PROVE FreshKept'
  BY <1>2, <1>3 DEF ClaimRecovery
<1>4. ASSUME NEW d \in Labels, NEW s \in Stations, ClaimRetry(s, d) PROVE FreshKept'
  BY <1>2, <1>4 DEF ClaimRetry
<1>5. ASSUME NEW d \in Labels, NEW s \in Stations, ClaimFresh(s, d) PROVE FreshKept'
  <2>1. images[d] = <<>>
    BY <1>5 DEF ClaimFresh, ClaimGuard, Ready, IsNextFresh, Unreserved, FreshKept
  <2> QED
    BY <1>2, <1>5, <2>1 DEF ClaimFresh
<1>6. ASSUME NEW d \in Labels, NEW offer \in Labels, SelectQueuedInstead(offer, d) PROVE FreshKept'
  <2>1. /\ disks'[offer].phase = "absent" /\ images[offer] = <<>> /\ offer # d
        /\ disks'[d].phase = "reserved" /\ disks'[d].ticket.station = "gw"
        /\ \A e \in Labels \ {d, offer} : disks'[e] = disks[e]
    BY <1>6, <1>d DEF SelectQueuedInstead, Reserve, Issue, AbsentDisk, Disks
  <2>2. reader' = reader
    BY <1>6 DEF SelectQueuedInstead
  <2> QED
    BY <1>u, <2>1, <2>2, FreshFrame
<1>7. ASSUME NEW d \in Labels, NEW s \in Stations, Confirm(s, d) PROVE FreshKept'
  <2>1. /\ Held(d) /\ disks[d].ticket.station = s /\ disks[d].phase = "reserved"
    BY <1>7 DEF Confirm, HeldBy
  <2>2. disks[d].ticket.disk = d
    BY <2>1, HeldTicket
  <2>3. /\ disks'[d].phase = "reading"
        /\ \A e \in Labels \ {d} : disks'[e] = disks[e]
        /\ reader'[s].ticket = disks[d].ticket
        /\ \A o \in Stations \ {s} : reader'[o] = reader[o]
    BY <1>7, <1>d DEF Confirm, Idle, Disks
  <2>4. s = "usb" /\ ~disks[d].ticket.retry => images[d] = <<>>
    BY <2>1 DEF FreshKept
  <2> QED
    BY <1>u, <2>2, <2>3, <2>4, FreshFrame
<1>8. ASSUME NEW d \in Labels, NEW s \in Stations, Removed(s, d) PROVE FreshKept'
  <2>1. \A e \in Labels : disks'[e] = disks[e] \/ disks'[e].phase \notin {"absent", "reserved"}
    BY <1>8, <1>d DEF Removed, Disks
  <2> QED
    BY <1>0, <1>8, <2>1 DEF Removed
<1>9. ASSUME NEW d \in Labels, ReleaseCommit(d) PROVE FreshKept'
  <2>1. \A e \in Labels : disks'[e] = disks[e] \/ disks'[e].phase \notin {"absent", "reserved"}
    BY <1>9, <1>d DEF ReleaseCommit, Disks
  <2> QED
    BY <1>0, <1>9, <2>1 DEF ReleaseCommit
<1>10. ASSUME NEW s \in Stations, Complete(s) \/ Failed(s) PROVE FreshKept'
  <2>1. PICK d : d = reader[s].ticket.disk
    BY SMTT(30)
  <2>2. /\ reader'[s] = Idle /\ \A o \in Stations \ {s} : reader'[o] = reader[o]
    BY <1>10, <1>d, SMTT(30) DEF Complete, Failed
  <2>3. d \in Labels
    BY <1>10, <2>1, BusyReader DEF Complete, Failed
  <2>4. \A e \in Labels : disks'[e] = disks[e] \/ disks'[e].phase \notin {"absent", "reserved"}
    <3>1. CASE Complete(s) /\ s = "usb"
      BY <3>1, <2>1, <2>3, <1>d DEF Complete, Disks
    <3>2. CASE Complete(s) /\ s = "gw"
      BY <3>2, <2>1, <2>3, <1>d DEF Complete, Disks
    <3>3. CASE Failed(s)
      <4>1. PICK e : disks' = [disks EXCEPT ![d] = [@ EXCEPT !.phase = "interrupted", !.error = e]]
        BY <2>1, <3>3 DEF Failed
      <4> QED
        BY <2>3, <4>1, <1>d, SMTT(30) DEF Disks
    <3> QED
      BY <1>10, <3>1, <3>2, <3>3
  <2>5. reader'["usb"].pc = "run" => reader'["usb"] = reader["usb"]
    BY <2>2 DEF Idle
  <2> QED
    BY <1>u, <2>4, <2>5, FreshFrame
<1>11. ASSUME NEW d \in Labels, ReleaseArchive(d) \/ ReleaseReset(d) \/ ConfirmSameDisk(d) PROVE FreshKept'
  BY <1>1, <1>11 DEF ReleaseArchive, ReleaseReset, ConfirmSameDisk, journal
<1>12. CASE ReleaseFails \/ \E p \in BOOLEAN : SetPaused(p)
  BY <1>1, <1>12 DEF ReleaseFails, SetPaused, journal
<1> QED
  BY <1>3, <1>4, <1>5, <1>6, <1>7, <1>8, <1>9, <1>10, <1>11, <1>12 DEF Operate

\* A reader publishes an image of the label it serves, and of no other.
LEMMA FreshRead ==
  ASSUME CoordinatorInv, FreshKept, UsbRead \/ GwRead
  PROVE  FreshKept'
<1>t. TypeOK /\ images \in [Labels -> Seq(Receipts)]
  BY SMTT(30) DEF CoordinatorInv, TypeOK
<1>u. UNCHANGED <<owner, occupied, disks>>
  BY Zenon DEF UsbRead, GwRead, UsbAdopt, UsbAcquire, ReadFails, GwRefuse, GwFormatException,
     GwReject, GwAccept, GwPublish, GwSeal, GwReuse, GwCapture, journal
<1>1. ASSUME UNCHANGED images, reader'["usb"] = reader["usb"] \/ reader'["usb"].pc # "run"
      PROVE  FreshKept'
  BY <1>1, <1>u, FreshFrame
<1>2. CASE UsbAdopt \/ ReadFails("usb")
  <2>1. reader'["usb"].pc # "run"
    BY <1>t, <1>2, AnswerMoves DEF UsbAdopt, ReadFails
  <2> QED
    BY <1>1, <1>2, <2>1 DEF UsbAdopt, ReadFails, evidence
<1>3. ASSUME NEW s \in Stations, NEW d \in Labels, d = reader[s].ticket.disk, reader[s].pc # "idle",
             \A e \in Labels \ {d} : images'[e] = images[e],
             \/ s = "usb" /\ reader'["usb"].pc # "run"
             \/ s = "gw" /\ reader'["usb"] = reader["usb"]
      PROVE  FreshKept'
  <2>1. disks[d].phase = "reading" /\ Held(d) /\ disks[d].ticket.station = s
    BY <1>3, BusyReader
  <2>2. owner' => \A e \in Labels : images'[e] # <<>> => e \in occupied' \/ disks'[e].phase # "absent"
    BY <1>3, <1>u, <2>1 DEF FreshKept
  <2>3. \A e \in Labels :
          disks'[e].phase = "reserved" /\ disks'[e].ticket.station = "usb" /\ ~disks'[e].ticket.retry =>
            images'[e] = <<>>
    BY <1>3, <1>u, <2>1 DEF FreshKept
  <2>4. reader'["usb"].pc = "run" /\ ~reader'["usb"].ticket.retry => images'[reader'["usb"].ticket.disk] = <<>>
    <3> SUFFICES ASSUME reader'["usb"].pc = "run", ~reader'["usb"].ticket.retry, s = "gw",
                        reader'["usb"] = reader["usb"]
                 PROVE  images'[reader["usb"].ticket.disk] = <<>>
      BY <1>3
    <3>1. reader["usb"].ticket.disk \in Labels /\ reader["usb"].ticket.disk # d
      BY <2>1, BusyReader
    <3> QED
      BY <1>3, <3>1 DEF FreshKept
  <2> QED
    BY <2>2, <2>3, <2>4 DEF FreshKept
<1>4. ASSUME NEW f \in Floppies, NEW bad \in {"none", "some", "all"}, UsbAcquire(f, bad)
      PROVE  FreshKept'
  <2>1. PICK d, r : d = reader["usb"].ticket.disk /\ images' = [images EXCEPT ![d] = Append(@, r)]
    BY <1>4 DEF UsbAcquire
  <2>2. d \in Labels /\ reader["usb"].pc # "idle"
    BY <1>4, <2>1, BusyReader DEF UsbAcquire, Reading
  <2>3. \A e \in Labels \ {d} : images'[e] = images[e]
    BY <1>t, <2>1
  <2>4. reader'["usb"].pc # "run"
    BY <1>t, <1>4, AnswerMoves DEF UsbAcquire
  <2> QED
    BY <1>3, <2>1, <2>2, <2>3, <2>4, SMTT(30)
<1>5. CASE GwPublish
  <2>1. PICK d, r : /\ d = reader["gw"].ticket.disk
                    /\ images' = [images EXCEPT ![d] = Append(@, r)] \/ images' = images
    BY <1>5, Zenon DEF GwPublish
  <2>2. d \in Labels /\ reader["gw"].pc # "idle"
    BY <1>5, <2>1, BusyReader, Zenon DEF GwPublish
  <2>3. \A e \in Labels \ {d} : images'[e] = images[e]
    BY <1>t, <2>1
  <2>4. reader'["usb"] = reader["usb"]
    BY <1>t, <1>5, AnswerMoves, SMTT(30) DEF GwPublish
  <2> QED
    BY <1>3, <2>1, <2>2, <2>3, <2>4, SMTT(30)
<1>6. CASE GwRefuse \/ GwFormatException \/ GwReject \/ GwAccept \/ GwSeal \/ GwReuse \/ ReadFails("gw")
  <2>1. reader'["usb"] = reader["usb"]
    BY <1>t, <1>6, AnswerMoves DEF GwRefuse, GwFormatException, GwReject, GwAccept, GwSeal, GwReuse, ReadFails
  <2> QED
    BY <1>1, <1>6, <2>1, SMTT(30) DEF GwRefuse, GwFormatException, GwReject, GwAccept, GwSeal, GwReuse, ReadFails, evidence
<1>7. ASSUME NEW f \in Floppies, NEW bad \in {"none", "some", "unformatted"}, NEW v \in Verdicts,
             GwCapture(f, bad, v)
      PROVE  FreshKept'
  BY <1>1, <1>7 DEF GwCapture
<1> QED
  BY <1>2, <1>4, <1>5, <1>6, <1>7 DEF UsbRead, GwRead

LEMMA FreshRestart ==
  ASSUME CoordinatorInv, FreshKept, Restart
  PROVE  FreshKept'
<1>1. CASE Open
  <2>1. /\ occupied' = occupied \cup {d \in Labels : images[d] # <<>>} /\ UNCHANGED <<images, reader>>
        /\ \A d \in Labels : disks'[d].phase # "reserved"
        /\ ~owner
    BY <1>1 DEF Open, Acquired, Reopened, evidence
  <2>2. reader["usb"].pc = "idle"
    BY <2>1 DEF CoordinatorInv, ReaderServesTicket
  <2> QED
    BY <2>1, <2>2 DEF FreshKept
<1>2. CASE Exit
  <2>1. ~owner' /\ UNCHANGED <<disks, images>> /\ reader'["usb"].pc = "idle"
    BY <1>2 DEF Exit, Idle, journal, evidence
  <2> QED
    BY <2>1 DEF FreshKept
<1>3. ASSUME NEW d \in Labels, NEW f \in Floppies, AcquireElsewhere(d, f) PROVE FreshKept'
  <2>1. ~owner' /\ UNCHANGED <<disks, reader>> /\ ~owner /\ disks[d].phase = "absent"
    BY <1>3 DEF AcquireElsewhere, journal
  <2>2. reader["usb"].pc = "idle"
    BY <2>1 DEF CoordinatorInv, ReaderServesTicket
  <2>3. \A e \in Labels \ {d} : images'[e] = images[e]
    BY <1>3 DEF AcquireElsewhere, CoordinatorInv, TypeOK
  <2> QED
    BY <2>1, <2>2, <2>3 DEF FreshKept
<1> QED
  BY <1>1, <1>2, <1>3 DEF Restart

LEMMA FreshStep ==
  ASSUME CoordinatorInv, FreshKept, [Next]_vars
  PROVE  FreshKept'
<1>1. CASE UNCHANGED vars
  BY <1>1, FreshFrame DEF vars, journal, evidence
<1> QED
  BY <1>1, FreshOperate, FreshRead, FreshRestart DEF Next

\* While a release is in progress nothing else is done to its label.
LEMMA ReleaseStep ==
  ASSUME CoordinatorInv, ReleaseKept, [Next]_vars
  PROVE  ReleaseKept'
<1> SUFFICES ASSUME releasing' # "none" PROVE owner' /\ \E d \in Labels : (Disputed(d) /\ ~HasGwImage(d))'
  BY DEF ReleaseKept
<1>1. ASSUME owner' = owner, UNCHANGED disks, releasing # "none",
             \A d \in Labels : disks[d].phase = "interrupted" => images'[d] = images[d]
      PROVE  owner' /\ \E d \in Labels : (Disputed(d) /\ ~HasGwImage(d))'
  <2>1. PICK d \in Labels : Disputed(d) /\ ~HasGwImage(d) /\ owner
    BY <1>1 DEF ReleaseKept
  <2>2. images'[d] = images[d] /\ disks' = disks
    BY <1>1, <2>1 DEF Disputed
  <2>3. (Disputed(d) /\ ~HasGwImage(d))'
    BY <2>1, <2>2, SMTT(30) DEF Disputed, HasGwImage, HeldBy, Held, ReceiptVerified, Has
  <2> QED
    BY <1>1, <2>1, <2>3
<1>2. CASE Operate
  <2>1. ASSUME NEW d \in Labels, ReleaseArchive(d)
        PROVE  owner' /\ (Disputed(d) /\ ~HasGwImage(d))'
    BY <2>1 DEF ReleaseArchive, Ready, Disputed, HasGwImage, HeldBy, Held, ReceiptVerified, Has, journal
  <2>2. ASSUME NEW d \in Labels, ReleaseReset(d) PROVE owner' /\ \E e \in Labels : (Disputed(e) /\ ~HasGwImage(e))'
    BY <1>1, <2>2 DEF ReleaseReset, journal
  <2>3. ASSUME releasing' = releasing PROVE ~Ready
    BY <2>3 DEF Ready
  <2> QED
    BY <1>2, <2>1, <2>2, <2>3, ZenonT(60) DEF Operate, SetPaused, ClaimRecovery, ClaimGuard, ReleaseCommit, ConfirmSameDisk,
       ClaimRetry, ClaimFresh, Confirm, Removed, SelectQueuedInstead, ReleaseFails, Complete, Failed
<1>3. CASE UsbRead \/ GwRead
  <2>1. UNCHANGED <<owner, disks, releasing>>
    BY <1>3, ZenonT(60) DEF UsbRead, GwRead, UsbAdopt, UsbAcquire, ReadFails, GwRefuse, GwFormatException,
       GwReject, GwAccept, GwPublish, GwSeal, GwReuse, GwCapture, journal
  <2>2. \/ images' = images
        \/ \E s \in Stations : \E d, r : /\ reader[s].pc # "idle" /\ d = reader[s].ticket.disk
                                          /\ images' = [images EXCEPT ![d] = Append(@, r)]
    <3>1. CASE \E f \in Floppies, bad \in {"none", "some", "all"} : UsbAcquire(f, bad)
      BY <3>1, Zenon DEF UsbAcquire, Reading
    <3>2. CASE GwPublish
      BY <3>2, Zenon DEF GwPublish
    <3> QED
      BY <1>3, <3>1, <3>2, ZenonT(60) DEF UsbRead, GwRead, UsbAdopt, ReadFails, GwRefuse, GwFormatException,
         GwReject, GwAccept, GwSeal, GwReuse, GwCapture, evidence
  <2>3. \A d \in Labels : disks[d].phase = "interrupted" => images'[d] = images[d]
    <3>1. CASE images' = images
      BY <3>1
    <3>2. ASSUME NEW s \in Stations, NEW d, NEW r, reader[s].pc # "idle", d = reader[s].ticket.disk,
                 images' = [images EXCEPT ![d] = Append(@, r)]
          PROVE  \A e \in Labels : disks[e].phase = "interrupted" => images'[e] = images[e]
      <4>1. d \in Labels /\ disks[d].phase = "reading"
        BY <3>2, BusyReader
      <4> QED
        BY <3>2, <4>1 DEF CoordinatorInv, TypeOK
    <3> QED
      BY <2>2, <3>1, <3>2
  <2> QED
    BY <1>1, <2>1, <2>3
<1>4. CASE Restart
  BY <1>4 DEF Restart, Open, Exit, AcquireElsewhere, ReleaseKept
<1>5. CASE UNCHANGED vars
  BY <1>1, <1>5 DEF vars, journal, evidence
<1> QED
  BY <1>2, <1>3, <1>4, <1>5 DEF Next
-----------------------------------------------------------------------------
(* Two floppies under one label.  Only Complete("gw") of a recovery ticket    *)
(* puts a GW receipt beside a USB one, after check_pair.                     *)

Mixed(d) == Has(disks[d].usb) /\ Has(disks[d].gw) /\ disks[d].usb.floppy # disks[d].gw.floppy
CustodyKept == \A d \in Labels : Mixed(d) => disks[d].gw.confirmed = "custody"

LEMMA CustodyFrame ==
  ASSUME MixedIdentityFlagged,
         \A d \in Labels : \/ disks'[d].usb = disks[d].usb /\ disks'[d].gw = disks[d].gw
                           \/ ~Has(disks'[d].usb) \/ ~Has(disks'[d].gw)
                           \/ ~Mixed(d)' \/ disks'[d].gw.confirmed = "custody"
  PROVE  CustodyKept'
BY DEF MixedIdentityFlagged, CustodyKept, Mixed, Has

\* A label in use is not complete, and without a ticket it is where its receipts say.
LEMMA FlaggedLabels ==
  ASSUME JournalValid, CustodyKept
  PROVE  MixedIdentityFlagged
<1> SUFFICES ASSUME NEW d \in Labels, Mixed(d)
             PROVE  disks[d].gw.confirmed = "custody" /\ disks[d].phase # "complete"
  BY DEF MixedIdentityFlagged, Mixed
<1>1. disks[d].gw.confirmed = "custody"
  BY DEF CustodyKept
<1>2. CASE Held(d)
  BY <1>1, <1>2 DEF Held
<1>3. CASE ~Held(d)
  <2>1. disks[d].phase = Expected(disks[d]) /\ Has(disks[d].gw)
    BY <1>3 DEF JournalValid, LabelValid, Mixed
  <2> QED
    BY <1>1, <2>1 DEF Expected, Clean
<1> QED
  BY <1>2, <1>3

LEMMA CustodyComplete ==
  ASSUME CoordinatorInv, EvidenceInv, NEW s \in Stations, Complete(s)
  PROVE  CustodyKept'
<1>d. disks \in [Labels -> Disks] /\ images \in [Labels -> Seq(Receipts)]
  BY DEF CoordinatorInv, TypeOK
<1>1. PICK d : d = reader[s].ticket.disk
  OBVIOUS
<1>2. PICK r : r = images[d][reader[s].attempt]
  BY SMTT(30)
<1>3. /\ d \in Labels /\ Held(d) /\ disks[d].phase = "reading"
      /\ disks[d].ticket = reader[s].ticket /\ disks[d].ticket.station = s /\ disks[d].ticket \in Tickets
  BY <1>1, BusyReader, Zenon DEF Complete
<1>4. /\ disks[d].ticket.work = "fresh" => ~Has(disks[d].usb) /\ ~Has(disks[d].gw)
      /\ disks[d].ticket.work = "recovery" => s = "gw"
      /\ disks[d].ticket.work \in {"fresh", "recovery"}
  BY <1>3, ReceiptsFree DEF Tickets
<1>5. MixedIdentityFlagged
  BY DEF EvidenceInv
<1>6. CASE s = "usb"
  <2>1. disks' = [disks EXCEPT ![d] = [@ EXCEPT !.phase = "saved", !.usb = r,
                                                !.triage = reader[s].ticket.generation]]
    BY <1>1, <1>2, <1>6 DEF Complete
  <2>2. /\ disks'[d].gw = disks[d].gw /\ ~Has(disks[d].gw)
        /\ \A e \in Labels \ {d} : disks'[e] = disks[e]
    BY <1>d, <1>3, <1>4, <1>6, <2>1 DEF Disks
  <2> QED
    BY <1>5, <2>2, CustodyFrame
<1>7. CASE s = "gw"
  <2>1. disks' = [disks EXCEPT ![d] = [@ EXCEPT !.phase = "saved", !.gw = r]]
    BY <1>1, <1>2, <1>7 DEF Complete
  <2>2. /\ disks'[d].usb = disks[d].usb /\ disks'[d].gw = r
        /\ \A e \in Labels \ {d} : disks'[e] = disks[e]
    BY <1>d, <1>3, <2>1 DEF Disks
  <2>3. CASE disks[d].ticket.work = "fresh"
    <3>1. ~Has(disks'[d].usb)
      BY <1>4, <2>2, <2>3
    <3> QED
      BY <1>5, <2>2, <3>1, CustodyFrame
  <2>4. CASE disks[d].ticket.work = "recovery"
    <3>1. r.station = "gw" /\ PairAgrees(r)
      BY <1>1, <1>2, <1>3, <1>7, <2>4, SMTT(30) DEF Complete, Completable
    <3>2. reader[s].attempt \in 1 .. Len(images[d])
      BY <1>1 DEF Complete, CoordinatorInv, ReaderServesTicket
    <3>3. r \in Receipts /\ GwEvidence(d, r)
      BY <1>d, <1>2, <1>3, <3>2, ElementOfSeq DEF EvidenceInv, EvidenceKept, LabelEvidence
    <3>4. r.confirmed \in {"none", "conflicts", "custody"}
      BY <3>3 DEF Receipts
    <3>5. r.confirmed = "custody" \/ r.floppy = disks[d].usb.floppy
      BY <3>1, <3>3, <3>4 DEF PairAgrees, GwEvidence, SameFloppy
    <3>6. disks'[d].gw.confirmed = "custody" \/ ~Mixed(d)'
      BY <2>2, <3>5 DEF Mixed
    <3> QED
      BY <1>5, <2>2, <3>6, CustodyFrame, SMTT(30)
  <2> QED
    BY <1>4, <2>3, <2>4
<1> QED
  BY <1>6, <1>7

LEMMA CustodyStep ==
  ASSUME CoordinatorInv, EvidenceInv, [Next]_vars
  PROVE  CustodyKept'
<1>d. disks \in [Labels -> Disks] /\ MixedIdentityFlagged
  BY DEF CoordinatorInv, TypeOK, EvidenceInv
<1>1. CASE UNCHANGED disks
  BY <1>d, <1>1, CustodyFrame
<1>2. ASSUME NEW d \in Labels, NEW t, disks' = Reserve(d, t) PROVE CustodyKept'
  <2>1. \A e \in Labels : disks'[e].usb = disks[e].usb /\ disks'[e].gw = disks[e].gw
    BY <1>2, <1>d DEF Reserve, Disks
  <2> QED
    BY <1>d, <2>1, CustodyFrame
<1>3. ASSUME NEW d \in Labels, NEW offer \in Labels, SelectQueuedInstead(offer, d) PROVE CustodyKept'
  <2>1. /\ disks'[offer] = AbsentDisk
        /\ \A e \in Labels \ {offer} : disks'[e].usb = disks[e].usb /\ disks'[e].gw = disks[e].gw
    BY <1>3, <1>d DEF SelectQueuedInstead, Reserve, Disks
  <2>2. ~Has(disks'[offer].usb)
    BY <2>1 DEF AbsentDisk, NoReceipt, Has
  <2> QED
    BY <1>d, <2>1, <2>2, CustodyFrame
<1>4. ASSUME NEW d \in Labels, NEW s \in Stations, Confirm(s, d) \/ Removed(s, d) PROVE CustodyKept'
  <2>1. \A e \in Labels : disks'[e].usb = disks[e].usb /\ disks'[e].gw = disks[e].gw
    <3>1. CASE Confirm(s, d)
      BY <3>1, <1>d DEF Confirm, Disks
    <3>2. CASE Removed(s, d)
      BY <3>2, <1>d DEF Removed, Disks
    <3> QED
      BY <1>4, <3>1, <3>2
  <2> QED
    BY <1>d, <2>1, CustodyFrame
<1>5. ASSUME NEW d \in Labels, ReleaseCommit(d) PROVE CustodyKept'
  <2>1. \A e \in Labels : disks'[e].usb = disks[e].usb /\ disks'[e].gw = disks[e].gw
    BY <1>5, <1>d DEF ReleaseCommit, Disks
  <2> QED
    BY <1>d, <2>1, CustodyFrame
<1>6. ASSUME NEW s \in Stations, Failed(s) PROVE CustodyKept'
  <2>1. PICK e : disks' = [disks EXCEPT ![reader[s].ticket.disk] =
                              [@ EXCEPT !.phase = "interrupted", !.error = e]]
    BY <1>6, Zenon DEF Failed
  <2>2. \A e1 \in Labels : disks'[e1].usb = disks[e1].usb /\ disks'[e1].gw = disks[e1].gw
    BY <2>1, <1>d DEF Disks
  <2> QED
    BY <1>d, <2>2, CustodyFrame, SMTT(30)
<1>7. CASE Operate
  <2>1. ASSUME NEW d \in Labels, NEW s \in Stations, ClaimRetry(s, d) \/ ClaimFresh(s, d) PROVE CustodyKept'
    BY <1>2, <2>1 DEF ClaimRetry, ClaimFresh
  <2>2. ASSUME NEW d \in Labels, ClaimRecovery(d) PROVE CustodyKept'
    BY <1>2, <2>2 DEF ClaimRecovery
  <2>3. ASSUME NEW d \in Labels, ReleaseArchive(d) \/ ReleaseReset(d) \/ ConfirmSameDisk(d) PROVE CustodyKept'
    BY <1>1, <2>3 DEF ReleaseArchive, ReleaseReset, ConfirmSameDisk, journal
  <2>4. CASE ReleaseFails \/ \E p \in BOOLEAN : SetPaused(p)
    BY <1>1, <2>4 DEF ReleaseFails, SetPaused, journal
  <2> QED
    BY <1>7, <1>3, <1>4, <1>5, <1>6, <2>1, <2>2, <2>3, <2>4, CustodyComplete DEF Operate
<1>8. CASE UsbRead \/ GwRead
  <2>1. UNCHANGED disks
    BY <1>8, Zenon DEF UsbRead, GwRead, UsbAdopt, UsbAcquire, ReadFails, GwRefuse, GwFormatException,
       GwReject, GwAccept, GwPublish, GwSeal, GwReuse, GwCapture, journal
  <2> QED
    BY <1>1, <2>1, SMTT(30)
<1>9. CASE Restart
  <2>1. CASE Open
    <3>1. \A e \in Labels : disks'[e].usb = disks[e].usb /\ disks'[e].gw = disks[e].gw
      BY <2>1, <1>d DEF Open, Reopened, Disks
    <3> QED
      BY <1>d, <3>1, CustodyFrame
  <2> QED
    BY <1>1, <1>9, <2>1 DEF Restart, Exit, AcquireElsewhere, journal
<1> QED
  BY <1>1, <1>7, <1>8, <1>9 DEF Next, vars, journal

-----------------------------------------------------------------------------
LEMMA EvidenceInit == Init => EvidenceInv
<1> SUFFICES ASSUME Init PROVE EvidenceInv
  OBVIOUS
<1>1. EvidenceKept
  <2>1. ASSUME NEW d \in Labels PROVE LabelEvidence(d)
    <3>1. images[d] = <<>> /\ job[d] = NoJob
      BY DEF Init
    <3>2. Len(images[d]) = 0
      BY <3>1
    <3>3. 1 .. Len(images[d]) = {}
      BY <3>2
    <3>4. ~HasGwImage(d)
      BY <3>3 DEF HasGwImage
    <3> QED
      BY <3>1, <3>3, <3>4 DEF LabelEvidence, SameFloppy, NoJob, NoCapture
  <2> QED
    BY <2>1 DEF EvidenceKept
<1>2. FreshKept /\ ReleaseKept
  BY DEF Init, FreshKept, ReleaseKept, Idle
<1>3. MixedIdentityFlagged
  BY DEF Init, MixedIdentityFlagged, AbsentDisk, NoReceipt, Has
<1> QED
  BY <1>1, <1>2, <1>3 DEF EvidenceInv

\* What is published, what the recovery job and the archives say of it, and which
\* labels count as fresh agree in every state, crashes of a release included.
THEOREM EvidenceInvariant == Spec => []EvidenceInv
<1>1. CoordinatorInv /\ CoordinatorInv' /\ EvidenceInv /\ [Next]_vars => EvidenceInv'
  <2> SUFFICES ASSUME CoordinatorInv, CoordinatorInv', EvidenceInv, [Next]_vars PROVE EvidenceInv'
    OBVIOUS
  <2>1. CustodyKept' /\ JournalValid'
    BY CustodyStep DEF CoordinatorInv
  <2>2. MixedIdentityFlagged'
    BY <2>1, FlaggedLabels, PTL
  <2>3. EvidenceKept' /\ FreshKept' /\ ReleaseKept'
    BY EvidenceStep, FreshStep, ReleaseStep DEF EvidenceInv
  <2> QED
    BY <2>2, <2>3 DEF EvidenceInv
<1> QED
  BY <1>1, EvidenceInit, CoordinatorInvariant, PTL DEF Spec

\* A ticketed acquisition is published once: a retry after a crash between the image,
\* the job's result and the journal adopts it (usb_read, GwPublish's reserved slot).
THEOREM OneImageEach == Spec => []OneImagePerStation
<1>1. EvidenceInv => OneImagePerStation
  BY DEF EvidenceInv, EvidenceKept, LabelEvidence, OneImagePerStation
<1> QED
  BY <1>1, EvidenceInvariant, PTL

\* An image drawn from a capture that release_identity_mismatch archived is never
\* published, wherever between its three files the release was cut.
THEOREM RejectedStayUnpublished == Spec => []RejectedNeverPublished
<1>1. EvidenceInv => RejectedNeverPublished
  BY DEF EvidenceInv, EvidenceKept, LabelEvidence, GwEvidence, RejectedNeverPublished
<1> QED
  BY <1>1, EvidenceInvariant, PTL

\* Images of two floppies meet under one label only by a custody assertion, and the
\* label then never counts as complete (check_pair, confirm_same_disk).
THEOREM MixedAreFlagged == Spec => []MixedIdentityFlagged
<1>1. EvidenceInv => MixedIdentityFlagged
  BY DEF EvidenceInv
<1> QED
  BY <1>1, EvidenceInvariant, PTL
-----------------------------------------------------------------------------
(* The coordinator implements the custody of every label.                     *)

places == [d \in Labels |-> Place(disks[d])]
seals  == [d \in Labels |-> Sealed(disks[d])]

LEMMA PlaceOf ==
  ASSUME CoordinatorInv, NEW d \in Labels
  PROVE  /\ Held(d) => Place(disks[d]) = disks[d].ticket.station
         /\ disks[d].phase = "absent" => Place(disks[d]) = "unread"
         /\ disks[d].phase = "await_gw" => Place(disks[d]) = "queue"
         /\ disks[d].phase \in {"complete", "partial"} => Place(disks[d]) = "done"
  BY DEF Place, Held

\* A station that holds no label is free.
LEMMA FreeStation ==
  ASSUME CoordinatorInv, NEW s \in Stations, HeldBy(s) = {}, NEW d \in Labels
  PROVE  Place(disks[d]) # s
<1>1. disks[d].phase \in Phases
  BY DEF CoordinatorInv, TypeOK, Disks
<1>2. CASE Held(d)
  BY <1>2, PlaceOf DEF HeldBy
<1>3. CASE ~Held(d)
  BY <1>1, <1>3, PlaceOf DEF Held, Phases
<1> QED
  BY <1>2, <1>3

LEMMA SameSeals ==
  ASSUME NEW k, NEW l, l.usb = k.usb, l.gw = k.gw
  PROVE  Sealed(l) = Sealed(k)
  BY DEF Sealed

LEMMA CustodyStutters ==
  ASSUME \A d \in Labels : Place(disks'[d]) = Place(disks[d]) /\ Sealed(disks'[d]) = Sealed(disks[d])
  PROVE  places' = places /\ seals' = seals
  BY DEF places, seals

\* One label changes its place, and no receipt is sealed.
LEMMA CustodyMoves ==
  ASSUME NEW d \in Labels, NEW p, Place(disks'[d]) = p,
         \A e \in Labels \ {d} : Place(disks'[e]) = Place(disks[e]),
         \A e \in Labels : Sealed(disks'[e]) = Sealed(disks[e])
  PROVE  places' = [places EXCEPT ![d] = p] /\ seals' = seals
  BY DEF places, seals

LEMMA CustodyFeeds ==
  ASSUME NEW d \in Labels, NEW s \in Stations, places[d] = "unread", \A e \in Labels : places[e] # s,
         places' = [places EXCEPT ![d] = s], seals' = seals
  PROVE  Abstract!CustodyNext
  BY DEF Abstract!CustodyNext, Abstract!Feed, Abstract!Free, Abstract!Stations, places, seals
LEMMA CustodyLeaves ==
  ASSUME NEW d \in Labels, NEW p, places' = [places EXCEPT ![d] = p], seals' = seals,
         \/ p = "queue" /\ places[d] = "usb" /\ seals[d] = {"usb"}
         \/ p = "queue" /\ places[d] = "gw" /\ seals[d] = {"usb"}
         \/ p = "gw" /\ places[d] = "queue" /\ \A e \in Labels : places[e] # "gw"
         \/ p = "done" /\ \E s \in Stations : places[d] = s /\ s \in seals[d]
  PROVE  Abstract!CustodyNext
  BY DEF Abstract!CustodyNext, Abstract!SetAside, Abstract!Release, Abstract!Transfer, Abstract!Finish,
         Abstract!Free, Abstract!Stations, places, seals

LEMMA CustodySwaps ==
  ASSUME NEW d \in Labels, NEW offer \in Labels, places[offer] = "gw", seals[offer] = {}, places[d] = "queue",
         places' = [places EXCEPT ![offer] = "unread", ![d] = "gw"], seals' = seals
  PROVE  Abstract!CustodyNext
  BY DEF Abstract!CustodyNext, Abstract!Swap, places, seals

LEMMA CustodySeals ==
  ASSUME NEW d \in Labels, NEW s \in Stations, places[d] = s, s \notin seals[d],
         seals' = [seals EXCEPT ![d] = @ \cup {s}], places' = places
  PROVE  Abstract!CustodyNext
  BY DEF Abstract!CustodyNext, Abstract!Seal, Abstract!Stations, places, seals

LEMMA PlaceNext ==
  ASSUME NEW d \in Labels
  PROVE  /\ disks'[d].phase \in {"reserved", "reading", "interrupted", "saved"} =>
              Place(disks'[d]) = disks'[d].ticket.station
         /\ disks'[d].phase = "absent" => Place(disks'[d]) = "unread"
         /\ disks'[d].phase = "await_gw" => Place(disks'[d]) = "queue"
         /\ disks'[d].phase \in {"complete", "partial"} => Place(disks'[d]) = "done"
  BY DEF Place

LEMMA SealedOf ==
  \A k : /\ "usb" \in Sealed(k) <=> Has(k.usb)
         /\ "gw" \in Sealed(k) <=> Has(k.gw)
         /\ Sealed(k) \subseteq {"usb", "gw"}
  BY DEF Sealed

LEMMA ClaimCustody ==
  ASSUME CoordinatorInv, NEW d \in Labels, NEW s \in Stations,
         ClaimRetry(s, d) \/ ClaimFresh(s, d) \/ (s = "gw" /\ ClaimRecovery(d))
  PROVE  Abstract!CustodyNext \/ (places' = places /\ seals' = seals)
<1>d. disks \in [Labels -> Disks]
  BY DEF CoordinatorInv, TypeOK
<1>1. PICK work, retry : disks' = Reserve(d, Issue(d, s, work, retry))
  BY DEF ClaimRetry, ClaimFresh, ClaimRecovery
<1>2. /\ disks'[d].phase = "reserved" /\ disks'[d].ticket.station = s
      /\ disks'[d].usb = disks[d].usb /\ disks'[d].gw = disks[d].gw
      /\ \A e \in Labels \ {d} : disks'[e] = disks[e]
  BY <1>d, <1>1 DEF Reserve, Issue, Disks
<1>3. Place(disks'[d]) = s
  BY <1>2, PlaceNext
<1>4. \A e \in Labels : Sealed(disks'[e]) = Sealed(disks[e])
  BY <1>2, SameSeals
<1>5. places' = [places EXCEPT ![d] = s] /\ seals' = seals
  BY <1>2, <1>3, <1>4, CustodyMoves
<1>6. CASE ClaimRetry(s, d)
  <2>1. Place(disks[d]) = s
    BY <1>6, PlaceOf DEF ClaimRetry, HeldBy
  <2> QED
    BY <1>2, <1>3, <1>4, <2>1, CustodyStutters
<1>7. CASE ClaimFresh(s, d)
  <2>1. disks[d].phase = "absent" /\ HeldBy(s) = {}
    BY <1>7 DEF ClaimFresh, IsNextFresh, Unreserved
  <2>2. places[d] = "unread" /\ \A e \in Labels : places[e] # s
    BY <2>1, PlaceOf, FreeStation DEF places
  <2> QED
    BY <1>5, <2>2, CustodyFeeds
<1>8. CASE s = "gw" /\ ClaimRecovery(d)
  <2>1. disks[d].phase = "await_gw" /\ HeldBy("gw") = {}
    BY <1>8 DEF ClaimRecovery
  <2>2. places[d] = "queue" /\ \A e \in Labels : places[e] # "gw"
    BY <2>1, PlaceOf, FreeStation DEF places
  <2> QED
    BY <1>5, <1>8, <2>2, CustodyLeaves
<1> QED
  BY <1>6, <1>7, <1>8

LEMMA SwapCustody ==
  ASSUME CoordinatorInv, NEW d \in Labels, NEW offer \in Labels, SelectQueuedInstead(offer, d)
  PROVE  Abstract!CustodyNext
<1>d. disks \in [Labels -> Disks]
  BY DEF CoordinatorInv, TypeOK
<1>1. /\ Held(offer) /\ disks[offer].ticket.station = "gw" /\ disks[offer].ticket.work = "fresh"
      /\ disks[offer].phase = "reserved" /\ disks[d].phase = "await_gw" /\ offer # d
  BY DEF SelectQueuedInstead, Held
<1>2. /\ disks'[d].phase = "reserved" /\ disks'[d].ticket.station = "gw"
      /\ disks'[d].usb = disks[d].usb /\ disks'[d].gw = disks[d].gw
      /\ disks'[offer] = AbsentDisk
      /\ \A e \in Labels \ {d, offer} : disks'[e] = disks[e]
  BY <1>d, <1>1 DEF SelectQueuedInstead, Reserve, Issue, Disks
<1>3. ~Has(disks[offer].usb) /\ ~Has(disks[offer].gw)
  BY <1>1, ReceiptsFree
<1>4. Sealed(disks[offer]) = {} /\ Sealed(disks'[offer]) = {}
  <2>1. ~Has(disks'[offer].usb) /\ ~Has(disks'[offer].gw)
    BY <1>2 DEF AbsentDisk, NoReceipt, Has
  <2> QED
    BY <1>3, <2>1 DEF Sealed
<1>5. Place(disks'[d]) = "gw" /\ Place(disks'[offer]) = "unread"
  BY <1>2, PlaceNext DEF AbsentDisk
<1>6. \A e \in Labels : Sealed(disks'[e]) = Sealed(disks[e])
  BY <1>2, <1>4, SameSeals
<1>7. places' = [places EXCEPT ![offer] = "unread", ![d] = "gw"] /\ seals' = seals
  BY <1>1, <1>2, <1>5, <1>6 DEF places, seals
<1>8. places[offer] = "gw" /\ seals[offer] = {} /\ places[d] = "queue"
  BY <1>1, <1>4, PlaceOf DEF places, seals
<1> QED
  BY <1>7, <1>8, CustodySwaps

LEMMA RemovedCustody ==
  ASSUME CoordinatorInv, NEW d \in Labels, NEW s \in Stations, Removed(s, d)
  PROVE  Abstract!CustodyNext
<1>d. disks \in [Labels -> Disks]
  BY DEF CoordinatorInv, TypeOK
<1>1. Held(d) /\ disks[d].ticket.station = s /\ disks[d].phase = "saved"
  BY DEF Removed, HeldBy
<1>2. PICK p \in {"await_gw", "complete", "partial"} :
        /\ disks' = [disks EXCEPT ![d] = [@ EXCEPT !.phase = p, !.ticket = NoTicket]]
        /\ p = "await_gw" => s = "usb" /\ disks[d].usb.bad # "none"
  BY DEF Removed
<1>3. /\ disks'[d].phase = p /\ disks'[d].usb = disks[d].usb /\ disks'[d].gw = disks[d].gw
      /\ \A e \in Labels \ {d} : disks'[e] = disks[e]
  BY <1>d, <1>2 DEF Disks
<1>4. TicketValid(d) /\ disks[d].ticket.work \in {"fresh", "recovery"}
  BY <1>1, HeldTicket DEF Tickets
<1>5. \A e \in Labels : Sealed(disks'[e]) = Sealed(disks[e])
  BY <1>3, SameSeals
<1>6. places[d] = s
  BY <1>1, PlaceOf DEF places
<1>7. CASE p = "await_gw"
  <2>1. Has(disks[d].usb) /\ ~Has(disks[d].gw)
    BY <1>1, <1>2, <1>4, <1>7 DEF TicketValid
  <2>2. seals[d] = {"usb"}
    BY <2>1 DEF seals, Sealed
  <2>3. Place(disks'[d]) = "queue"
    BY <1>3, <1>7, PlaceNext
  <2>4. places' = [places EXCEPT ![d] = "queue"] /\ seals' = seals
    BY <1>3, <1>5, <2>3, CustodyMoves
  <2> QED
    BY <1>2, <1>6, <1>7, <2>2, <2>4, CustodyLeaves
<1>8. CASE p # "await_gw"
  <2>1. s \in seals[d]
    BY <1>1, <1>4, SealedOf DEF TicketValid, seals
  <2>2. Place(disks'[d]) = "done"
    BY <1>3, <1>8, PlaceNext
  <2>3. places' = [places EXCEPT ![d] = "done"] /\ seals' = seals
    BY <1>3, <1>5, <2>2, CustodyMoves
  <2> QED
    BY <1>6, <2>1, <2>3, CustodyLeaves
<1> QED
  BY <1>7, <1>8

LEMMA ReleaseCustody ==
  ASSUME CoordinatorInv, NEW d \in Labels, ReleaseCommit(d)
  PROVE  Abstract!CustodyNext
<1>d. disks \in [Labels -> Disks]
  BY DEF CoordinatorInv, TypeOK
<1>1. /\ Held(d) /\ disks[d].ticket.station = "gw" /\ disks[d].phase = "interrupted"
      /\ disks[d].ticket.work = "recovery"
  BY DEF ReleaseCommit, Disputed, HeldBy
<1>2. /\ disks'[d].phase = "await_gw" /\ disks'[d].usb = disks[d].usb /\ disks'[d].gw = disks[d].gw
      /\ \A e \in Labels \ {d} : disks'[e] = disks[e]
  BY <1>d DEF ReleaseCommit, Disks
<1>3. Has(disks[d].usb) /\ ~Has(disks[d].gw)
  BY <1>1, ReceiptsFree
<1>4. places[d] = "gw" /\ seals[d] = {"usb"}
  BY <1>1, <1>3, PlaceOf DEF places, seals, Sealed
<1>5. Place(disks'[d]) = "queue" /\ \A e \in Labels : Sealed(disks'[e]) = Sealed(disks[e])
  BY <1>2, PlaceNext, SameSeals
<1>6. places' = [places EXCEPT ![d] = "queue"] /\ seals' = seals
  BY <1>2, <1>5, CustodyMoves
<1> QED
  BY <1>4, <1>6, CustodyLeaves
LEMMA CompleteCustody ==
  ASSUME CoordinatorInv, NEW s \in Stations, Complete(s)
  PROVE  Abstract!CustodyNext
<1>d. disks \in [Labels -> Disks]
  BY DEF CoordinatorInv, TypeOK
<1>1. PICK d : d = reader[s].ticket.disk
  OBVIOUS
<1>2. PICK r : r = images[d][reader[s].attempt]
  OBVIOUS
<1>3. /\ d \in Labels /\ Held(d) /\ disks[d].phase = "reading"
      /\ disks[d].ticket.station = s /\ disks[d].ticket.work \in {"fresh", "recovery"}
  BY <1>1, BusyReader, ZenonT(60) DEF Complete, Tickets
<1>4. ~Has(disks[d].gw) /\ (s = "usb" => ~Has(disks[d].usb))
  BY <1>3, ReceiptsFree
<1>5. Has(r)
  <2>1. reader[s].attempt \in 1 .. Len(images[d])
    BY <1>1 DEF Complete, CoordinatorInv, ReaderServesTicket
  <2>2. r \in Receipts
    BY <1>2, <1>3, <2>1, ElementOfSeq DEF CoordinatorInv, TypeOK
  <2> QED
    BY <2>2 DEF Receipts, Has
<1>6. /\ disks'[d].phase = "saved" /\ disks'[d].ticket = disks[d].ticket
      /\ s = "usb" => disks'[d].usb = r /\ disks'[d].gw = disks[d].gw
      /\ s = "gw" => disks'[d].gw = r /\ disks'[d].usb = disks[d].usb
      /\ \A e \in Labels \ {d} : disks'[e] = disks[e]
  <2>1. CASE s = "usb"
    <3>1. disks' = [disks EXCEPT ![d] = [@ EXCEPT !.phase = "saved", !.usb = r,
                                                  !.triage = reader[s].ticket.generation]]
      BY <1>1, <1>2, <2>1 DEF Complete
    <3> QED
      BY <1>d, <1>3, <2>1, <3>1, SMTT(30) DEF Disks
  <2>2. CASE s = "gw"
    <3>1. disks' = [disks EXCEPT ![d] = [@ EXCEPT !.phase = "saved", !.gw = r]]
      BY <1>1, <1>2, <2>2 DEF Complete
    <3> QED
      BY <1>d, <1>3, <2>2, <3>1 DEF Disks
  <2> QED
    BY <2>1, <2>2
<1>7. Place(disks'[d]) = s /\ places[d] = s
  BY <1>3, <1>6, PlaceNext, PlaceOf DEF places
<1>8. Sealed(disks'[d]) = Sealed(disks[d]) \cup {s} /\ s \notin Sealed(disks[d])
  BY <1>4, <1>5, <1>6 DEF Sealed
<1>9. places' = places
  BY <1>3, <1>6, <1>7 DEF places
<1>10. seals' = [seals EXCEPT ![d] = @ \cup {s}] /\ s \notin seals[d]
  BY <1>3, <1>6, <1>8 DEF seals
<1> QED
  BY <1>3, <1>7, <1>9, <1>10, CustodySeals, Zenon

\* A step that keeps the labels' tickets and receipts and no station's custody.
LEMMA QuietCustody ==
  ASSUME CoordinatorInv,
         \A d \in Labels : \/ disks'[d] = disks[d]
                           \/ /\ Held(d)
                              /\ disks'[d].phase \in {"reserved", "reading", "interrupted", "saved"}
                              /\ disks'[d].ticket = disks[d].ticket
                              /\ disks'[d].usb = disks[d].usb /\ disks'[d].gw = disks[d].gw
  PROVE  places' = places /\ seals' = seals
<1>1. ASSUME NEW d \in Labels
      PROVE  Place(disks'[d]) = Place(disks[d]) /\ Sealed(disks'[d]) = Sealed(disks[d])
  <2>1. CASE disks'[d] = disks[d]
    BY <2>1
  <2>2. CASE disks'[d] # disks[d]
    BY <2>2, PlaceOf, PlaceNext, SameSeals
  <2> QED
    BY <2>1, <2>2
<1> QED
  BY <1>1, CustodyStutters

\* Every step of the coordinator is a step of custody, or leaves it as it is.
LEMMA CustodyImplemented ==
  ASSUME CoordinatorInv, [Next]_vars
  PROVE  Abstract!CustodyNext \/ (places' = places /\ seals' = seals)
<1>d. disks \in [Labels -> Disks]
  BY DEF CoordinatorInv, TypeOK
<1>1. CASE UNCHANGED disks
  BY <1>1, QuietCustody
<1>2. ASSUME NEW d \in Labels, NEW s \in Stations, Confirm(s, d)
      PROVE  places' = places /\ seals' = seals
  <2>1. \A e \in Labels : \/ disks'[e] = disks[e]
                          \/ /\ Held(e) /\ disks'[e].phase = "reading"
                             /\ disks'[e].ticket = disks[e].ticket
                             /\ disks'[e].usb = disks[e].usb /\ disks'[e].gw = disks[e].gw
    BY <1>2, <1>d DEF Confirm, HeldBy, Disks
  <2> QED
    BY <2>1, QuietCustody
<1>3. ASSUME NEW s \in Stations, Failed(s) PROVE places' = places /\ seals' = seals
  <2>1. PICK d : d = reader[s].ticket.disk
    BY SMTT(30)
  <2>2. d \in Labels /\ Held(d)
    BY <1>3, <2>1, BusyReader, SMTT(30) DEF Failed
  <2>3. PICK e : disks' = [disks EXCEPT ![d] = [@ EXCEPT !.phase = "interrupted", !.error = e]]
    BY <1>3, <2>1, Zenon DEF Failed
  <2>4. \A l \in Labels : \/ disks'[l] = disks[l]
                          \/ /\ Held(l) /\ disks'[l].phase = "interrupted"
                             /\ disks'[l].ticket = disks[l].ticket
                             /\ disks'[l].usb = disks[l].usb /\ disks'[l].gw = disks[l].gw
    BY <2>2, <2>3, <1>d DEF Disks
  <2> QED
    BY <2>4, QuietCustody
<1>4. ASSUME Open PROVE places' = places /\ seals' = seals
  <2>1. \A e \in Labels : \/ disks'[e] = disks[e]
                          \/ /\ Held(e) /\ disks'[e].phase = "interrupted"
                             /\ disks'[e].ticket = disks[e].ticket
                             /\ disks'[e].usb = disks[e].usb /\ disks'[e].gw = disks[e].gw
    BY <1>4, <1>d DEF Open, Reopened, Held, Disks
  <2> QED
    BY <2>1, QuietCustody
<1>5. CASE Operate
  <2>1. ASSUME NEW d \in Labels, NEW s \in Stations, ClaimRetry(s, d) \/ ClaimFresh(s, d)
        PROVE  Abstract!CustodyNext \/ (places' = places /\ seals' = seals)
    BY <2>1, ClaimCustody
  <2>2. ASSUME NEW d \in Labels, ClaimRecovery(d)
        PROVE  Abstract!CustodyNext \/ (places' = places /\ seals' = seals)
    BY <2>2, ClaimCustody
  <2>3. ASSUME NEW d \in Labels, ReleaseArchive(d) \/ ReleaseReset(d) \/ ConfirmSameDisk(d) PROVE UNCHANGED disks
    BY <2>3 DEF ReleaseArchive, ReleaseReset, ConfirmSameDisk, journal
  <2>4. CASE ReleaseFails \/ \E p \in BOOLEAN : SetPaused(p)
    BY <1>1, <2>4 DEF ReleaseFails, SetPaused, journal
  <2> QED
    BY <1>5, <1>1, <1>2, <1>3, <2>1, <2>2, <2>3, <2>4, SwapCustody, RemovedCustody, ReleaseCustody,
       CompleteCustody DEF Operate
<1>6. CASE UsbRead \/ GwRead
  <2>1. UNCHANGED disks
    BY <1>6 DEF UsbRead, GwRead, UsbAdopt, UsbAcquire, ReadFails, GwRefuse, GwFormatException,
       GwReject, GwAccept, GwPublish, GwSeal, GwReuse, GwCapture, journal
  <2> QED
    BY <1>1, <2>1
<1>7. CASE Restart
  BY <1>1, <1>4, <1>7 DEF Restart, Exit, AcquireElsewhere, journal
<1> QED
  BY <1>1, <1>5, <1>6, <1>7 DEF Next, vars, journal

LEMMA CustodyBegins == Init => Abstract!CustodyInit
<1> SUFFICES ASSUME Init PROVE Abstract!CustodyInit
  OBVIOUS
<1>1. \A d \in Labels : disks[d].phase = "absent" /\ ~Has(disks[d].usb) /\ ~Has(disks[d].gw)
  BY DEF Init, AbsentDisk, NoReceipt, Has
<1>2. \A d \in Labels : Place(disks[d]) = "unread"
  BY <1>1 DEF Place
<1>3. \A d \in Labels : Sealed(disks[d]) = {}
  BY <1>1 DEF Sealed
<1> QED
  BY <1>2, <1>3 DEF Abstract!CustodyInit

\* The coordinator keeps the custody of every label as module Custody promises it: one
\* label at a station, nothing leaves it unsealed but a released identity or an unread
\* offer, and a finished label never comes back; tickets, files and restarts hidden.
THEOREM CoordinatorImplementsCustody == Spec => ImplementsCustody
<1>1. CoordinatorInv /\ [Next]_vars =>
        [Abstract!CustodyNext]_<<[d \in Labels |-> Place(disks[d])], [d \in Labels |-> Sealed(disks[d])]>>
  BY CustodyImplemented DEF places, seals
<1> QED
  BY <1>1, CustodyBegins, CoordinatorInvariant, PTL DEF Spec, ImplementsCustody, Abstract!CustodySpec

-----------------------------------------------------------------------------
(* A dual-scan session.  Every step of the feed, its workers and its input *)
(* thread is a step of Production or changes nothing of it, so what was    *)
(* proved above holds of every session, for every channel capacity.        *)

\* A command that reached the coordinator names a station and a label of the range.
PumpInv ==
  pump.pc \in Steps => pump.station \in Stations /\ pump.disk \in Labels

\* A read line sets the target of the steps that follow it; they only pass it on.
LEMMA PumpInvariant == DualSpec => []PumpInv
<1>1. DualInit => PumpInv
  BY DEF DualInit, PumpInv, Off, Steps
<1>2. PumpInv /\ [DualNext]_dualVars => PumpInv'
  <2> SUFFICES ASSUME PumpInv, [DualNext]_dualVars PROVE PumpInv'
    OBVIOUS
  <2> USE DEF PumpInv, Steps
  <2>1. CASE UNCHANGED pump
    BY <2>1
  <2>2. CASE pump'.pc \notin Steps
    BY <2>2
  <2>3. CASE \E s \in Stations, d \in Labels : ReadLine(s, d)
    <3>1. PICK s \in Stations, d \in Labels : ReadLine(s, d)
      BY <2>3
    <3>2. pump'.station = s /\ pump'.disk = d
      BY <3>1 DEF ReadLine, At
    <3> QED
      BY <3>2
  <2>4. CASE BeginRemove \/ BeginTransfer \/ BeginClaim
    <3>1. pump'.station = pump.station /\ pump'.disk = pump.disk /\ pump.pc \in Steps
      BY <2>4 DEF BeginRemove, BeginTransfer, BeginClaim, At
    <3> QED
      BY <3>1
  <2>5. CASE UNCHANGED dualVars
    BY <2>5 DEF dualVars, session
  <2>6. CASE Lines /\ ~\E s \in Stations, d \in Labels : ReadLine(s, d)
    <3>1. pump'.pc \in {"loop", "release"}
      BY <2>6 DEF Lines, Quit, Refused, Pausing, InputEnds, InputIgnored, StopLine, Out,
         ConfirmSame, ReleaseLine, NextEvent, Goto, At, Off
    <3> QED
      BY <3>1
  <2>7. CASE Pump /\ ~Lines /\ ~BeginRemove /\ ~BeginTransfer /\ ~BeginClaim /\ ~UNCHANGED pump
    <3>1. pump'.pc \notin Steps
      BY <2>7 DEF Pump, Replay, LoopTop, Timeout, Releasing, Begin, BeginConfirm, BeginFails,
         Spawn, Enqueue, Dropped, Done, NextEvent, Goto, At, Off
    <3> QED
      BY <3>1
  <2>8. CASE DualNext /\ ~Pump
    <3>1. pump'.pc \notin Steps \/ UNCHANGED pump
      BY <2>8 DEF DualNext, StartSession, EndSession, AbortFeed, Read, Deliver, TypeLine,
         CloseInput, TypeStop, RequestStop, session, Goto, Off
    <3> QED
      BY <3>1, <2>1, <2>2
  <2> QED
    BY <2>1, <2>2, <2>3, <2>4, <2>5, <2>6, <2>7, <2>8
<1> QED
  BY <1>1, <1>2, PTL DEF DualSpec

\* A session begins with an empty project.
LEMMA DualInitImplements == DualInit => Init
  BY DEF DualInit

\* Every step of the session is a coordinator's step or leaves it alone.
LEMMA DualStepImplements == PumpInv /\ [DualNext]_dualVars => [Next]_vars
<1> SUFFICES ASSUME PumpInv, [DualNext]_dualVars PROVE Next \/ UNCHANGED vars
  OBVIOUS
<1>1. CASE StartSession
  BY <1>1 DEF StartSession, Next, Restart
<1>2. CASE EndSession
  BY <1>2 DEF EndSession, Next, Restart
<1>3. CASE Pump
  <2>1. CASE Lines
    BY <2>1, Zenon DEF Lines, Quit, Refused, Pausing, InputEnds, InputIgnored, StopLine, Out,
       ReadLine, ConfirmSame, ReleaseLine, Next, Operate, Line
  <2>2. CASE Releasing
    BY <2>2, Zenon DEF Releasing, Next, Operate, ReleaseReset, ReleaseCommit, Disputed, HeldBy
  <2>3. CASE Begin
    <3>1. CASE BeginFails
      BY <3>1 DEF BeginFails
    <3>2. CASE BeginRemove \/ BeginTransfer \/ BeginClaim \/ BeginConfirm
      <4>1. pump.station \in Stations /\ pump.disk \in Labels
        BY <3>2 DEF BeginRemove, BeginTransfer, BeginClaim, BeginConfirm, PumpInv, Steps
      <4>2. "usb" \in Stations
        BY DEF Stations
      <4> QED
        BY <3>2, <4>1, <4>2
           DEF BeginRemove, BeginTransfer, BeginClaim, BeginConfirm, Next, Operate
    <3> QED
      BY <2>3, <3>1, <3>2 DEF Begin
  <2>4. CASE \E s \in Stations : Done(s)
    BY <2>4 DEF Done, Next, Operate
  <2>5. CASE UNCHANGED vars
    BY <2>5
  <2> QED
    BY <1>3, <2>1, <2>2, <2>3, <2>4, <2>5
       DEF Pump, Replay, LoopTop, Timeout, Spawn, Enqueue, Dropped
<1>4. CASE AbortFeed
  BY <1>4 DEF AbortFeed
<1>5. CASE \E s \in Stations : Read(s)
  BY <1>5 DEF Read, Next
<1>6. CASE \E s \in Stations : Deliver(s)
  BY <1>6 DEF Deliver
<1>7. CASE TypeLine \/ CloseInput \/ TypeStop \/ RequestStop
  BY <1>7 DEF TypeLine, CloseInput, TypeStop, RequestStop
<1>8. CASE \E d \in Labels, f \in Floppies : AcquireElsewhere(d, f) /\ UNCHANGED session
  BY <1>8 DEF Next, Restart
<1>9. CASE UNCHANGED dualVars
  BY <1>9 DEF dualVars
<1> QED
  BY <1>1, <1>2, <1>3, <1>4, <1>5, <1>6, <1>7, <1>8, <1>9 DEF DualNext

\* A dual-scan session implements the coordinator.
THEOREM SessionImplementsCoordinator == DualSpec => Spec
  BY DualInitImplements, DualStepImplements, PumpInvariant, PTL DEF DualSpec, Spec

-----------------------------------------------------------------------------
(* The inductive invariant of a session. *)

\* A label under the ticket of station s is being read.
ReadingAt(s) == \E d \in Labels : disks[d].phase = "reading" /\ disks[d].ticket.station = s

\* The session owns the project from its first to its last step.
FeedTypes ==
  /\ pump.pc \in {"off", "replay", "dropping", "files"} \cup Feeding
  /\ pump.pc \in Steps \cup {"spawn", "enqueue"} => pump.station \in Stations /\ pump.disk \in Labels
  /\ thread \in [Stations -> {"none", "read", "exited"}]
  /\ pump.pc # "off" => owner

\* Workers and labels being read, in every state of the pump.
WorkersKept ==
  /\ pump.pc \in {"off", "replay"} => \A s \in Stations : thread[s] = "none"
  /\ pump.pc = "replay" => \A s \in Stations : ~ReadingAt(s)
  /\ pump.pc \in Feeding =>
       \A s \in Stations :
         ReadingAt(s) <=> thread[s] # "none" \/ (pump.pc = "spawn" /\ s = pump.station)
  /\ pump.pc = "files" => \A s \in Stations : thread[s] # "read"

\* What the steps of begin have checked of the line they carry out.
BeginKept ==
  /\ pump.pc = "remove" =>
       /\ ~paused /\ TargetValid(pump.station, pump.disk)
       /\ \E h \in HeldBy(pump.station) : disks[h].phase = "saved"
  /\ pump.pc = "transfer" =>
       ~paused /\ pump.station = "gw" /\ HeldBy("gw") = {} /\ UsbSaved(pump.disk)
  /\ BeginCommits

\* The attempts that are queued, reported or about to be.
Receipt(s, d) == IF s = "usb" THEN disks[d].usb ELSE disks[d].gw
QueueKept ==
  pump.pc \in Feeding =>
    SavedAttempts \subseteq queued \cup reported \cup
      (IF pump.pc = "enqueue" THEN {<<pump.disk, Receipt(pump.station, pump.disk).attempt>>} ELSE {})

FeedInv == FeedTypes /\ WorkersKept /\ BeginKept /\ QueueKept

-----------------------------------------------------------------------------
(* What the coordinator's operations leave alone. *)

SameReading == \A s \in Stations : ReadingAt(s)' <=> ReadingAt(s)
SameSaved == SavedAttempts' = SavedAttempts
Quiet == SameReading /\ SameSaved /\ owner' = owner

LEMMA SavedOf ==
  \A x : x \in SavedAttempts <=>
    \E d \in Labels : \E q \in {disks[d].usb, disks[d].gw} : Has(q) /\ x = <<d, q.attempt>>
BY DEF SavedAttempts

LEMMA SavedNext ==
  \A x : x \in SavedAttempts' <=>
    \E d \in Labels : \E q \in {disks'[d].usb, disks'[d].gw} : Has(q) /\ x = <<d, q.attempt>>
BY DEF SavedAttempts, Has

LEMMA SameReceipts ==
  ASSUME \A e \in Labels : disks'[e].usb = disks[e].usb /\ disks'[e].gw = disks[e].gw
  PROVE  SameSaved
BY SavedOf, SavedNext DEF SameSaved

LEMMA QuietJournal ==
  ASSUME UNCHANGED <<owner, disks>>
  PROVE  Quiet
BY DEF Quiet, SameReading, SameSaved, ReadingAt, SavedAttempts, Has

\* A label that is not being read moves on and keeps its receipts.
LEMMA QuietLabel ==
  ASSUME NEW d \in Labels, owner' = owner, disks[d].phase # "reading", disks'[d].phase # "reading",
         disks'[d].usb = disks[d].usb, disks'[d].gw = disks[d].gw,
         \A e \in Labels \ {d} : disks'[e] = disks[e]
  PROVE  Quiet
<1>1. SameReading
  BY DEF SameReading, ReadingAt
<1>2. \A e \in Labels : disks'[e].usb = disks[e].usb /\ disks'[e].gw = disks[e].gw
  OBVIOUS
<1>3. SameSaved
  BY <1>2, SameReceipts
<1> QED
  BY <1>1, <1>3 DEF Quiet

LEMMA ClaimMoves ==
  ASSUME CoordinatorInv, NEW d \in Labels, NEW s \in Stations,
         ClaimRetry(s, d) \/ ClaimFresh(s, d) \/ ClaimRecovery(d)
  PROVE  Quiet
<1>1. disks \in [Labels -> Disks] /\ owner' = owner
  BY DEF CoordinatorInv, TypeOK, ClaimRetry, ClaimFresh, ClaimRecovery
<1>2. PICK t : disks' = Reserve(d, t)
  BY DEF ClaimRetry, ClaimFresh, ClaimRecovery
<1>3. disks[d].phase # "reading"
  BY DEF ClaimRetry, ClaimFresh, ClaimRecovery, IsNextFresh, Unreserved
<1>4. /\ disks'[d].phase = "reserved" /\ disks'[d].usb = disks[d].usb /\ disks'[d].gw = disks[d].gw
      /\ \A e \in Labels \ {d} : disks'[e] = disks[e]
  BY <1>1, <1>2 DEF Reserve, Disks
<1> QED
  BY <1>1, <1>3, <1>4, QuietLabel

LEMMA RemovedMoves ==
  ASSUME CoordinatorInv, NEW d \in Labels, NEW s \in Stations, Removed(s, d)
  PROVE  /\ Quiet /\ HeldBy(s)' = {} /\ paused' = paused /\ occupied' = occupied
         /\ disks[d].phase = "saved" /\ disks[d].ticket.station = s
         /\ disks'[d].phase \in {"await_gw", "complete", "partial"}
         /\ s = "usb" /\ disks[d].usb.bad # "none" => disks'[d].phase = "await_gw"
         /\ \A e \in Labels \ {d} : disks'[e] = disks[e]
<1>1. /\ disks \in [Labels -> Disks] /\ owner' = owner /\ paused' = paused /\ occupied' = occupied
      /\ disks[d].phase = "saved" /\ disks[d].ticket.station = s /\ Held(d)
  BY DEF CoordinatorInv, TypeOK, Removed, HeldBy
<1>2. PICK p \in {"await_gw", "complete", "partial"} :
        /\ disks' = [disks EXCEPT ![d] = [@ EXCEPT !.phase = p, !.ticket = NoTicket]]
        /\ s = "usb" /\ disks[d].usb.bad # "none" => p = "await_gw"
  BY DEF Removed
<1>3. /\ disks'[d].phase = p /\ disks'[d].usb = disks[d].usb /\ disks'[d].gw = disks[d].gw
      /\ \A e \in Labels \ {d} : disks'[e] = disks[e]
  BY <1>1, <1>2 DEF Disks
<1>4. Quiet
  BY <1>1, <1>3, QuietLabel
<1>5. HeldBy(s)' = {}
  <2> SUFFICES ASSUME NEW e \in Labels, Held(e)', disks'[e].ticket.station = s PROVE FALSE
    BY DEF HeldBy
  <2>1. e # d
    BY <1>3 DEF Held
  <2>2. Held(e) /\ disks[e].ticket.station = s
    BY <1>3, <2>1 DEF Held
  <2> QED
    BY <1>1, <2>1, <2>2 DEF CoordinatorInv, JournalValid, Apart
<1> QED
  BY <1>1, <1>2, <1>3, <1>4, <1>5

LEMMA ReleaseMoves ==
  ASSUME CoordinatorInv, NEW d \in Labels, ReleaseCommit(d)
  PROVE  Quiet
<1>1. disks \in [Labels -> Disks] /\ owner' = owner /\ disks[d].phase = "interrupted"
  BY DEF CoordinatorInv, TypeOK, ReleaseCommit, Disputed
<1>2. /\ disks'[d].phase = "await_gw" /\ disks'[d].usb = disks[d].usb /\ disks'[d].gw = disks[d].gw
      /\ \A e \in Labels \ {d} : disks'[e] = disks[e]
  BY <1>1 DEF ReleaseCommit, Disks
<1> QED
  BY <1>1, <1>2, QuietLabel

\* The answer of a reader ends the read of its station, and of no other.
LEMMA AnswerEnds ==
  ASSUME CoordinatorInv, NEW s \in Stations, Complete(s) \/ Failed(s)
  PROVE  LET d == reader[s].ticket.disk IN
         /\ d \in Labels /\ owner' = owner /\ ~ReadingAt(s)'
         /\ \A z \in Stations : z # s => (ReadingAt(z)' <=> ReadingAt(z))
         /\ \A e \in Labels \ {d} : disks'[e] = disks[e]
         /\ Failed(s) => SameSaved
         /\ Complete(s) /\ s = "usb" => disks'[d].gw = disks[d].gw
         /\ Complete(s) /\ s = "gw" => disks'[d].usb = disks[d].usb
<1> DEFINE d == reader[s].ticket.disk
<1>1. reader[s].pc \in {"ok", "err"} /\ owner' = owner
  BY DEF Complete, Failed
<1>2. /\ d \in Labels /\ Held(d) /\ disks[d].ticket = reader[s].ticket /\ disks[d].ticket.station = s
      /\ disks[d].phase = "reading"
  BY <1>1, BusyReader
<1>3. disks \in [Labels -> Disks]
  BY DEF CoordinatorInv, TypeOK
<1>4. /\ disks'[d].phase \in {"saved", "interrupted"} /\ disks'[d].ticket = disks[d].ticket
      /\ \A e \in Labels \ {d} : disks'[e] = disks[e]
      /\ Failed(s) => disks'[d].usb = disks[d].usb /\ disks'[d].gw = disks[d].gw
      /\ Complete(s) /\ s = "usb" => disks'[d].gw = disks[d].gw
      /\ Complete(s) /\ s = "gw" => disks'[d].usb = disks[d].usb
  <2>f. Failed(s) => \E e : disks' = [disks EXCEPT ![d] = [@ EXCEPT !.phase = "interrupted", !.error = e]]
    BY Zenon DEF Failed
  <2>1. CASE Complete(s) /\ s = "usb"
    <3>1. PICK r, g : disks' = [disks EXCEPT ![d] = [@ EXCEPT !.phase = "saved", !.usb = r, !.triage = g]]
      BY <2>1 DEF Complete
    <3>2. ~Failed(s)
      <4>1. disks'[d].phase = "saved"
        BY <1>2, <1>3, <3>1, SMTT(30) DEF Disks
      <4>2. Failed(s) => disks'[d].phase = "interrupted"
        BY <1>2, <1>3, <2>f, Zenon DEF Disks
      <4> QED
        BY <4>1, <4>2
    <3> QED
      BY <1>2, <1>3, <2>1, <3>1, <3>2, SMTT(30) DEF Disks
  <2>2. CASE Complete(s) /\ s = "gw"
    <3>1. PICK r : disks' = [disks EXCEPT ![d] = [@ EXCEPT !.phase = "saved", !.gw = r]]
      BY <2>2 DEF Complete
    <3>2. ~Failed(s)
      <4>1. disks'[d].phase = "saved"
        BY <1>2, <1>3, <3>1 DEF Disks
      <4>2. Failed(s) => disks'[d].phase = "interrupted"
        BY <1>2, <1>3, <2>f, Zenon DEF Disks
      <4> QED
        BY <4>1, <4>2
    <3> QED
      BY <1>2, <1>3, <2>2, <3>1, <3>2 DEF Disks
  <2>3. CASE Failed(s) /\ ~Complete(s)
    <3>1. PICK e : disks' = [disks EXCEPT ![d] = [@ EXCEPT !.phase = "interrupted", !.error = e]]
      BY <2>3, Zenon DEF Failed
    <3> QED
      BY <1>2, <1>3, <2>3, <3>1, SMTT(30) DEF Disks
  <2> QED
    BY <2>1, <2>2, <2>3 DEF Stations
<1>5. ~ReadingAt(s)'
  <2> SUFFICES ASSUME NEW e \in Labels, disks'[e].phase = "reading", disks'[e].ticket.station = s PROVE FALSE
    BY DEF ReadingAt
  <2>1. e # d
    BY <1>4
  <2>2. Held(e) /\ disks[e].ticket.station = s
    BY <1>4, <2>1 DEF Held
  <2> QED
    BY <1>2, <2>1, <2>2 DEF CoordinatorInv, JournalValid, Apart
<1>6. \A z \in Stations : z # s => (ReadingAt(z)' <=> ReadingAt(z))
  BY <1>2, <1>4 DEF ReadingAt
<1>7. Failed(s) => SameSaved
  <2> SUFFICES ASSUME Failed(s) PROVE SameSaved
    OBVIOUS
  <2>1. \A e \in Labels : disks'[e].usb = disks[e].usb /\ disks'[e].gw = disks[e].gw
    BY <1>4
  <2> QED
    BY <2>1, SameReceipts
<1> QED
  BY <1>1, <1>2, <1>4, <1>5, <1>6, <1>7

-----------------------------------------------------------------------------
(* Every step of a session preserves the invariant. *)

LEMMA FeedInit == DualInit => FeedInv
BY DEF DualInit, FeedInv, FeedTypes, WorkersKept, BeginKept, BeginCommits, QueueKept, Off, Feeding, Steps

\* The pump stays where it is, and no worker begins or ends.
LEMMA FeedFrame ==
  ASSUME FeedInv, UNCHANGED <<pump, disks, paused, occupied, queued, reported>>, owner => owner',
         thread' \in [Stations -> {"none", "read", "exited"}],
         \A s \in Stations : (thread'[s] # "none" <=> thread[s] # "none") /\ (thread'[s] = "read" => thread[s] = "read")
  PROVE  FeedInv'
<1>1. FeedTypes'
  BY DEF FeedInv, FeedTypes
<1>2. WorkersKept'
  BY DEF FeedInv, WorkersKept, ReadingAt
<1>3. BeginKept'
  BY DEF FeedInv, BeginKept, BeginCommits, TargetValid, UsbSaved, HeldBy, Held, IsNextFresh, Unreserved
<1>4. QueueKept'
  BY DEF FeedInv, QueueKept, SavedAttempts, Receipt, Has
<1> QED
  BY <1>1, <1>2, <1>3, <1>4 DEF FeedInv

\* The pump turns to the next event, or to the writes of a release.
LEMMA FeedLoop ==
  ASSUME FeedInv, Quiet, pump.pc \in Feeding \ {"spawn", "enqueue"}, pump'.pc \in {"loop", "recv", "release"},
         UNCHANGED <<thread, queued, reported>>
  PROVE  FeedInv'
<1> USE DEF Feeding, Steps
<1>1. FeedTypes'
  BY DEF FeedInv, FeedTypes, Quiet
<1>2. WorkersKept'
  BY DEF FeedInv, WorkersKept, Quiet, SameReading
<1>3. BeginKept'
  BY DEF BeginKept, BeginCommits
<1>4. QueueKept'
  BY DEF FeedInv, QueueKept, Quiet, SameSaved
<1> QED
  BY <1>1, <1>2, <1>3, <1>4 DEF FeedInv

\* The pump is done with the feed.
LEMMA FeedOut ==
  ASSUME FeedInv, thread' \in [Stations -> {"none", "read", "exited"}],
         \/ pump'.pc = "dropping" /\ owner'
         \/ pump'.pc = "files" /\ owner' /\ (\A s \in Stations : thread'[s] # "read")
         \/ pump'.pc = "off" /\ (\A s \in Stations : thread'[s] = "none")
  PROVE  FeedInv'
BY DEF FeedInv, FeedTypes, WorkersKept, BeginKept, BeginCommits, QueueKept, Feeding, Steps

LEMMA FeedStart == FeedInv /\ StartSession => FeedInv'
<1> SUFFICES ASSUME FeedInv, StartSession PROVE FeedInv'
  OBVIOUS
<1> USE DEF Feeding, Steps
<1>1. /\ pump.pc = "off" /\ pump'.pc = "replay" /\ owner' = TRUE /\ thread' = thread
      /\ disks' = [d \in Labels |-> Reopened(disks[d])]
  BY DEF StartSession, Open, Goto, Off
<1>2. \A d \in Labels : disks'[d].phase # "reading"
  BY <1>1 DEF Reopened
<1>3. FeedTypes'
  BY <1>1 DEF FeedInv, FeedTypes
<1>4. WorkersKept'
  BY <1>1, <1>2 DEF FeedInv, WorkersKept, ReadingAt
<1>5. BeginKept' /\ QueueKept'
  BY <1>1 DEF BeginKept, BeginCommits, QueueKept
<1> QED
  BY <1>3, <1>4, <1>5 DEF FeedInv

LEMMA FeedReplay == FeedInv /\ Replay => FeedInv'
<1> SUFFICES ASSUME FeedInv, Replay PROVE FeedInv'
  OBVIOUS
<1> USE DEF Feeding, Steps
<1>1. /\ pump.pc = "replay" /\ pump'.pc = "loop" /\ UNCHANGED <<owner, disks, thread, reported>>
      /\ queued' = queued \cup SavedAttempts
  BY DEF Replay, Goto, Off, vars, journal
<1>2. Quiet
  BY <1>1, QuietJournal
<1>3. FeedTypes'
  BY <1>1 DEF FeedInv, FeedTypes
<1>4. WorkersKept'
  BY <1>1, <1>2 DEF FeedInv, WorkersKept, Quiet, SameReading
<1>5. BeginKept' /\ QueueKept'
  BY <1>1, <1>2 DEF BeginKept, BeginCommits, QueueKept, Quiet, SameSaved
<1> QED
  BY <1>3, <1>4, <1>5 DEF FeedInv

\* A line says where begin is to go; nothing is committed yet.
LEMMA FeedReadLine ==
  ASSUME FeedInv, NEW s \in Stations, NEW d \in Labels, ReadLine(s, d)
  PROVE  FeedInv'
<1> USE DEF Feeding, Steps
<1>1. /\ pump.pc = "recv" /\ ~paused
      /\ UNCHANGED <<owner, disks, paused, occupied, thread, queued, reported>>
  BY DEF ReadLine, Line, Receive, vars, journal
<1>2. /\ pump'.station = s /\ pump'.disk = d /\ pump'.pc \in {"remove", "transfer", "claim", "confirm"}
      /\ pump'.cleared = FALSE
  BY DEF ReadLine, At
<1>3. FeedTypes'
  BY <1>1, <1>2 DEF FeedInv, FeedTypes
<1>4. WorkersKept'
  BY <1>1, <1>2 DEF FeedInv, WorkersKept, ReadingAt
<1>5. QueueKept'
  BY <1>1, <1>2 DEF FeedInv, QueueKept, SavedAttempts, Has
<1>6. BeginKept'
  <2>1. pump'.pc = "remove" => TargetValid(s, d) /\ \E h \in HeldBy(s) : disks[h].phase = "saved"
    BY DEF ReadLine, At
  <2>2. pump'.pc = "transfer" => s = "gw" /\ UsbSaved(d) /\ (HeldBy(s) = {} \/ d \in HeldBy(s))
    BY DEF ReadLine, At
  <2>3. pump'.pc = "transfer" => HeldBy("gw") = {}
    BY <2>2 DEF UsbSaved, HeldBy
  <2>4. pump'.pc = "remove" => TargetValid(s, d)' /\ \E h \in HeldBy(s)' : disks'[h].phase = "saved"
    BY <1>1, <2>1 DEF TargetValid, UsbSaved, HeldBy, Held, IsNextFresh, Unreserved
  <2>5. pump'.pc = "transfer" => s = "gw" /\ UsbSaved(d)' /\ HeldBy("gw")' = {}
    BY <1>1, <2>2, <2>3 DEF UsbSaved, HeldBy, Held
  <2> QED
    BY <1>1, <1>2, <2>4, <2>5 DEF BeginKept, BeginCommits
<1> QED
  BY <1>3, <1>4, <1>5, <1>6 DEF FeedInv

LEMMA FeedLines == CoordinatorInv /\ FeedInv /\ Lines => FeedInv'
<1> SUFFICES ASSUME CoordinatorInv, FeedInv, Lines PROVE FeedInv'
  OBVIOUS
<1>1. CASE Quit \/ Refused \/ Pausing \/ InputEnds \/ InputIgnored \/ StopLine
  <2>1. /\ pump.pc = "recv" /\ pump'.pc = "loop" /\ UNCHANGED <<owner, disks, thread, queued, reported>>
    BY <1>1 DEF Quit, Refused, Pausing, InputEnds, InputIgnored, StopLine, Line, Receive, NextEvent, Goto, Off,
                SetPaused, vars, journal
  <2> QED
    BY <2>1, QuietJournal, FeedLoop DEF Feeding, Steps
<1>2. CASE \E s \in Stations : Out(s)
  <2>1. PICK s \in Stations, d \in Labels : Removed(s, d)
    BY <1>2 DEF Out
  <2>2. pump.pc = "recv" /\ pump'.pc = "loop" /\ UNCHANGED <<thread, queued, reported>>
    BY <1>2 DEF Out, Line, Receive, NextEvent, Goto, Off
  <2> QED
    BY <2>1, <2>2, RemovedMoves, FeedLoop DEF Feeding, Steps
<1>3. CASE \E s \in Stations, d \in Labels : ReadLine(s, d)
  BY <1>3, FeedReadLine
<1>4. CASE \E d \in Labels : ConfirmSame(d) \/ ReleaseLine(d)
  <2>1. /\ pump.pc = "recv" /\ pump'.pc \in {"loop", "release"}
        /\ UNCHANGED <<owner, disks, thread, queued, reported>>
    BY <1>4 DEF ConfirmSame, ReleaseLine, ConfirmSameDisk, ReleaseArchive, Line, Receive, NextEvent, Goto, At, Off,
                journal
  <2> QED
    BY <2>1, QuietJournal, FeedLoop DEF Feeding, Steps
<1> QED
  BY <1>1, <1>2, <1>3, <1>4 DEF Lines

LEMMA FeedReleasing == CoordinatorInv /\ FeedInv /\ Releasing => FeedInv'
<1> SUFFICES ASSUME CoordinatorInv, FeedInv, Releasing PROVE FeedInv'
  OBVIOUS
<1>1. pump.pc = "release" /\ UNCHANGED <<thread, queued, reported>>
  BY DEF Releasing
<1>2. CASE ReleaseReset(pump.disk) /\ UNCHANGED pump
  <2>1. UNCHANGED <<owner, disks, paused, occupied>>
    BY <1>2 DEF ReleaseReset, journal
  <2> QED
    BY <1>1, <1>2, <2>1, FeedFrame DEF FeedInv, FeedTypes
<1>3. CASE ReleaseCommit(pump.disk) /\ NextEvent
  <2>1. PICK d \in Labels : d = pump.disk
    BY <1>3 DEF ReleaseCommit, Disputed, HeldBy
  <2>2. Quiet
    BY <1>3, <2>1, ReleaseMoves
  <2> QED
    BY <1>1, <1>3, <2>2, FeedLoop DEF NextEvent, Goto, Off, Feeding, Steps
<1>4. CASE ReleaseFails /\ NextEvent
  <2>1. UNCHANGED <<owner, disks>>
    BY <1>4 DEF ReleaseFails, journal
  <2> QED
    BY <1>1, <1>4, <2>1, QuietJournal, FeedLoop DEF NextEvent, Goto, Off, Feeding, Steps
<1> QED
  BY <1>2, <1>3, <1>4 DEF Releasing

\* One step of begin follows another.
LEMMA FeedOn ==
  ASSUME FeedInv, Quiet, pump.pc \in Steps, pump'.pc \in Steps, BeginKept',
         pump'.station = pump.station, pump'.disk = pump.disk, UNCHANGED <<thread, queued, reported>>
  PROVE  FeedInv'
<1> USE DEF Feeding, Steps
<1>1. FeedTypes'
  BY DEF FeedInv, FeedTypes, Quiet
<1>2. WorkersKept'
  BY DEF FeedInv, WorkersKept, Quiet, SameReading
<1>3. QueueKept'
  BY DEF FeedInv, QueueKept, Quiet, SameSaved
<1> QED
  BY <1>1, <1>2, <1>3 DEF FeedInv

LEMMA FeedRemove ==
  ASSUME CoordinatorInv, FeedInv, BeginRemove, UNCHANGED <<thread, queued, reported>>
  PROVE  FeedInv'
<1>0. PICK s \in Stations, d \in Labels : s = pump.station /\ d = pump.disk
  BY DEF BeginRemove, FeedInv, FeedTypes, Steps
<1>1. pump.pc = "remove"
  BY DEF BeginRemove
<1>2. PICK h \in Labels : Removed(s, h)
  BY <1>0 DEF BeginRemove
<1>3. /\ Quiet /\ HeldBy(s)' = {} /\ paused' = paused /\ occupied' = occupied
      /\ disks[h].phase = "saved" /\ disks[h].ticket.station = s
      /\ disks'[h].phase \in {"await_gw", "complete", "partial"}
      /\ \A e \in Labels \ {h} : disks'[e] = disks[e]
  BY <1>2, RemovedMoves
<1>4. /\ pump'.station = s /\ pump'.disk = d /\ pump'.cleared = TRUE
      /\ pump'.pc = IF s = "gw" /\ UsbSaved(d) THEN "transfer" ELSE "claim"
  BY <1>0 DEF BeginRemove, At
<1>5. ~paused /\ TargetValid(s, d)
  BY <1>0, <1>1 DEF FeedInv, BeginKept
<1>6. CASE s = "gw" /\ UsbSaved(d)
  <2>1. d # h
    BY <1>3, <1>6 DEF UsbSaved, HeldBy
  <2>2. UsbSaved(d)'
    BY <1>1, <1>3, <1>6, <2>1 DEF UsbSaved, HeldBy, Held
  <2>3. HeldBy("gw")' = {}
    BY <1>3, <1>6
  <2>4. BeginKept'
    BY <1>3, <1>4, <1>5, <1>6, <2>2, <2>3 DEF BeginKept, BeginCommits
  <2> QED
    BY <1>0, <1>1, <1>3, <1>4, <1>6, <2>4, FeedOn DEF Steps
<1>7. CASE ~(s = "gw" /\ UsbSaved(d))
  <2>1. IsNextFresh(d)' \/ (s = "gw" /\ disks'[d].phase = "await_gw")
    <3>1. CASE IsNextFresh(d)
      <4>1. \A e \in Labels : Unreserved(e)' <=> Unreserved(e)
        BY <1>3 DEF Unreserved
      <4>2. occupied' = occupied
        BY <1>3
      <4> QED
        BY <3>1, <4>1, <4>2 DEF IsNextFresh
    <3>2. CASE s = "gw" /\ disks[d].phase = "await_gw"
      BY <1>1, <1>3, <3>2
    <3> QED
      BY <1>5, <1>7, <3>1, <3>2 DEF TargetValid
  <2>2. BeginKept'
    BY <1>3, <1>4, <1>5, <1>7, <2>1 DEF BeginKept, BeginCommits
  <2> QED
    BY <1>0, <1>1, <1>3, <1>4, <1>7, <2>2, FeedOn DEF Steps
<1> QED
  BY <1>6, <1>7

LEMMA FeedTransfer ==
  ASSUME CoordinatorInv, FeedInv, BeginTransfer, UNCHANGED <<thread, queued, reported>>
  PROVE  FeedInv'
<1> DEFINE d == pump.disk
<1>1. /\ pump.pc = "transfer" /\ d \in Labels /\ ~paused /\ pump.station = "gw" /\ HeldBy("gw") = {}
      /\ disks[d].usb.bad # "none"
  BY DEF BeginTransfer, FeedInv, FeedTypes, BeginKept, UsbSaved, Steps
<1>2. /\ Quiet /\ paused' = paused /\ disks'[d].phase = "await_gw"
      /\ \A e \in Labels \ {d} : disks'[e] = disks[e]
  <2>1. Removed("usb", d) /\ "usb" \in Stations
    BY DEF BeginTransfer, Stations
  <2> QED
    BY <1>1, <2>1, RemovedMoves
<1>3. HeldBy("gw")' = {}
  BY <1>1, <1>2 DEF HeldBy, Held
<1>4. /\ pump'.station = pump.station /\ pump'.disk = d /\ pump'.pc = "claim"
  BY DEF BeginTransfer, At
<1>5. BeginKept'
  BY <1>1, <1>2, <1>3, <1>4 DEF BeginKept, BeginCommits
<1> QED
  BY <1>1, <1>2, <1>4, <1>5, FeedOn DEF Steps

LEMMA FeedConfirm ==
  ASSUME CoordinatorInv, FeedInv, BeginConfirm, UNCHANGED <<thread, queued, reported>>
  PROVE  FeedInv'
<1> USE DEF Feeding, Steps
<1>0. PICK s \in Stations, d \in Labels : s = pump.station /\ d = pump.disk
  BY DEF BeginConfirm, FeedInv, FeedTypes
<1>1. pump.pc = "confirm" /\ Confirm(s, d)
  BY <1>0 DEF BeginConfirm
<1>2. /\ owner' = owner /\ disks \in [Labels -> Disks] /\ disks[d].ticket.station = s
      /\ disks' = [disks EXCEPT ![d].phase = "reading"] /\ disks[d].phase = "reserved"
  BY <1>1 DEF Confirm, HeldBy, CoordinatorInv, TypeOK
<1>3. /\ disks'[d].phase = "reading" /\ disks'[d].ticket = disks[d].ticket
      /\ disks'[d].usb = disks[d].usb /\ disks'[d].gw = disks[d].gw
      /\ \A e \in Labels \ {d} : disks'[e] = disks[e]
  BY <1>1, <1>2 DEF Disks
<1>4. ReadingAt(s)' /\ \A z \in Stations : z # s => (ReadingAt(z)' <=> ReadingAt(z))
  BY <1>1, <1>2, <1>3 DEF ReadingAt
<1>5. pump'.pc = "spawn" /\ pump'.station = s /\ pump'.disk = d
  BY <1>0 DEF BeginConfirm, At
<1>6. FeedTypes'
  BY <1>1, <1>2, <1>5 DEF FeedInv, FeedTypes
<1>7. WorkersKept'
  BY <1>1, <1>4, <1>5 DEF FeedInv, WorkersKept
<1>8. SameSaved
  <2>1. \A e \in Labels : disks'[e].usb = disks[e].usb /\ disks'[e].gw = disks[e].gw
    BY <1>3
  <2> QED
    BY <2>1, SameReceipts
<1>9. BeginKept' /\ QueueKept'
  BY <1>1, <1>5, <1>8 DEF FeedInv, BeginKept, BeginCommits, QueueKept, SameSaved
<1> QED
  BY <1>6, <1>7, <1>9 DEF FeedInv

LEMMA FeedBegin == CoordinatorInv /\ FeedInv /\ Begin => FeedInv'
<1> SUFFICES ASSUME CoordinatorInv, FeedInv, Begin PROVE FeedInv'
  OBVIOUS
<1>0. UNCHANGED <<thread, queued, reported>>
  BY DEF Begin
<1>1. CASE BeginClaim
  <2>1. pump.pc = "claim" /\ pump.station \in Stations /\ pump.disk \in Labels
    BY <1>1 DEF BeginClaim, FeedInv, FeedTypes, Steps
  <2>2. PICK s \in Stations, d \in Labels : s = pump.station /\ d = pump.disk
    BY <2>1
  <2>3. Quiet
    BY <1>1, <2>2, ClaimMoves DEF BeginClaim
  <2>4. pump'.pc = "confirm" /\ pump'.station = pump.station /\ pump'.disk = pump.disk
    BY <1>1 DEF BeginClaim, At
  <2>5. BeginKept'
    BY <2>4 DEF BeginKept, BeginCommits
  <2> QED
    BY <1>0, <2>1, <2>3, <2>4, <2>5, FeedOn DEF Steps
<1>2. CASE BeginFails
  <2>1. pump.pc \in Steps /\ pump'.pc = "loop" /\ UNCHANGED <<owner, disks>>
    BY <1>2 DEF BeginFails, NextEvent, Goto, Off, vars, journal
  <2> QED
    BY <1>0, <2>1, QuietJournal, FeedLoop DEF Feeding, Steps
<1> QED
  BY <1>0, <1>1, <1>2, FeedRemove, FeedTransfer, FeedConfirm DEF Begin

LEMMA FeedSpawn == FeedInv /\ (Spawn \/ Enqueue) => FeedInv'
<1> SUFFICES ASSUME FeedInv, Spawn \/ Enqueue PROVE FeedInv'
  OBVIOUS
<1> USE DEF Feeding, Steps
<1>1. pump.pc \in {"spawn", "enqueue"} /\ pump'.pc = "loop" /\ UNCHANGED <<owner, disks>>
  BY DEF Spawn, Enqueue, NextEvent, Goto, Off, vars, journal
<1>2. Quiet /\ BeginKept'
  BY <1>1, QuietJournal DEF BeginKept, BeginCommits
<1>3. CASE Spawn
  <2>1. /\ pump.pc = "spawn" /\ thread' = [thread EXCEPT ![pump.station] = "read"] /\ UNCHANGED <<queued, reported>>
        /\ pump.station \in Stations /\ thread \in [Stations -> {"none", "read", "exited"}]
    BY <1>3 DEF Spawn, FeedInv, FeedTypes
  <2>2. FeedTypes'
    BY <1>1, <2>1, <1>2 DEF FeedInv, FeedTypes, Quiet
  <2>3. WorkersKept'
    BY <1>1, <2>1, <1>2 DEF FeedInv, WorkersKept, Quiet, SameReading
  <2>4. QueueKept'
    BY <1>1, <2>1, <1>2 DEF FeedInv, QueueKept, Quiet, SameSaved
  <2> QED
    BY <1>2, <2>2, <2>3, <2>4 DEF FeedInv
<1>4. CASE Enqueue
  <2>1. /\ pump.pc = "enqueue" /\ thread' = thread
        /\ queued \cup reported \cup {<<pump.disk, Receipt(pump.station, pump.disk).attempt>>}
             \subseteq queued' \cup reported'
    BY <1>4 DEF Enqueue, Receipt
  <2>2. FeedTypes'
    BY <1>1, <2>1, <1>2 DEF FeedInv, FeedTypes, Quiet
  <2>3. WorkersKept'
    BY <1>1, <2>1, <1>2 DEF FeedInv, WorkersKept, Quiet, SameReading
  <2>4. QueueKept'
    BY <1>1, <2>1, <1>2 DEF FeedInv, QueueKept, Quiet, SameSaved
  <2> QED
    BY <1>2, <2>2, <2>3, <2>4 DEF FeedInv
<1> QED
  BY <1>3, <1>4

LEMMA FeedDone == ASSUME CoordinatorInv, FeedInv, NEW s \in Stations, Done(s) PROVE FeedInv'
<1> USE DEF Feeding, Steps
<1>1. /\ pump.pc = "recv" /\ thread' = [thread EXCEPT ![s] = "none"] /\ UNCHANGED <<queued, reported>>
      /\ thread \in [Stations -> {"none", "read", "exited"}] /\ owner
  BY DEF Done, Receive, FeedInv, FeedTypes
<1>2. ASSUME Complete(s) \/ Failed(s), pump'.pc \in {"loop", "enqueue"},
             pump'.pc = "enqueue" => pump'.station \in Stations /\ pump'.disk \in Labels
      PROVE  FeedTypes' /\ WorkersKept' /\ BeginKept'
  <2>1. owner' = owner /\ ~ReadingAt(s)' /\ \A z \in Stations : z # s => (ReadingAt(z)' <=> ReadingAt(z))
    BY <1>2, AnswerEnds
  <2>2. FeedTypes'
    BY <1>1, <1>2, <2>1 DEF FeedTypes
  <2>3. WorkersKept'
    BY <1>1, <1>2, <2>1 DEF FeedInv, WorkersKept
  <2>4. BeginKept'
    BY <1>2 DEF BeginKept, BeginCommits
  <2> QED
    BY <2>2, <2>3, <2>4
<1>3. CASE Complete(s) /\ At("enqueue", s, reader[s].ticket.disk, FALSE)
  <2>0. PICK d \in Labels : d = reader[s].ticket.disk
    BY <1>3, AnswerEnds
  <2>1. /\ \A e \in Labels \ {d} : disks'[e] = disks[e]
        /\ s = "usb" => disks'[d].gw = disks[d].gw
        /\ s = "gw" => disks'[d].usb = disks[d].usb
    BY <1>3, <2>0, AnswerEnds
  <2>2. pump'.pc = "enqueue" /\ pump'.station = s /\ pump'.disk = d
    BY <1>3, <2>0 DEF At
  <2>3. QueueKept'
    <3> SUFFICES ASSUME NEW x \in SavedAttempts'
                 PROVE  x \in queued \cup reported \cup {<<d, Receipt(s, d)'.attempt>>}
      <4>1. pump'.pc = "enqueue" /\ Receipt(pump.station, pump.disk)' = Receipt(s, d)'
        BY <2>2 DEF Receipt
      <4> QED
        BY <1>1, <2>2, <4>1 DEF QueueKept
    <3>1. PICK e \in Labels : \E q \in {disks'[e].usb, disks'[e].gw} : Has(q) /\ x = <<e, q.attempt>>
      BY SavedNext
    <3>2. PICK q \in {disks'[e].usb, disks'[e].gw} : Has(q) /\ x = <<e, q.attempt>>
      BY <3>1
    <3>3. CASE q \in {disks[e].usb, disks[e].gw}
      <4>1. x \in SavedAttempts
        BY <3>2, <3>3, SavedOf
      <4> QED
        BY <1>1, <4>1 DEF FeedInv, QueueKept
    <3>4. CASE q \notin {disks[e].usb, disks[e].gw}
      <4>1. e = d
        BY <2>1, <3>4
      <4>2. q = IF s = "usb" THEN disks'[d].usb ELSE disks'[d].gw
        BY <2>1, <3>4, <4>1 DEF Stations
      <4>3. Receipt(s, d)' = IF s = "usb" THEN disks'[d].usb ELSE disks'[d].gw
        BY DEF Receipt
      <4> QED
        BY <3>2, <4>1, <4>2, <4>3
    <3> QED
      BY <3>3, <3>4
  <2> QED
    BY <1>2, <1>3, <2>1, <2>2, <2>3 DEF FeedInv
<1>4. CASE Failed(s) /\ NextEvent
  <2>1. pump'.pc = "loop" /\ SameSaved
    BY <1>4, AnswerEnds DEF NextEvent, Goto, Off
  <2>2. QueueKept'
    BY <1>1, <2>1 DEF FeedInv, QueueKept, SameSaved
  <2> QED
    BY <1>2, <1>4, <2>1, <2>2 DEF FeedInv
<1>5. CASE UNCHANGED vars /\ Goto("dropping")
  <2>1. pump'.pc = "dropping" /\ owner' = owner
    BY <1>5 DEF Goto, Off, vars
  <2> QED
    BY <1>1, <2>1, FeedOut
<1> QED
  BY <1>3, <1>4, <1>5 DEF Done

LEMMA FeedPump == CoordinatorInv /\ FeedInv /\ Pump => FeedInv'
<1> SUFFICES ASSUME CoordinatorInv, FeedInv, Pump PROVE FeedInv'
  OBVIOUS
<1>1. CASE LoopTop \/ Timeout \/ Dropped
  <2>1. /\ pump.pc \in {"loop", "recv", "dropping"} /\ UNCHANGED <<owner, disks, thread, queued, reported>> /\ owner
        /\ thread \in [Stations -> {"none", "read", "exited"}]
    BY <1>1 DEF LoopTop, Timeout, Dropped, FeedInv, FeedTypes, vars, journal
  <2>2. \/ pump.pc \in {"loop", "recv"} /\ pump'.pc \in {"loop", "recv"}
        \/ pump'.pc = "files" /\ \A s \in Stations : thread[s] # "read"
    BY <1>1 DEF LoopTop, Timeout, Dropped, Goto, Off
  <2>3. CASE pump'.pc = "files" /\ \A s \in Stations : thread[s] # "read"
    BY <2>1, <2>3, FeedOut
  <2>4. CASE pump.pc \in {"loop", "recv"} /\ pump'.pc \in {"loop", "recv"}
    BY <2>1, <2>4, QuietJournal, FeedLoop DEF Feeding, Steps
  <2> QED
    BY <2>2, <2>3, <2>4
<1> QED
  BY <1>1, FeedReplay, FeedLines, FeedReleasing, FeedBegin, FeedSpawn, FeedDone DEF Pump

LEMMA FeedStep == CoordinatorInv /\ FeedInv /\ [DualNext]_dualVars => FeedInv'
<1> SUFFICES ASSUME CoordinatorInv, FeedInv, [DualNext]_dualVars PROVE FeedInv'
  OBVIOUS
<1>0. thread \in [Stations -> {"none", "read", "exited"}]
  BY DEF FeedInv, FeedTypes
<1>1. CASE EndSession
  <2>1. pump'.pc = "off" /\ thread' = [s \in Stations |-> "none"]
    BY <1>1 DEF EndSession, Off
  <2> QED
    BY <2>1, FeedOut
<1>2. CASE AbortFeed
  <2>1. pump'.pc = "dropping" /\ owner' = owner /\ thread' = thread /\ pump.pc # "off"
    BY <1>2 DEF AbortFeed, Goto, Off, vars
  <2> QED
    BY <1>0, <2>1, FeedOut DEF FeedInv, FeedTypes
<1>3. CASE \E s \in Stations : Read(s)
  <2>1. UNCHANGED <<owner, journal>>
    BY <1>3, Zenon DEF Read, UsbRead, UsbAdopt, UsbAcquire, ReadFails, GwRead, GwRefuse, GwFormatException, GwReject,
                GwAccept, GwPublish, GwSeal, GwReuse, GwCapture
  <2> QED
    BY <1>0, <1>3, <2>1, FeedFrame, SMTT(30) DEF Read, session, journal
<1>4. CASE \E s \in Stations : Deliver(s)
  <2>1. PICK s \in Stations : Deliver(s)
    BY <1>4
  <2>2. thread[s] = "read" /\ thread' = [thread EXCEPT ![s] = "exited"]
        /\ UNCHANGED <<owner, pump, disks, paused, occupied, queued, reported>>
    BY <2>1 DEF Deliver, vars, journal
  <2> QED
    BY <1>0, <2>2, FeedFrame
<1>5. CASE TypeLine \/ CloseInput \/ TypeStop \/ RequestStop \/ UNCHANGED dualVars
  <2>1. UNCHANGED <<owner, pump, disks, paused, occupied, thread, queued, reported>>
    BY <1>5 DEF TypeLine, CloseInput, TypeStop, RequestStop, dualVars, vars, journal, session
  <2> QED
    BY <1>0, <2>1, FeedFrame
<1>6. CASE \E d \in Labels, f \in Floppies : AcquireElsewhere(d, f) /\ UNCHANGED session
  <2>1. UNCHANGED <<owner, pump, disks, paused, occupied, thread, queued, reported>>
    BY <1>6 DEF AcquireElsewhere, session, journal
  <2> QED
    BY <1>0, <2>1, FeedFrame
<1> QED
  BY <1>1, <1>2, <1>3, <1>4, <1>5, <1>6, FeedStart, FeedPump DEF DualNext

\* The pump's thread, its workers and its queue agree in every state of a session
\* and after any crash of it.
THEOREM FeedInvariant == DualSpec => []FeedInv
<1>1. DualSpec => []CoordinatorInv
  BY SessionImplementsCoordinator, CoordinatorInvariant, PTL
<1> QED
  BY <1>1, FeedInit, FeedStep, PTL DEF DualSpec

\* A worker runs exactly while its station's label is being read, and the file work
\* of dual_scan.rs starts only when no worker is left in a drive.
THEOREM WorkersServe == DualSpec => []WorkersServeReading
<1>1. FeedInv => WorkersServeReading
  BY DEF FeedInv, WorkersKept, WorkersServeReading, ReadingAt, HeldBy, Held
<1> QED
  BY <1>1, FeedInvariant, PTL

\* A removal that begin committed is followed by a claim that claim() accepts.
THEOREM BeginIsCommitted == DualSpec => []BeginCommits
<1>1. FeedInv => BeginCommits
  BY DEF FeedInv, BeginKept
<1> QED
  BY <1>1, FeedInvariant, PTL

\* Each receipt has its processing job, or its error in the report, before the pump
\* waits for another event, whatever crash came between the receipt and the job.
THEOREM EverySealedIsQueued == DualSpec => []EverySealedQueued
<1>1. FeedInv => EverySealedQueued
  BY DEF FeedInv, QueueKept, EverySealedQueued
<1> QED
  BY <1>1, FeedInvariant, PTL
=============================================================================
