---------------------------- MODULE ImageCatalog ----------------------------
(***************************************************************************)
(* The image attempts saved of one label.  Three publishers share their    *)
(* numbers: an acquisition over USB (src/imaging.rs), the publication of a *)
(* GW job (src/flux_recovery.rs, src/gw_publication.rs), and the offline   *)
(* derivation of the processing pipeline (src/pipeline.rs,                 *)
(* src/recovery_plan.rs, src/composite.rs, src/sector_recovery.rs,         *)
(* src/offline_images.rs).  Each writes several files in a fixed order and *)
(* may die between any two.  The files are renamed under the snapshot gate *)
(* of the project, but an acquisition chooses its number without it.       *)
(*                                                                         *)
(* An image is a function from sectors to bytes, and Zero marks a sector   *)
(* of its map of bad sectors.  A sector of one copy of the FAT can stand   *)
(* for that of the other when the boot sector is there to tell where they  *)
(* are.  What is read of a floppy, also of a wrong one, is given.           *)
(***************************************************************************)
EXTENDS Naturals, FiniteSets, FiniteSetsExt

CONSTANTS
  Sectors, Zero, Boot, \* the boot sector is one of the sectors
  Mirror,              \* FAT sector -> the same sector of the other copy
  Readings, GwReadings, \* what an acquisition over USB, or a GW job, may bring
  MaxSlot,             \* bound: attempt numbers
  MaxReads,            \* bound: acquisitions over USB
  MaxFaults,           \* bound: crashes, torn records
  MaxEdits             \* bound: files changed by hand

ASSUME CatalogAssumption ==
  /\ IsFiniteSet(Sectors) /\ Boot \in Sectors /\ MaxSlot \in Nat \ {0}
  \* The sectors of the two copies correspond to each other.
  /\ DOMAIN Mirror \subseteq Sectors
  /\ \A s \in DOMAIN Mirror : Mirror[s] \in DOMAIN Mirror /\ Mirror[Mirror[s]] = s
  \* A reading has something in every sector.
  /\ Zero # "none"
  /\ \A r \in Readings \cup GwReadings : r \in [Sectors -> {r[s] : s \in Sectors} \ {"none"}]

Slots == 1 .. MaxSlot

VARIABLES
  part,     \* slot -> the record in its .partial.json
  wip,      \* slots with an unfinished image, .partial.img
  img,      \* slot -> the image file
  log,      \* slot -> the record in the log
  meta,     \* slot -> the metadata, which make the attempt complete
  reports,  \* published recipes: what was derived from what, in which slot
  stages,   \* recipes whose intermediate images are in Recovery
  job,      \* the GW job of the label: its slot, its image, whether it is done
  usb, derive, gw, \* where each publisher stands (lost in a crash)
  gate,     \* who holds the snapshot gate
  spoiled,  \* recipes whose intermediate image was changed by hand
  edited,   \* history: slots whose image was changed by hand
  contested,\* history: slots taken by an acquisition that another had reserved
  reads, faults, edits \* counters for the bounds

files == <<part, wip, img, log, meta, reports, stages>>
hand == <<spoiled, edited, edits>>
vars == <<files, job, usb, derive, gw, gate, hand, contested, reads, faults>>

\* A file says who published the attempt, the image, and what it is made from.
Doc(by, data, from) == [by |-> by, data |-> data, from |-> from]
Changed == [s \in Sectors |-> "changed"]
Blank   == [s \in Sectors |-> "none"]
Nothing == Doc("none", Blank, <<>>)
Torn    == Doc("torn", Blank, <<>>)

Off == [pc |-> "off", slot |-> 0, data |-> Blank, fresh |-> FALSE]
Idle == [pc |-> "off", slot |-> 0, from |-> <<>>]

Missing(data) == {s \in Sectors : data[s] = Zero}
Complete == {n \in Slots : meta[n] # Nothing}
Physical == {n \in Complete : meta[n].by # "offline"}

\* next_attempt_number: one more than any number in a name under Images.
Named(n) == n \in wip \/ part[n] # Nothing \/ img[n] # Blank \/ meta[n] # Nothing
\* (mutant) one more than there are attempts.
NumberByCount == Cardinality(Complete) + 1
NextNumber == 1 + Max({0} \cup {n \in Slots : Named(n)})

-----------------------------------------------------------------------------
(* Offline derivation: pure part. *)

\* The sectors that two attempts read differently: they are not merged then.
Conflicts(from) ==
  {s \in Sectors : \E m, n \in DOMAIN from : Zero \notin {from[m][s], from[n][s]} /\ from[m][s] # from[n][s]}

\* run_composite: the bad sectors of the base from the attempts that read them.
Donors(from, s) == {n \in DOMAIN from : from[n][s] # Zero}
Composite(from) ==
  [s \in Sectors |-> IF Donors(from, s) = {} THEN Zero ELSE from[Max(Donors(from, s))][s]]

\* plan_reconstruction: a bad sector of a FAT from its readable twin.
Twin(data, s) == data[Boot] # Zero /\ s \in DOMAIN Mirror /\ data[Mirror[s]] # Zero
MirroredFat(data) ==
  [s \in Sectors |-> IF data[s] = Zero /\ Twin(data, s) THEN data[Mirror[s]] ELSE data[s]]

\* replay: what the recipe gives.
Replay(from) == MirroredFat(Composite(from))

\* best_attempt, among the physical attempts.
Lack(n) == Cardinality(Missing(meta[n].data))
Best == CHOOSE n \in Physical :
          \A m \in Physical : Lack(n) < Lack(m) \/ (Lack(n) = Lack(m) /\ n >= m)

\* plan_disk: the attempts to derive from, if there are any to gain from.
Plan ==
  IF Physical = {} \/ \E n \in Complete : img[n] # meta[n].data THEN <<>>
  ELSE LET best == Best
           bad == Missing(meta[best].data)
       IN IF \E s \in bad, n \in Physical : meta[n].data[s] # Zero
            THEN [n \in Physical |-> meta[n].data]
          ELSE IF \E s \in bad : Twin(meta[best].data, s) THEN [n \in {best} |-> meta[n].data]
          ELSE <<>>

\* What is derived next: sources that differ are declined.
Plans == {from \in {Plan} : from # <<>> /\ Conflicts(from) = {}}

\* verify_metadata, with what replay checks of the sources, and the checks of
\* the loader on an acquisition: a complete attempt the catalog does not refuse.
SourceKept(from, n) == img[n] = from[n] /\ meta[n].data = from[n] /\ log[n] = meta[n]
\* (mutant) the derived image itself is not compared with the replay.
AcceptsUnread(n) ==
  IF meta[n].by = "offline"
    THEN /\ [from |-> meta[n].from, slot |-> n] \in reports
         /\ \A m \in DOMAIN meta[n].from : SourceKept(meta[n].from, m)
    ELSE part[n].by # "offline" /\ (meta[n].by = "usb" => log[n] = meta[n])
Accepts(n) ==
  IF meta[n].by = "offline"
    THEN /\ [from |-> meta[n].from, slot |-> n] \in reports /\ meta[n].from \notin spoiled
         /\ \A m \in DOMAIN meta[n].from : SourceKept(meta[n].from, m)
         /\ img[n] = Replay(meta[n].from) /\ log[n] = meta[n]
    ELSE part[n].by # "offline" /\ (meta[n].by = "usb" => log[n] = meta[n])
Refused == {n \in Complete : ~Accepts(n)}

-----------------------------------------------------------------------------
(* An acquisition over USB.  The number is chosen first; until the permit  *)
(* of the resource budget is there and the device is open, no file bears   *)
(* it.                                                                     *)

UsbChoose ==
  /\ usb.pc = "off" /\ reads < MaxReads /\ NextNumber \in Slots
  /\ usb' = [pc |-> "chosen", slot |-> NextNumber, data |-> Blank, fresh |-> ~Named(NextNumber)]
  /\ reads' = reads + 1
  /\ UNCHANGED <<files, job, derive, gw, gate, hand, contested, faults>>

UsbOpen ==
  /\ usb.pc = "chosen" /\ usb.slot \notin wip
  /\ wip' = wip \cup {usb.slot} /\ usb' = [usb EXCEPT !.pc = "reading"]
  /\ UNCHANGED <<part, img, log, meta, reports, stages, job, derive, gw, gate, hand, contested, reads, faults>>

\* All sectors, retries included, then the records beside the image.  The
\* partial metadata are written over whatever is there.
Met(n) == part[n] # Nothing \/ img[n] # Blank \/ (job.slot = n /\ ~job.done)
UsbRead ==
  /\ usb.pc = "reading"
  /\ contested' = IF usb.fresh /\ Met(usb.slot) THEN contested \cup {usb.slot} ELSE contested
  /\ \/ /\ \E r \in Readings :
             /\ usb' = [usb EXCEPT !.pc = "written", !.data = r]
             /\ part' = [part EXCEPT ![usb.slot] = Doc("usb", r, <<>>)]
        /\ UNCHANGED faults
     \/ \* The process dies while it writes them.
        /\ faults < MaxFaults /\ faults' = faults + 1
        /\ usb' = Off /\ part' = [part EXCEPT ![usb.slot] = Torn]
  /\ UNCHANGED <<wip, img, log, meta, reports, stages, job, derive, gw, gate, hand, reads>>

\* The device is not protected or not there, the read is cancelled, the image
\* has the wrong size, the number is taken: what was written stays.
UsbFails ==
  /\ usb.pc \in {"chosen", "reading", "written"} /\ usb' = Off
  /\ UNCHANGED <<files, job, derive, gw, gate, hand, contested, reads, faults>>

UsbGate ==
  /\ usb.pc = "written" /\ gate = "free"
  /\ gate' = "usb" /\ usb' = [usb EXCEPT !.pc = "image"]
  /\ UNCHANGED <<files, job, derive, gw, hand, contested, reads, faults>>

\* (mutant) the metadata are renamed with the image, before the log.
UsbImageMeta ==
  /\ usb.pc = "image" /\ usb' = [usb EXCEPT !.pc = "log"]
  /\ img' = [img EXCEPT ![usb.slot] = usb.data] /\ wip' = wip \ {usb.slot}
  /\ meta' = [meta EXCEPT ![usb.slot] = part[usb.slot]]
  /\ UNCHANGED <<part, log, reports, stages, job, derive, gw, gate, hand, contested, reads, faults>>

\* Three renames, which replace what has the name; the metadata come last.
UsbImage ==
  /\ usb.pc = "image" /\ usb' = [usb EXCEPT !.pc = "log"]
  /\ img' = [img EXCEPT ![usb.slot] = usb.data] /\ wip' = wip \ {usb.slot}
  /\ UNCHANGED <<part, log, meta, reports, stages, job, derive, gw, gate, hand, contested, reads, faults>>

UsbLog ==
  /\ usb.pc = "log" /\ usb' = [usb EXCEPT !.pc = "meta"]
  /\ log' = [log EXCEPT ![usb.slot] = Doc("usb", usb.data, <<>>)]
  /\ UNCHANGED <<part, wip, img, meta, reports, stages, job, derive, gw, gate, hand, contested, reads, faults>>

UsbMeta ==
  /\ usb.pc = "meta" /\ usb' = Off /\ gate' = "free"
  /\ meta' = [meta EXCEPT ![usb.slot] = part[usb.slot]]
  /\ part' = [part EXCEPT ![usb.slot] = Nothing]
  /\ UNCHANGED <<wip, img, log, reports, stages, job, derive, gw, hand, contested, reads, faults>>

-----------------------------------------------------------------------------
(* The derivation of the pipeline, under the gate from the plan to the end. *)

Derives(pc) == derive.pc = pc
Keep == UNCHANGED <<job, usb, gw, hand, contested, reads, faults>>
Leave == derive' = Idle /\ gate' = "free"
Publication == [from |-> derive.from, slot |-> derive.slot]
Derived == Doc("offline", Replay(derive.from), derive.from)

\* A label the loader refuses stops the run.
DeriveStart ==
  /\ Derives("off") /\ gate = "free" /\ Refused = {}
  /\ gate' = "offline" /\ \E from \in Plans : derive' = [pc |-> "stage", slot |-> 0, from |-> from]
  /\ UNCHANGED files /\ Keep

\* (mutant) they are expected not to be there.
UnusableThere == spoiled \cup stages
Unusable == spoiled

\* The intermediate images, written or found unchanged where an earlier run
\* left them.
DeriveStage ==
  /\ Derives("stage") /\ UNCHANGED <<part, wip, img, log, meta, reports>>
  /\ IF derive.from \in Unusable THEN Leave /\ UNCHANGED stages
     ELSE /\ stages' = stages \cup {derive.from} /\ UNCHANGED gate
          /\ derive' = [derive EXCEPT !.pc = "reserve"]
  /\ Keep

\* The slot of the same recipe, from its report or its reservation, or the
\* next one.  All reservations of the label are read, whoever wrote them.
Reported == {n \in Slots : [from |-> derive.from, slot |-> n] \in reports}
Reserved == {n \in Slots : part[n].by = "offline" /\ part[n].from = derive.from}
OwnSlot == IF Reported # {} THEN Reported
           ELSE IF \E n \in Slots : part[n] = Torn THEN {}
           ELSE IF Reserved # {} THEN Reserved ELSE {NextNumber}

\* A slot is reserved before the report, the image and the log are published.
\* Metadata, or a reservation, that another publisher put there end the run.
Differs(old, new) == old # Nothing /\ old # new
DeriveReserve ==
  /\ Derives("reserve") /\ UNCHANGED <<wip, img, log, meta, reports, stages>> /\ Keep
  /\ LET free == {n \in OwnSlot \cap Slots : ~Differs(part[n], Derived) /\ ~Differs(meta[n], Derived)}
     IN IF free = {} THEN Leave /\ UNCHANGED part
        ELSE \E n \in free :
               /\ part' = [part EXCEPT ![n] = Derived]
               /\ derive' = [derive EXCEPT !.pc = "report", !.slot = n] /\ UNCHANGED gate

DeriveReport ==
  /\ Derives("report") /\ derive' = [derive EXCEPT !.pc = "image"]
  /\ reports' = reports \cup {Publication}
  /\ UNCHANGED <<part, wip, img, log, meta, stages, gate>> /\ Keep

\* write_once: the same bytes are taken as written, others end the run.
DeriveImage ==
  /\ Derives("image") /\ UNCHANGED <<part, wip, log, meta, reports, stages>> /\ Keep
  /\ IF img[derive.slot] \in {Blank, Derived.data}
       THEN /\ img' = [img EXCEPT ![derive.slot] = Derived.data] /\ UNCHANGED gate
            /\ derive' = [derive EXCEPT !.pc = "log"]
       ELSE Leave /\ UNCHANGED img

DeriveLog ==
  /\ Derives("log") /\ UNCHANGED <<part, wip, img, meta, reports, stages>> /\ Keep
  /\ IF Differs(log[derive.slot], Derived) THEN Leave /\ UNCHANGED log
     ELSE /\ log' = [log EXCEPT ![derive.slot] = Derived] /\ UNCHANGED gate
          /\ derive' = [derive EXCEPT !.pc = "meta"]

DeriveMeta ==
  /\ Derives("meta") /\ Leave /\ UNCHANGED <<part, wip, img, log, reports, stages>> /\ Keep
  /\ meta' = IF Differs(meta[derive.slot], Derived) THEN meta
             ELSE [meta EXCEPT ![derive.slot] = Derived]

Derive == DeriveStart \/ DeriveStage \/ DeriveReserve \/ DeriveReport \/ DeriveImage
          \/ DeriveLog \/ DeriveMeta

-----------------------------------------------------------------------------
(* The publication of the image of a GW job.  Its slot is reserved in      *)
(* Flux/Recovery, and every step finds what an earlier run has done.       *)

GwDoc == Doc("gw", job.data, <<>>)
GwKeep == UNCHANGED <<wip, reports, stages, usb, derive, hand, contested, reads, faults>>
GwEnds == gw' = "off" /\ gate' = "free"
GwNext(pc) == gw' = pc /\ UNCHANGED gate

GwReserve ==
  /\ gw = "off" /\ gate = "free" /\ ~job.done
  /\ IF job.slot # 0 THEN UNCHANGED job
     ELSE /\ NextNumber \in Slots
          /\ \E r \in GwReadings : job' = [slot |-> NextNumber, data |-> r, done |-> FALSE]
  /\ gate' = "gw" /\ gw' = "record"
  /\ UNCHANGED <<part, img, log, meta>> /\ GwKeep

GwRecord ==
  /\ gw = "record" /\ UNCHANGED <<img, log, meta, job>> /\ GwKeep
  /\ IF meta[job.slot] # Nothing THEN GwNext("log") /\ UNCHANGED part
     ELSE IF Differs(part[job.slot], GwDoc) THEN GwEnds /\ UNCHANGED part
     ELSE GwNext("log") /\ part' = [part EXCEPT ![job.slot] = GwDoc]

GwLog ==
  /\ gw = "log" /\ UNCHANGED <<part, img, meta, job>> /\ GwKeep
  /\ IF Differs(log[job.slot], GwDoc) THEN GwEnds /\ UNCHANGED log
     ELSE GwNext("image") /\ log' = [log EXCEPT ![job.slot] = GwDoc]

GwImage ==
  /\ gw = "image" /\ UNCHANGED <<part, log, meta, job>> /\ GwKeep
  /\ IF img[job.slot] \notin {Blank, job.data} \/ (img[job.slot] = Blank /\ job.slot \in wip)
       THEN GwEnds /\ UNCHANGED img
     ELSE GwNext("meta") /\ img' = [img EXCEPT ![job.slot] = job.data]

GwMeta ==
  /\ gw = "meta" /\ GwEnds /\ UNCHANGED <<img, log>> /\ GwKeep
  /\ LET refused == Differs(meta[job.slot], GwDoc) \/ Differs(part[job.slot], GwDoc) IN
     IF refused THEN UNCHANGED <<part, meta, job>>
     ELSE /\ meta' = [meta EXCEPT ![job.slot] = GwDoc] /\ job' = [job EXCEPT !.done = TRUE]
          /\ part' = IF meta[job.slot] = Nothing THEN [part EXCEPT ![job.slot] = Nothing] ELSE part

Gw == GwReserve \/ GwRecord \/ GwLog \/ GwImage \/ GwMeta

-----------------------------------------------------------------------------
(* The program ends between any two steps; files are changed by hand while *)
(* nobody publishes.                                                       *)

Crash ==
  /\ faults < MaxFaults /\ faults' = faults + 1
  /\ <<usb, derive, gw>> # <<Off, Idle, "off">>
  /\ usb' = Off /\ derive' = Idle /\ gw' = "off" /\ gate' = "free"
  /\ UNCHANGED <<files, job, hand, contested, reads>>

Edit ==
  /\ gate = "free" /\ edits < MaxEdits /\ edits' = edits + 1
  /\ \/ \E n \in Complete :
          img' = [img EXCEPT ![n] = Changed] /\ edited' = edited \cup {n} /\ UNCHANGED spoiled
     \/ \E f \in stages \ spoiled :
          spoiled' = spoiled \cup {f} /\ UNCHANGED <<img, edited>>
  /\ UNCHANGED <<part, wip, log, meta, reports, stages, job, usb, derive, gw, gate, contested, reads, faults>>

Init ==
  /\ part = [n \in Slots |-> Nothing] /\ wip = {} /\ img = [n \in Slots |-> Blank]
  /\ log = [n \in Slots |-> Nothing] /\ meta = [n \in Slots |-> Nothing]
  /\ reports = {} /\ stages = {} /\ job = [slot |-> 0, data |-> Blank, done |-> FALSE]
  /\ usb = Off /\ derive = Idle /\ gw = "off" /\ gate = "free"
  /\ spoiled = {} /\ edited = {} /\ contested = {}
  /\ reads = 0 /\ faults = 0 /\ edits = 0

UsbRenames == UsbImage \/ UsbLog \/ UsbMeta
Usb == UsbChoose \/ UsbOpen \/ UsbRead \/ UsbFails \/ UsbGate \/ UsbRenames
Next == Usb \/ Derive \/ Gw \/ Crash \/ Edit

Spec == Init /\ [][Next]_vars

\* Who holds the snapshot gate goes on, and processing is run while it is free.
Holder == UsbRenames \/ GwRecord \/ GwLog \/ GwImage \/ GwMeta
FairSpec == Spec /\ WF_vars(Derive \/ Holder)

-----------------------------------------------------------------------------
(* Properties. *)

\* A derived attempt the catalog accepts holds only what its acquisitions
\* gave, none of which read a sector differently from another, and lacks no
\* sector they gave, although files were changed by hand.
DerivedTruthful ==
  \A n \in Complete : meta[n].by = "offline" /\ Accepts(n) =>
    LET from == meta[n].from IN
    \A s \in Sectors, m \in DOMAIN from :
      \/ from[m][s] = Zero /\ (img[n][s] = Zero => ~Twin(img[n], s))
      \/ from[m][s] # Zero /\ img[n][s] = from[m][s]

\* The attempts of a label that nobody changed by hand never block it: after
\* any crash the catalog accepts each of them.
LabelReadable == edited = {} /\ spoiled = {} /\ contested = {} => Refused = {}

\* A complete attempt is never replaced, except by an acquisition that chose
\* its number when no file had it.
AttemptsKept ==
  [][\A n \in Complete :
       \/ meta'[n] = meta[n] /\ (img'[n] = img[n] \/ edits' # edits)
       \/ usb.slot = n /\ usb.fresh]_vars

\* gw_publication.rs:1 promises a durable reservation of the slot: while the
\* publication of a GW job is accepted and not finished, nobody else puts a
\* file into its slot, so that a later run can finish it.
GwResumable ==
  job.slot # 0 /\ ~job.done =>
    /\ img[job.slot] \in {Blank, job.data} /\ job.slot \notin wip
    /\ \A file \in {part, log, meta} : ~Differs(file[job.slot], GwDoc)

\* What the saved attempts of a label still have to give is published in the
\* end, unless a torn record, a conflict of numbers or a hand is in the way.
Blocked ==
  \/ contested \cup edited # {} \/ spoiled # {} \/ NextNumber \notin Slots
  \/ ~GwResumable \/ \E n \in Slots : part[n] = Torn
Given(from) == \E n \in Complete : meta[n].by = "offline" /\ meta[n].from = from
Salvaged == Blocked \/ \A from \in Plans : Given(from)
SalvageArrives == []<>Salvaged

=============================================================================
