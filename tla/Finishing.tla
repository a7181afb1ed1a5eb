------------------------------- MODULE Finishing -------------------------------
(***************************************************************************)
(* From saved evidence to the delivery beside project.json: the production *)
(* flow (src/cli/production_flow.rs), finalization (src/cli/finalize.rs,   *)
(* finalization_state.rs), the archive (src/package.rs), the handoff of    *)
(* its copies (src/delivery_publish.rs) and the audit that direct commands *)
(* leave pending (src/cli/mutation_audit.rs).  Commands exclude each other *)
(* with the project owner's lock (src/project_work.rs); any of them may    *)
(* fail or die between two writes, and the next one starts from the files. *)
(***************************************************************************)
EXTENDS FluxScan, Sequences

CONSTANTS
  Procs,      \* processes that may run commands on the project
  MaxRaws,    \* bound: raw-only reports
  MaxFaults,  \* bound: failed steps and crashes
  MaxExpert,  \* bound: commands other than production start
  MaxEdits    \* bound: changes made by hand while no command runs, and labels whose
              \* packing tasks cannot be saved

ASSUME FinishingAssumption == Procs # {} /\ MaxRaws \in Nat

VARIABLES
  report,   \* the evidence the latest final report describes, or NoReport
  raws,     \* number of raw-only reports
  due,      \* the marker of an audit that is still due
  flow,     \* the saved record of the production flow
  final,    \* the saved record of the latest finalization
  zips,     \* the archives: the evidence and the reports inside
  intents,  \* archives with a sealed intent to hand them off
  root,     \* archive -> part -> its copy beside project.json
  ready,    \* the archive the ready pointer names, 0 when there is none
  pc,       \* process -> the step it is at
  kind,     \* process -> the command it runs
  rec,      \* process -> its copy of the finalization record
  prod,     \* process -> its copy of the production record
  faults, experts, edits, \* counters for the bounds
  touched,  \* history: what was changed by hand
  mutated   \* history: a direct command changed evidence no report describes

feed == <<job, cursor, recorded, packs, unqueued, scan>>
files == <<zips, intents, root, ready>>
local == <<pc, kind, rec, prod>>
bounds == <<faults, experts, edits, touched>>
vars == <<saved, report, raws, due, flow, final, zips, intents, root, ready,
          pc, kind, rec, prod, faults, experts, edits, touched, mutated, feed>>

Qualities == {"none", "raw", "partial", "full", "damaged"}
Parts == {"zip", "reports"}
NoReport == [d \in Disks |-> "unreported"]
Complete == {"complete_clean", "complete_attention"}
NoFinal == [phase |-> "none", package |-> 0, attention |-> FALSE, allow |-> FALSE]
NoFlow == [phase |-> "none", package |-> 0, attention |-> FALSE]

Images == {d \in Disks : saved[d] \notin {"none", "raw"}}
Flawed == \E d \in Disks : saved[d] \notin {"none", "full"}
Outcome(attention) == IF attention THEN "complete_attention" ELSE "complete_clean"
AllAbsent == [k \in Parts |-> "absent"]

-----------------------------------------------------------------------------
(* Commands.  One process holds the owner's lock at a time. *)

\* (mutant) commands do not exclude each other.
FreeAlways == TRUE
Free == \A p \in Procs : pc[p] = "idle"

Go(p, step) == pc' = [pc EXCEPT ![p] = step]
Starts(p) == Free /\ pc[p] = "idle"
Expert(p) == Starts(p) /\ experts < MaxExpert /\ experts' = experts + 1
OthersKeep == UNCHANGED <<kind, rec, prod>>
\* A command ends: what it held in memory is gone, and its lock with it.
Leave(p) ==
  /\ Go(p, "idle")
  /\ kind' = [kind EXCEPT ![p] = "none"]
  /\ rec' = [rec EXCEPT ![p] = NoFinal] /\ prod' = [prod EXCEPT ![p] = NoFlow]

\* (mutant) a production that came to finishing is not checked again.
ReadyByPhase ==
  \/ flow.phase \in {"finishing", "failed"}
  \/ pending = Nobody /\ completed = Disks

\* Every label of the range has a result, and its files are still the same.
Ready == pending = Nobody /\ completed = Disks /\ \A d \in Disks : saved[d] # "damaged"
\* All results are there and one of them no longer verifies.
Spoiled == pending = Nobody /\ completed = Disks /\ \E d \in Disks : saved[d] = "damaged"

\* All reads are saved: the flow moves to finishing, whatever its record said.
Acquired(p) ==
  /\ prod' = [prod EXCEPT ![p] = [phase |-> "finishing", package |-> 0,
                                  attention |-> \E d \in Disks : job[d] # "full"]]
  /\ flow' = prod'[p]
  /\ Go(p, "finish")

ProductionStart(p) ==
  /\ Starts(p) /\ flow.phase \notin Complete
  /\ \/ Ready /\ Acquired(p) /\ kind' = [kind EXCEPT ![p] = "production"] /\ UNCHANGED <<saved, feed>>
     \/ /\ Spoiled
        /\ flow' = [flow EXCEPT !.phase = "failed"]
        /\ UNCHANGED <<pc, kind, prod, saved, feed>>
     \/ /\ ~Ready /\ ~Spoiled
        /\ flow' = [flow EXCEPT !.phase = "feeding"]
        /\ prod' = [prod EXCEPT ![p] = flow']
        /\ kind' = [kind EXCEPT ![p] = "production"] /\ Go(p, "scan") /\ ScanBegin
  /\ UNCHANGED <<report, raws, due, final, files, rec, bounds, mutated>>

\* A scan of its own, outside production.
ScanStart(p) ==
  /\ Expert(p)
  /\ kind' = [kind EXCEPT ![p] = "scan"] /\ Go(p, "scan") /\ ScanBegin
  /\ UNCHANGED <<report, raws, due, flow, final, files, rec, prod, faults, edits, touched, mutated>>

Scanning(p) == pc[p] = "scan" /\ UNCHANGED <<report, raws, due, flow, final, files, local, mutated>>
Scans(p) == Scanning(p) /\ ScanStep /\ UNCHANGED bounds
Confirms(p) == Scanning(p) /\ Confirm /\ UNCHANGED bounds
Quits(p) == Scanning(p) /\ Quit /\ UNCHANGED bounds
Reads(p) == Scanning(p) /\ ReadDisk /\ UNCHANGED bounds
Reseats(p) == Scanning(p) /\ Reseat /\ UNCHANGED bounds
Unqueued(p) ==
  /\ Scanning(p) /\ VerifyUnqueued
  /\ edits < MaxEdits /\ edits' = edits + 1 /\ UNCHANGED <<faults, experts, touched>>

\* Saved images are processed while the scan goes on; this ends in a report too.
Background(p) ==
  /\ pc[p] = "scan" /\ Images # {}
  /\ \/ /\ \E d \in Disks : /\ saved[d] = "partial"
                            /\ saved' = [saved EXCEPT ![d] = "full"]
        /\ UNCHANGED <<report, due, mutated>>
     \/ /\ report # saved \/ due
        /\ report' = saved /\ due' = FALSE /\ mutated' = FALSE
        /\ UNCHANGED saved
  /\ UNCHANGED <<raws, flow, final, files, local, bounds, feed>>

\* Nothing more is read; the images of the scan are processed to the end.
EndFeed(p) ==
  /\ pc[p] = "scan" /\ At("tail")
  /\ scan' = NoScan
  /\ Go(p, IF \E d \in completed : job[d] # "raw" THEN "tail_process" ELSE "endscan")
  /\ OthersKeep
  /\ UNCHANGED <<saved, job, cursor, recorded, packs, unqueued, report, raws, due, flow, final, files,
                 bounds, mutated>>

\* An error of that processing is part of the scan's answer, not its end.
TailFails(p) ==
  /\ pc[p] \in {"tail_process", "tail_report"} /\ faults < MaxFaults
  /\ faults' = faults + 1
  /\ Go(p, "endscan") /\ OthersKeep
  /\ UNCHANGED <<saved, report, raws, due, flow, final, files, experts, edits, touched, mutated, feed>>

\* Captures whose packing tasks could not be saved are reported.  Production looks
\* at the evidence again, not at what the scan answered.
EndScan(p) ==
  /\ pc[p] = "endscan" /\ ReportErrors
  /\ \/ kind[p] = "production" /\ Ready /\ Acquired(p) /\ UNCHANGED <<kind, rec>>
     \/ /\ kind[p] = "production" /\ ~Ready
        /\ flow' = [prod[p] EXCEPT !.phase = IF Spoiled THEN "failed" ELSE "waiting"]
        /\ Leave(p)
     \/ kind[p] = "scan" /\ Leave(p) /\ UNCHANGED flow
  /\ UNCHANGED <<saved, job, cursor, recorded, packs, scan, report, raws, due, final, files, bounds,
                 mutated>>

\* A new record of a finalization replaces the saved one.
Open(p, allow, step) ==
  /\ rec' = [rec EXCEPT ![p] = [NoFinal EXCEPT !.phase = "processing", !.allow = allow]]
  /\ final' = rec'[p]
  /\ Go(p, step)

\* Production finishes: from images, or from raw evidence only.
CallFinish(p) ==
  /\ pc[p] = "finish"
  /\ Open(p, TRUE, IF Images = {} THEN "raw" ELSE "process")
  /\ UNCHANGED <<saved, report, raws, due, flow, files, kind, prod, bounds, mutated, feed>>

FinalizeStart(p, allow) ==
  /\ Expert(p) /\ Images # {}
  /\ Open(p, allow, "process")
  /\ kind' = [kind EXCEPT ![p] = "finalize"]
  /\ UNCHANGED <<saved, report, raws, due, flow, files, prod, faults, edits, touched, mutated, feed>>

\* The handoff of the archive in the saved record, nothing else.
PublishSaved(p) ==
  /\ final.package # 0
  /\ rec' = [rec EXCEPT ![p] = final] /\ UNCHANGED final
  /\ kind' = [kind EXCEPT ![p] = "publish"]
  /\ Go(p, "intent")

PackagePublish(p) ==
  /\ Expert(p) /\ PublishSaved(p)
  /\ UNCHANGED <<saved, report, raws, due, flow, files, prod, faults, edits, touched, mutated, feed>>

\* `finalize resume`, and `finish resume` with again = TRUE, which hands off a
\* completed finalization once more and always allows attention.
Resume(p, allow, again) ==
  /\ Expert(p) /\ final.phase # "none"
  /\ \/ (IF final.phase \in Complete THEN again ELSE final.package # 0) /\ PublishSaved(p)
     \/ /\ final.phase \notin Complete /\ final.package = 0 /\ Images # {}
        /\ Open(p, final.allow \/ allow \/ again, "process")
        /\ kind' = [kind EXCEPT ![p] = "finalize"]
  /\ UNCHANGED <<saved, report, raws, due, flow, files, prod, faults, edits, touched, mutated, feed>>

-----------------------------------------------------------------------------
(* Processing. *)

\* Offline recovery may complete what a reading left partial.
Recover(p) ==
  /\ pc[p] \in {"process", "tail_process"}
  /\ \E better \in SUBSET {d \in Disks : saved[d] = "partial"} :
       saved' = [d \in Disks |-> IF d \in better THEN "full" ELSE saved[d]]
  /\ Go(p, IF pc[p] = "process" THEN "report" ELSE "tail_report")
  /\ OthersKeep
  /\ UNCHANGED <<report, raws, due, flow, final, files, bounds, mutated, feed>>

Report(p) ==
  /\ pc[p] = "report"
  /\ report' = saved /\ mutated' = FALSE
  /\ rec' = [rec EXCEPT ![p].attention = Flawed]
  /\ Go(p, "decide")
  /\ UNCHANGED <<saved, raws, due, flow, final, files, kind, prod, bounds, feed>>

TailReport(p) ==
  /\ pc[p] = "tail_report"
  /\ report' = saved /\ mutated' = FALSE /\ due' = FALSE
  /\ Go(p, "endscan") /\ OthersKeep
  /\ UNCHANGED <<saved, raws, flow, final, files, bounds, feed>>

\* The audit is no longer due; attention ends the command unless it is allowed.
Decide(p) ==
  /\ pc[p] = "decide"
  /\ due' = FALSE
  /\ IF rec[p].attention /\ ~rec[p].allow
     THEN final' = [rec[p] EXCEPT !.phase = "blocked"] /\ Leave(p)
     ELSE /\ rec' = [rec EXCEPT ![p].phase = "packaging"]
          /\ final' = rec'[p]
          /\ Go(p, "package") /\ UNCHANGED <<kind, prod>>
  /\ UNCHANGED <<saved, report, raws, flow, files, bounds, mutated, feed>>

\* Raw evidence only: every attempt adds a report of its own.
RawReport(p) ==
  /\ pc[p] = "raw" /\ raws < MaxRaws
  /\ raws' = raws + 1
  /\ rec' = [rec EXCEPT ![p].phase = "packaging", ![p].attention = TRUE]
  /\ final' = rec'[p]
  /\ Go(p, "package")
  /\ UNCHANGED <<saved, report, due, flow, files, kind, prod, bounds, mutated, feed>>

\* The archive gets its final name once it was written and verified.
Build(p) ==
  /\ pc[p] = "package"
  /\ zips' = Append(zips, [images |-> saved, report |-> report, raws |-> raws])
  /\ root' = Append(root, AllAbsent)
  /\ rec' = [rec EXCEPT ![p].package = Len(zips')]
  /\ Go(p, "receipt")
  /\ UNCHANGED <<saved, report, raws, due, flow, final, intents, ready, kind, prod, bounds, mutated, feed>>

\* The receipt of the archive is saved before its handoff.
SaveReceipt(p) ==
  /\ pc[p] = "receipt"
  /\ final' = rec[p]
  /\ Go(p, "intent") /\ OthersKeep
  /\ UNCHANGED <<saved, report, raws, due, flow, files, bounds, mutated, feed>>

-----------------------------------------------------------------------------
(* Handoff. *)

\* What is kept when a command ends with an error.
Finalizing ==
  {"process", "report", "decide", "raw", "package", "receipt", "intent", "copy", "point", "complete"}
Failed(p) ==
  /\ Leave(p)
  /\ final' = IF kind[p] \in {"production", "finalize"} /\ pc[p] \in Finalizing
              THEN [rec[p] EXCEPT !.phase = "failed"] ELSE final
  /\ flow' = IF kind[p] = "production" THEN [prod[p] EXCEPT !.phase = "failed"] ELSE flow

\* The archive names one report: the final one, or the only raw-only one.
OneReport(z) == zips[z].report # NoReport \/ zips[z].raws = 1

\* The intent is sealed before the first copy; a name in use that no intent owns
\* is refused.
Intent(p) ==
  /\ pc[p] = "intent"
  /\ LET z == rec[p].package
         fits == OneReport(z) /\ (z \in intents \/ root[z] = AllAbsent)
     IN \/ /\ fits
           /\ intents' = intents \cup {z}
           /\ Go(p, "copy") /\ OthersKeep /\ UNCHANGED <<flow, final>>
        \/ ~fits /\ Failed(p) /\ UNCHANGED intents
  /\ UNCHANGED <<saved, report, raws, due, zips, root, ready, bounds, mutated, feed>>

\* A missing copy is made, the ZIP first; one that was changed is refused.
Copy(p) ==
  /\ pc[p] = "copy"
  /\ LET z == rec[p].package
         todo == {k \in Parts : root[z][k] # "copy"}
         part == IF "zip" \in todo THEN "zip" ELSE "reports"
     IN \/ /\ todo # {} /\ root[z][part] = "absent"
           /\ root' = [root EXCEPT ![z][part] = "copy"]
           /\ UNCHANGED <<local, flow, final>>
        \/ /\ todo # {} /\ root[z][part] = "changed"
           /\ Failed(p) /\ UNCHANGED root
        \/ /\ todo = {}
           /\ Go(p, "point") /\ OthersKeep /\ UNCHANGED <<root, flow, final>>
  /\ UNCHANGED <<saved, report, raws, due, zips, intents, ready, bounds, mutated, feed>>

\* The ready pointer commits the handoff, and replaces an earlier one.
Point(p) ==
  /\ pc[p] = "point"
  /\ ready' = rec[p].package
  /\ Go(p, "complete") /\ OthersKeep
  /\ UNCHANGED <<saved, report, raws, due, flow, final, zips, intents, root, bounds, mutated, feed>>

Finish(p) ==
  /\ pc[p] = "complete"
  /\ final' = [rec[p] EXCEPT !.phase = Outcome(rec[p].attention)]
  /\ IF kind[p] = "production"
     THEN /\ prod' = [prod EXCEPT ![p].package = rec[p].package]
          /\ Go(p, "deliver") /\ UNCHANGED <<kind, rec>>
     ELSE Leave(p)
  /\ UNCHANGED <<saved, report, raws, due, flow, files, bounds, mutated, feed>>

\* Attention of the reading and of the processing both count.
Deliver(p) ==
  /\ pc[p] = "deliver"
  /\ flow' = [prod[p] EXCEPT !.phase = Outcome(prod[p].attention \/ rec[p].attention)]
  /\ Leave(p)
  /\ UNCHANGED <<saved, report, raws, due, final, files, bounds, mutated, feed>>

-----------------------------------------------------------------------------
(* Direct commands that change evidence: a marker before, an audit after. *)

Mutate(p) ==
  /\ Expert(p) /\ Images # {}
  /\ due' = TRUE
  /\ Go(p, IF due THEN "work_again" ELSE "work")
  /\ kind' = [kind EXCEPT ![p] = "mutate"]
  /\ UNCHANGED <<saved, report, raws, flow, final, files, rec, prod, faults, edits, touched, mutated, feed>>

\* (mutant) a command that changed nothing removes the marker of an earlier one.
WorkUnmarks(p) ==
  /\ pc[p] \in {"work", "work_again"}
  /\ \/ /\ due' = FALSE /\ Leave(p) /\ UNCHANGED <<saved, mutated>>
     \/ /\ \E d \in Disks : /\ saved[d] = "partial"
                            /\ saved' = [saved EXCEPT ![d] = "full"]
        /\ mutated' = TRUE /\ Go(p, "refresh") /\ OthersKeep /\ UNCHANGED due
  /\ UNCHANGED <<report, raws, flow, final, files, bounds, feed>>

\* Nothing changed and no audit was due before: there is nothing to audit.
Work(p) ==
  /\ pc[p] \in {"work", "work_again"}
  /\ \/ /\ UNCHANGED <<saved, mutated>>
        /\ due' = (pc[p] = "work_again")
        /\ IF pc[p] = "work" THEN Leave(p) ELSE Go(p, "refresh") /\ OthersKeep
     \/ /\ \E d \in Disks : /\ saved[d] = "partial"
                            /\ saved' = [saved EXCEPT ![d] = "full"]
        /\ mutated' = TRUE /\ Go(p, "refresh") /\ OthersKeep /\ UNCHANGED due
  /\ UNCHANGED <<report, raws, flow, final, files, bounds, feed>>

Refresh(p) ==
  /\ pc[p] = "refresh"
  /\ report' = saved /\ mutated' = FALSE
  /\ Go(p, "unmark") /\ OthersKeep
  /\ UNCHANGED <<saved, raws, due, flow, final, files, bounds, feed>>

Unmark(p) ==
  /\ pc[p] = "unmark"
  /\ due' = FALSE
  /\ Leave(p)
  /\ UNCHANGED <<saved, report, raws, flow, final, files, bounds, mutated, feed>>

-----------------------------------------------------------------------------
(* Faults, and changes by hand while no command runs. *)

Stays == UNCHANGED <<saved, job, cursor, recorded, packs, report, raws, due, files,
                     touched, mutated>>

\* (mutant) the error is returned before the report of what could not be queued.
ScanErrorFirst(p) ==
  /\ pc[p] = "scan" /\ Broken
  /\ Failed(p) /\ scan' = NoScan /\ storage_errors' = {} /\ UNCHANGED <<refused, unheard>>
  /\ Stays /\ UNCHANGED <<faults, experts, edits>>

\* A scan that cannot go on ends its command, and a production with it.
ScanError(p) ==
  /\ pc[p] = "scan" /\ Broken
  /\ Failed(p) /\ scan' = NoScan /\ ReportErrors
  /\ Stays /\ UNCHANGED <<faults, experts, edits>>

Fail(p) ==
  /\ pc[p] # "idle" /\ faults < MaxFaults
  /\ faults' = faults + 1
  /\ Failed(p) /\ scan' = NoScan /\ ReportErrors
  /\ Stays /\ UNCHANGED <<experts, edits>>

Crash(p) ==
  /\ pc[p] # "idle" /\ faults < MaxFaults
  /\ faults' = faults + 1
  /\ Leave(p) /\ scan' = NoScan /\ LoseErrors
  /\ Stays /\ UNCHANGED <<flow, final, experts, edits>>

\* `fv disk select`.
SelectDisk(n) ==
  /\ Free /\ edits < MaxEdits /\ n # cursor
  /\ cursor' = n
  /\ touched' = touched \cup {<<0, "cursor">>}
  /\ edits' = edits + 1
  /\ UNCHANGED <<saved, job, recorded, packs, unqueued, scan, report, raws, due, flow, final, files, local,
                 faults, experts, mutated>>

EditCopy(z, part, how) ==
  /\ Free /\ edits < MaxEdits /\ root[z][part] # "absent" /\ root[z][part] # how
  /\ root' = [root EXCEPT ![z][part] = how]
  /\ touched' = touched \cup {<<z, part>>}
  /\ edits' = edits + 1
  /\ UNCHANGED <<saved, report, raws, due, flow, final, zips, intents, ready, local, faults,
                 experts, mutated, feed>>

Damage(d) ==
  /\ Free /\ edits < MaxEdits /\ saved[d] \in {"partial", "full"}
  /\ saved' = [saved EXCEPT ![d] = "damaged"]
  /\ edits' = edits + 1
  /\ UNCHANGED <<report, raws, due, flow, final, files, local, faults, experts, touched, mutated, feed>>

-----------------------------------------------------------------------------
Init ==
  /\ ScanInit
  /\ report = NoReport /\ raws = 0 /\ due = FALSE
  /\ flow = NoFlow /\ final = NoFinal
  /\ zips = <<>> /\ intents = {} /\ root = <<>> /\ ready = 0
  /\ pc = [p \in Procs |-> "idle"] /\ kind = [p \in Procs |-> "none"]
  /\ rec = [p \in Procs |-> NoFinal] /\ prod = [p \in Procs |-> NoFlow]
  /\ faults = 0 /\ experts = 0 /\ edits = 0 /\ touched = {} /\ mutated = FALSE

\* The steps of a command once it runs.
Step(p) ==
  \/ Scans(p) \/ Background(p) \/ EndFeed(p) \/ TailReport(p) \/ EndScan(p) \/ CallFinish(p)
  \/ Recover(p) \/ Report(p) \/ Decide(p) \/ RawReport(p) \/ Build(p) \/ SaveReceipt(p)
  \/ Intent(p) \/ Copy(p) \/ Point(p) \/ Finish(p) \/ Deliver(p)
  \/ Work(p) \/ Refresh(p) \/ Unmark(p)

Command(p) ==
  \/ ProductionStart(p) \/ ScanStart(p) \/ PackagePublish(p) \/ Mutate(p)
  \/ \E allow \in BOOLEAN : FinalizeStart(p, allow)
  \/ \E allow, again \in BOOLEAN : Resume(p, allow, again)

Next ==
  \/ \E p \in Procs :
       \/ Step(p) \/ Command(p) \/ Fail(p) \/ Crash(p)
       \/ Confirms(p) \/ Quits(p) \/ Reads(p) \/ Reseats(p) \/ Unqueued(p)
       \/ ScanError(p) \/ TailFails(p)
  \/ \E z \in DOMAIN root, part \in Parts, how \in {"absent", "changed"} : EditCopy(z, part, how)
  \/ \E d \in Disks : Damage(d)
  \/ \E n \in First .. Last + 1 : SelectDisk(n)

Spec == Init /\ [][Next]_vars

\* A command that runs goes on; the operator starts production again and confirms
\* a label in one of the scans that offer it, and one of its reads succeeds.
FairSpec ==
  /\ Spec
  /\ WF_vars(\E p \in Procs : Step(p))
  /\ WF_vars(\E p \in Procs : ProductionStart(p))
  /\ SF_vars(\E p \in Procs : Confirms(p))
  /\ SF_vars(\E p \in Procs : Reads(p))

-----------------------------------------------------------------------------
(* Properties. *)

Delivered(z) ==
  /\ z \in intents
  /\ \A k \in Parts : root[z][k] = "copy" \/ <<z, k>> \in touched

\* The final report in an archive that is handed off describes the very evidence
\* in the archive, although both are written at different times.
ReportedArchived ==
  \A z \in intents : zips[z].report # NoReport => zips[z].report = zips[z].images

\* Evidence changed by a direct command and not described by a report yet leaves
\* the marker of a due audit, whatever happens to the command (mutation_audit.rs).
AuditStaysDue == mutated => due

\* Whatever is called ready, complete or clean is so, over any number of crashes
\* and restarts: the archive that the ready pointer or a record names was handed
\* off with all its reports (delivery_publish.rs, publish_contents); a complete
\* production archived every label of its range, and none whose files had
\* changed since they were read; in a clean archive nothing needs attention.
\* And its report is of its evidence, and none that is due is forgotten.
RecordsTrue ==
  /\ ready # 0 => Delivered(ready)
  /\ \A r \in {flow, final} : r.phase \in Complete =>
       /\ r.package \in DOMAIN zips /\ Delivered(r.package)
       /\ r.phase = "complete_clean" =>
            \A d \in Disks : zips[r.package].images[d] \in {"none", "full"}
  /\ flow.phase \in Complete =>
       \A d \in Disks : zips[flow.package].images[d] \notin {"none", "damaged"}
  /\ ReportedArchived /\ AuditStaysDue

\* A scan can end with labels whose packing tasks could not be saved, and knows them
\* until it reports them.
ErrorsHeld ==
  storage_errors # {} =>
    \E p \in Procs : pc[p] \in {"scan", "tail_process", "tail_report", "endscan"}

\* A completed label has packing tasks, or saving them failed.  No crash or error
\* between the job, the tasks, the journal and the number loses the tasks, and a
\* failure to save them goes unreported only if the process was killed with it
\* (src/cli/flux_scan.rs, run): the journal has nothing of it.
CompletedQueued ==
  /\ completed \subseteq packs \cup storage_errors \cup refused \cup unheard
  /\ ErrorsHeld

\* Production ends with a delivery after any number of failures and crashes, if
\* no evidence is damaged and no other label selected by hand, and if no second
\* raw-only report was needed.
DeliveredAtLast ==
  [](/\ raws < 2 /\ <<0, "cursor">> \notin touched
     /\ \A d \in Disks : saved[d] # "damaged") => <>(flow.phase \in Complete)
=============================================================================
