----------------------------- MODULE Extraction -----------------------------
(***************************************************************************)
(* What is extracted from the saved image of one disk, run after run       *)
(* (src/batch_extraction.rs, src/extraction.rs, src/fat12_recovery.rs,     *)
(* src/recovery_backup.rs, src/recovery_selection.rs, src/fragments.rs).   *)
(* A run of the pipeline has 7-Zip extract an image that was read whole,   *)
(* and otherwise, or when that fails, keeps a backup of the image and has  *)
(* native recovery scan it (Fat12).  Every result is published by renaming *)
(* a directory; only the copy of the report is written in place.  The      *)
(* operator may also run native recovery or the recovery of deleted files  *)
(* alone, and put files of his own beside the results.  A run may be cut   *)
(* off at any point.                                                       *)
(***************************************************************************)
EXTENDS Fat12

CONSTANTS
  Studied,     \* the cases in which runs are repeated, cut off and mixed
  MaxRuns      \* bound: runs on one disk

VARIABLES
  log,         \* of the acquisition: "complete", "derived", "progress" or "unknown"
  folder,      \* the directory of the attempt
  loose,       \* the operator's files lie in the directory of the disk
  native,      \* kind -> the generation published, a set of at most one
  copy,        \* kind -> the copy of its report: "none", "torn" or "whole"
  fragments,   \* the fragments of incomplete files are published
  backup,      \* the first backup was made
  at,          \* where the run stands, "idle" between runs
  mode,        \* "batch", "disk", "native" or "deleted"
  status,      \* what the last run that ended said of the disk
  runs

disk == <<log, folder, loose, native, copy, fragments, backup>>
run == <<at, mode, status, runs>>
vars == <<saved, scan, disk, run>>

Modes == {"batch", "disk", "native", "deleted"}
Kinds == {"live", "deleted"}
Kind == IF mode = "deleted" THEN "deleted" ELSE "live"
Repeated == [image |-> image, bad |-> bad] \in Studied

\* The directory of the attempt: absent, without a marker (of the operator, or
\* empty), or with the files 7-Zip extracted.
NoFolder == [kind |-> "none", files |-> {}]
Unmarked == {[kind |-> "manual", files |-> {}], [kind |-> "bare", files |-> {}]}
Managed(files) == [kind |-> "managed", files |-> files]

-----------------------------------------------------------------------------
(* select_managed and inspect_extraction_presence. *)

Candidate(files, reachable, names) == [files |-> files, reachable |-> reachable, names |-> names]
Extracted == IF folder.kind = "managed" THEN {Candidate(folder.files, folder.files, 0)} ELSE {}

\* A later generation is preferred if it keeps every payload, every one that
\* was reachable, and as many names; 7-Zip's comes first.
Keeps(new, old) == old.files \subseteq new.files /\ old.reachable \subseteq new.reachable /\ new.names >= old.names
Preferred ==
  LET generation == {g.content : g \in native["live"]}
  IN IF \E g \in generation : \A old \in Extracted : Keeps(g, old) THEN generation ELSE Extracted
NativePreferred == native["live"] # {} /\ Preferred # Extracted

Presence ==
  IF folder.kind \in {"manual", "bare"} /\ native["live"] # {} THEN "native"
  ELSE IF folder.kind = "manual" THEN "manual"
  ELSE IF folder.kind = "bare" THEN "missing"
  ELSE IF loose THEN "manual"
  ELSE IF NativePreferred THEN "native"
  ELSE IF folder.kind = "managed" THEN "extracted"
  ELSE "missing"

Attention == log = "derived" \/ bad # {}

\* (mutant) that native recovery was needed before does not count.
ClassifyAfresh ==
  IF Presence = "manual" THEN "manual"
  ELSE IF log = "progress" THEN "in_progress"
  ELSE IF log = "unknown" \/ Attention THEN "recovery"
  ELSE "extract"

\* classify_attempt
Classify ==
  IF Presence = "manual" THEN "manual"
  ELSE IF log = "progress" THEN "in_progress"
  ELSE IF log = "unknown" \/ Attention \/ Presence = "native" THEN "recovery"
  ELSE "extract"

-----------------------------------------------------------------------------
(* The steps of a run. *)

Rescan == /\ phase' = "layout" /\ queue' = <<>> /\ pos' = 1 /\ pending' = {} /\ searched' = FALSE
          /\ seen' = {} /\ owners' = {} /\ named' = {} /\ found' = {} /\ deleted' = {} /\ excluded' = {}
GoTo(step) == at' = step /\ UNCHANGED <<mode, status, runs>>
Finish(result) == at' = "idle" /\ status' = result /\ UNCHANGED <<mode, runs>>

\* A run begins: native recovery alone looks at nothing first.
Start(m) ==
  /\ at = "idle" /\ runs < IF Repeated THEN MaxRuns ELSE 1
  /\ Repeated \/ m = "native"
  /\ runs' = runs + 1 /\ mode' = m /\ Rescan
  /\ IF m \in {"native", "deleted"} THEN at' = "check" /\ UNCHANGED status
     ELSE CASE Classify = "recovery" -> at' = "backup" /\ UNCHANGED status
            [] Classify = "extract" -> at' = "extract" /\ UNCHANGED status
            [] OTHER -> at' = "idle" /\ status' = Classify
  /\ UNCHANGED <<saved, disk>>

\* run_extraction: what 7-Zip makes of the image, or a directory that is there.
Extract ==
  /\ at = "extract"
  /\ \/ /\ folder.kind = "managed" /\ folder.files # {}
        /\ Finish("reused") /\ UNCHANGED folder
     \/ /\ folder.kind \in {"manual", "bare"} \/ folder = Managed({})
        /\ GoTo("backup") /\ UNCHANGED folder
     \/ /\ folder.kind = "none"
        /\ \/ GoTo("backup") /\ UNCHANGED folder
           \/ GoTo("backup") /\ folder' = Managed({})
           \/ /\ \E e \in Live : Entry(e).kind = "file"
              /\ folder' = Managed({Written(Entry(e).start).clusters : e \in {e \in Live : Entry(e).kind = "file"}})
              /\ Finish("extracted")
  /\ UNCHANGED <<saved, scan, log, loose, native, copy, fragments, backup>>

\* ensure_first_backup: a disk alone is not recovered without it.
Backup ==
  /\ at = "backup"
  /\ \/ backup' = TRUE /\ GoTo("check")
     \/ ~backup /\ UNCHANGED backup /\ IF mode = "disk" THEN Finish("failed") ELSE GoTo("check")
  /\ UNCHANGED <<saved, scan, log, folder, loose, native, copy, fragments>>

Unavailable == IF mode \in {"batch", "disk"} THEN "recovery" ELSE "refused"

\* recover_with_mode, before the scan: not beside the operator's files, and only
\* with a map of all sectors; a generation that was published is used again.
Check ==
  /\ at = "check"
  /\ IF (mode # "deleted" /\ Presence = "manual") \/ log \in {"progress", "unknown"} THEN Finish(Unavailable)
     ELSE IF native[Kind] # {} THEN GoTo("copy")
     ELSE GoTo("scan")
  /\ UNCHANGED <<saved, scan, disk>>

Analyze == at = "scan" /\ Scan /\ UNCHANGED <<disk, run>>

\* What a generation holds: the files, and the documents that are found in
\* unclaimed chains, in the readable parts of incomplete files and at
\* hypothetical tails; without a layout, those in the sectors as they lie.
Carved(clusters) ==
  {doc \in image.whole : /\ AllReadable(doc)
                         /\ \E i \in DOMAIN clusters : IsPrefix(doc, SubSeq(clusters, i, Len(clusters)))}
Payload ==
  IF phase = "unknown" THEN Candidate(Carved(SetToSortSeq(Clusters, <)), {}, 0)
  ELSE LET files(found_) == {f.clusters : f \in found_}
           joined(f) == {doc \in image.whole : \E tail \in Tails(f) :
                           IsPrefix(doc, f.clusters \o tail) /\ Len(doc) > Len(f.clusters)}
       IN Candidate(files(Recovered) \cup UNION {Carved(Chain(h).clusters) : h \in Unclaimed}
                      \cup UNION {Carved(f.clusters) \cup joined(f) : f \in {f \in Incomplete : Safe(f)}},
                    files({f \in Recovered : f.claim[1][1] = 0}),
                    Cardinality({f \in found : Last(f.claim[1]) # Entry(f.claim[2]).alias}))

\* The generation is published by a rename.
Publish ==
  /\ at = "scan" /\ Over
  /\ IF mode = "deleted" /\ phase = "unknown" THEN Finish("refused") /\ UNCHANGED native
     ELSE /\ native' = [native EXCEPT ![Kind] = {[content |-> IF mode = "deleted"
                           THEN Candidate({Extent(d) : d \in Undeleted}, {}, 0) ELSE Payload,
                           partial |-> phase = "judged" /\ Incomplete # {}]}]
          /\ GoTo("copy")
  /\ Rescan
  /\ UNCHANGED <<saved, log, folder, loose, copy, fragments, backup>>

\* save_report_copy: a copy that differs is left alone, and the run refused.
CopyReport ==
  /\ at = "copy"
  /\ IF copy[Kind] = "torn" THEN Finish(Unavailable) /\ UNCHANGED copy
     ELSE /\ copy' = [copy EXCEPT ![Kind] = "whole"]
          /\ IF mode = "deleted" THEN Finish("forensic") ELSE GoTo("fragments")
  /\ UNCHANGED <<saved, scan, log, folder, loose, native, fragments, backup>>

\* (mutant) fragments that are there are taken for somebody else's.
PreserveNew ==
  /\ at = "fragments"
  /\ fragments' = (fragments \/ \E g \in native["live"] : g.partial)
  /\ Finish(IF fragments THEN Unavailable ELSE "partial_recovered")
  /\ UNCHANGED <<saved, scan, log, folder, loose, native, copy, backup>>

\* preserve: the fragments are published by a rename, or found as they must be.
Preserve ==
  /\ at = "fragments"
  /\ fragments' = (fragments \/ \E g \in native["live"] : g.partial)
  /\ Finish("partial_recovered")
  /\ UNCHANGED <<saved, scan, log, folder, loose, native, copy, backup>>

\* A run is cut off; what was being written in place is torn, and what had
\* been renamed stays.
Crash ==
  /\ Repeated /\ at # "idle" /\ (at = "scan" => phase = "layout")
  /\ \/ UNCHANGED <<copy, fragments>>
     \/ /\ at = "copy" /\ copy[Kind] = "none"
        /\ copy' = [copy EXCEPT ![Kind] = "torn"] /\ UNCHANGED fragments
     \/ at = "fragments" /\ fragments' = (\E g \in native["live"] : g.partial) /\ UNCHANGED copy
  /\ at' = "idle" /\ status' = "cut off" /\ UNCHANGED <<mode, runs>>
  /\ UNCHANGED <<saved, scan, log, folder, loose, native, backup>>

\* The operator puts files in the directory of the disk or of the attempt.
PutFiles ==
  /\ Repeated /\ (at = "scan" => phase = "layout")
  /\ ~loose /\ folder.kind = "none" /\ runs < MaxRuns
  /\ \/ loose' = TRUE /\ UNCHANGED folder
     \/ folder' \in Unmarked /\ UNCHANGED loose
  /\ status' = IF at = "idle" THEN "none" ELSE status
  /\ UNCHANGED <<at, mode, runs, saved, scan, log, native, copy, fragments, backup>>

\* The operator takes loose files away again.
TakeFiles ==
  /\ loose /\ at = "idle" /\ loose' = FALSE
  /\ status' = "none" /\ UNCHANGED <<at, mode, runs>>
  /\ UNCHANGED <<saved, scan, log, folder, native, copy, fragments, backup>>

Logs == {"complete", "derived", "progress", "unknown"}
Init ==
  /\ \E case \in Cases : image = case.image /\ bad = case.bad
  /\ ScanInit
  /\ log \in IF Repeated THEN Logs ELSE {"complete"}
  /\ folder = NoFolder /\ loose = FALSE /\ fragments = FALSE /\ backup = FALSE
  /\ native = [k \in Kinds |-> {}] /\ copy = [k \in Kinds |-> "none"]
  /\ at = "idle" /\ mode = "batch" /\ status = "none" /\ runs = 0

Step == Extract \/ Backup \/ Check \/ Analyze \/ Publish \/ CopyReport \/ Preserve
Next == \/ Step \/ Crash \/ PutFiles \/ TakeFiles
        \/ \E m \in Modes : Start(m)
Spec == Init /\ [][Next]_vars /\ WF_vars(Step)

-----------------------------------------------------------------------------
(* Properties. *)

\* What the preferred generation of the acquisition holds is never lost to a
\* later one, whichever way and however often the disk is extracted, and
\* whatever is cut off (docs/recovery/RECOVERY_SELECTION.md).
PayloadsKept ==
  [][\A old \in Preferred : \E new \in Preferred' :
       old.files \subseteq new.files /\ old.reachable \subseteq new.reachable]_vars

\* Extraction can be repeated: once native recovery has published a generation,
\* and unless its report's copy was torn or the operator's files take its
\* place, every run that ends finds the disk partly recovered again, with
\* the fragments of its incomplete files.
SalvageRepeats ==
  /\ at = "idle" /\ mode \in {"batch", "disk", "native"} /\ native["live"] # {}
  /\ status \notin {"none", "cut off", "failed", "manual", "reused"} /\ copy["live"] # "torn"
  /\ Presence # "manual"
  => status = "partial_recovered" /\ (fragments <=> \E g \in native["live"] : g.partial)
=============================================================================
