# FluxVault verification project

TLA+ modules, TLC configurations and TLAPS proofs about the part of FluxVault
that is hard to test: several threads and several durable files, cut by crashes,
that together decide which floppy is in which drive, which evidence counts, and
when a run is finished. Paths are relative to `src/src/` unless they say
otherwise.

## 1. The system

FluxVault archives numbered floppies. An operator puts a floppy into the USB
drive or the Greaseweazle (GW) drive and types its label; the program reads it,
seals the evidence, hands a damaged USB floppy on to the GW, and processes what
is saved in the background. Everything durable is a file in the project folder.

| Part | State it keeps | Operations | Source |
| --- | --- | --- | --- |
| Coordinator | journal: paused, generation, occupied labels, one `Disk` per label (phase, ticket, USB and GW receipt, error, triage) | open, claim, select_queued_instead, confirm, complete, failed, removed, release_identity_mismatch, confirm_same_disk, set_paused | `production.rs` |
| Dual-scan session | event channel (64), two worker threads, stop token, draining flag, error report | feed (pump), begin, input thread, deliver, end of range, drop | `cli/dual_scan.rs` |
| GW recovery job | stages (captures), result, approval, pending publication; rejection archives | recover, publish, reject_identity_job, confirm_same_disk_mode | `flux_recovery.rs`, `gw_publication.rs` |
| Imaging | attempts on disk: image, log, map, metadata | next_attempt_number, acquisition, load_attempts | `imaging.rs`, `usb_handoff.rs` |
| Derivation from saved images | reports, reservations and derived attempts beside the others | plan, composite, mirrored FAT, publish, verify | `recovery_plan.rs`, `composite.rs`, `sector_recovery.rs`, `offline_images.rs` |
| Read conflicts | none (a decision over sector maps) | build, check | `read_conflicts.rs` |
| Processing queue | one task file per sealed attempt; finish and cancel flags; one-slot wake channel | start, enqueue_attempt, finish, drop, worker loop, record_final | `processing.rs` |
| Packing queue | task files, raw captures and packed copies, capture locks, scratch | start, enqueue, pack, retire raw, finish | `flux_archive.rs`, `flux_storage_work.rs` |
| Run control | run record, stop request of one generation | start, stop, watcher | `run_control.rs` |
| Admission | permits and a FIFO of waiting requests | background, foreground, drop | `resource_budget.rs` |
| Ownership | project, snapshot, conversion and drive locks | reserve, snapshot, acquire | `project_work.rs`, `conversion_lock.rs`, `cli/media_reservation.rs` |
| Conversion | plan, published outputs, run state | run, replay, publish | `conversion*.rs` |
| Finalization, delivery | stage receipts, packages, published copies | finish, resume, publish, retire | `cli/finalize*.rs`, `cli/production_flow.rs`, `package*.rs`, `delivery_*.rs` |
| Extraction | 7-Zip's directory of an attempt, native and forensic generations, copies of their reports, fragments, backups | classify, run 7-Zip, recover, recover deleted, preserve fragments, select | `batch_extraction.rs`, `extraction.rs`, `fat12_recovery.rs`, `recovery_*.rs` |
| FAT12 analysis | none (a computation over an image and a map of bad sectors) | layout, traversal, lost directories, verdicts, deleted files, orphans, tails | `fat12*.rs`, `fragments.rs` |
| Documents, reports | none beyond their outputs | carving, text salvage, editions, reports | the remaining files |

**How they interact.** The pump is one thread and owns the coordinator; all
journal commits are its calls. Readers run on their own threads, publish
evidence files, and answer through the bounded event channel. The input thread
shares that channel. A sealed attempt becomes a task file of the processing
queue, and a GW capture one of the packing queue; their workers run beside the
pump. A stop (Ctrl+C, `STOP`, or another process through `run_control.rs`) sets
a token that all of them poll.

**What is hard.** Evidence is published before the journal hears of it, so every
crash point between them must be adopted by the retry. An identity release
writes three files. One operator line makes up to four commits. The channel can
be full when an answer arrives. A drain flag is read while tasks are being
saved. Threads wait for each other at the end. `PROJECT.json` lists these
hazards at their lines, with the property that covers each one or the reason
why none does yet.

**What makes each part correct.**
- Coordinator: the journal is always valid, no receipt is ever lost or replaced,
  a restart always opens, one label gives one image per station, and a mixed-up
  floppy is never silently accepted.
- Session: every answer arrives exactly once, a refused line strands no label,
  every sealed image is queued for processing, and a session asked to end ends
  with no thread on a drive.
- Queues: nothing enqueued before `finish` is left behind, no wake-up is lost,
  nothing finished is run again, `finish` returns.
- Packing: an intact copy of a capture always survives, no reader is disturbed,
  and no accepted task is forgotten.
- Admission and the snapshot gate: everybody ends, on any way out.
- Run control: a stop reaches the run it means and no later one.
- Images: an attempt number has one owner, a complete attempt is never replaced,
  a derived image holds nothing its sources did not read, and a crash makes no
  label unreadable.
- Recovery jobs: budgets, sealed evidence and the decision to give up survive any
  number of interrupted runs; an image is of one floppy.
- Conversion: made once, never over a file, recognised after a crash.
- FAT12 analysis: damage makes no file up; a cluster is given once; what can be
  read is recovered.
- Extraction: a later run never loses what an earlier one found, and comes to the
  same end.
- Finalization, delivery: whatever a record calls complete, clean or ready is.

## 2. Modules

| Module | Models | Notes |
| --- | --- | --- |
| `Custody` | what the coordinator promises | abstract: where a label is and which stations have sealed evidence of it |
| `Production` | `production.rs`, and what the two readers publish (`flux_recovery.rs`, `gw_publication.rs`, `imaging.rs`, `read_conflicts.rs`) | refines `Custody` |
| `DualScan` | `cli/dual_scan.rs`, on top of `Production` | every journal or evidence change is a `Production` action |
| `Processing` | `processing.rs` | the queue and its worker |
| `FluxArchive` | `flux_archive.rs`, `flux_storage_work.rs` | packing, its queue, other packers and readers |
| `Workstation` | `resource_budget.rs`, `project_work::snapshot`, with the real clients of both | admission and the snapshot gate together |
| `RunControl` | `run_control.rs` | sessions, stop and status commands |
| `Conversion` | `conversion_run.rs`, `conversion_publication.rs` | outputs, receipts, saved rows |
| `FluxCapture` | `flux_capture.rs`, `flux_capture_publication.rs` | operators only; the evidence of one label |
| `FluxRecovery` | `flux_recovery.rs`, `gw_publication.rs`, on top of `FluxCapture` | one recovery job over many runs |
| `FluxScan` | `cli/flux_scan.rs` | the GW-only feed; operators only |
| `Finishing` | `cli/production_flow.rs`, `cli/finalize*.rs`, `package.rs`, `delivery_publish.rs`, `cli/mutation_audit.rs`, on top of `FluxScan` | from the first prompt to the delivery |
| `ImageCatalog` | `imaging.rs`, `offline_images.rs`, `composite.rs`, `sector_recovery.rs`, `recovery_plan.rs`, and the file steps of `gw_publication.rs` | three publishers of numbered attempts of one label |
| `Fat12` | `fat12*.rs`, the choice of clusters in `fragments.rs` | one native scan of a damaged image |
| `Extraction` | `batch_extraction.rs`, `extraction.rs`, `fat12_recovery.rs`, `recovery_backup.rs`, `recovery_selection.rs`, `fragments.rs` | runs on one disk, on top of `Fat12` |
| `MC*` | instances for TLC | model values, symmetry, state constraints |
| `*Proofs` | theorems | section 5 |

### Production

The variables fall into four groups: the **journal** (`paused`, `generation`,
`occupied`, `disks`), written by one `rename` and therefore changed by one
action each; the **evidence** (`images`, `captured`, `job`, `archives`), files
that survive a crash; `owner`, `reader` and `releasing`, lost with the process.
`Exit` may come between any two actions.

- `Open`, `ClaimRetry` / `ClaimRecovery` / `ClaimFresh` (the three outcomes of
  `claim`), `SelectQueuedInstead`, `Confirm`, `Complete`, `Failed`, `Removed`,
  `SetPaused`, `ConfirmSameDisk` are the methods of `Coordinator`.
- `release_identity_mismatch` is three actions, `ReleaseArchive`, `ReleaseReset`
  and `ReleaseCommit`, one per file it writes; `ReleaseFails` is a write error.
- `UsbAdopt`, `UsbAcquire`, `ReadFails` are `usb_read`. `GwRefuse`, `GwCapture`,
  `GwFormatException`, `GwReject`, `GwAccept`, `GwPublish`, `GwSeal`, `GwReuse`
  are the steps and exits of `recover_impl` and `publish`.
- `AcquireElsewhere` is another command (`fv acquire`) while no coordinator runs.

Sector data is abstracted: `floppy` is the physical disk an image came from,
which the program never sees; `bad` tells whether none, some or all sectors are
unreadable; `verdict` is the outcome of comparing with the USB image. The model
admits two readings of *different* floppies agreeing nowhere they can be
compared (`Comparisons`); it does not admit two different floppies being
byte-equal in every mutually readable sector, nor differing in so few that the
difference counts as minor.

`commit()` refuses a journal that `validate()` rejects. That test is *not* a
guard of any action: `JournalValid` states it as an invariant, so what is
checked and proved is that the refusal is unreachable.

### DualScan

`pump` is the feed thread's position: at the loop top, receiving, inside the
commits of a line (`remove`, `transfer`, `claim`, `confirm`), spawning a worker,
enqueuing, releasing an identity, being dropped, or past the feed in the file
work. `channel` is the bounded channel; `thread` each worker as the session
knows it; `closing` the flag that `Session::drop` sets; `stdin` the input
thread. What a line says is chosen when the pump parses it, because no earlier
step depends on it. Progress messages (dropped when the channel is full) and the
display change no state. An output error may end the feed wherever the pump
writes (`AbortFeed`).

### Processing

`status` is the durable task file. The worker's loop is cut where another
thread's write can change what it sees: reading the files (`Top`), reading the
drain flag (`Idle`), reading the files again (`Recheck`), waiting (`Wait`),
each task verified (`Validate`), the run, each record. `Fault` is an I/O error
of the worker's own bookkeeping, which ends it and is reported. Whether an image
verifies and whether the pipeline succeeds is nondeterministic.

### FluxArchive

`raw`, `zip` and `meta` are the three files of a capture, each absent, good or
bad; `tasks` the task files. A packer (the queue's worker, or `fv storage pack`)
walks `LockAndCheck`, `Begin`, `Build`, `Bind`, `CheckPair`, `Retire`: the
exclusive lock is tried, the raw file verified, scratch pruned, the archive and
then its sidecar published, the pair verified, the raw file removed. A reader
(`Open`, `Unpack`, `Shut`) holds the lock shared. The lock itself is no
variable: it is held by whoever stands at a step under it, and dies with it. The
queue is `Start`, `Enqueue`, `Finish`, `Close`, `Join` on the owner's side and
`Top`, `List`, `Choose*`, `Record`, `Wait` on the worker's. A call of enqueue holds
no lock, so it is several steps: it looks at the files (`Enqueue`), verifies a
packed capture (`EnqueueVerified`) or looks for a task (`FindTask`), writes one
(`WriteTask`) and wakes the worker (`Wake`); `calling` and `given` say where it
stands and with what, and the worker may pack that capture in between.
`QueueExits`, `OperatorKilled`, `ReaderKilled` are crashes, `PackFails` and
`EnqueueFails` any error, `Damage` a file going bad. One thing is atomic here and not in the code: the last check of a
pair and the removal of its raw file (`Retire`); damage between the two would
defeat any program.

### Workstation

The tickets, counters and probes of the governor (`waiting`, `foreground`,
`background`, `bulk_io`, `seen`), the snapshot gate, and the clients that use
both: reads that publish, packers, Office workers the pipeline joins, the
pipeline. What a client probed may have changed when it uses it (`ProbeHost`
before `Grant`). The three time limits may run out at any time (`GiveUp`,
`LeaveGate`'s exits), and no property needs them to.

### RunControl

`session`, `token`, `control` (the record), `request` (the file of a
generation) and the positions of the stop and status commands. `Start` and
`Register` are two steps, as the lock and the record are two files; a probe
(`fv run status`, `fv stop`) holds the lock for a moment.

### Conversion

`target` is the delivery folder, `sealed` the private copies with a receipt,
`state` and `history` what runs saved. `Begin`, then for each output of a run
`Replay*`, `Check`, `Host`, `Seal`, `Promote` or `Fail`, then `SaveHistory` and
`SaveState`. Bytes are model values: two runs of the host tool on one source may
differ. `Crash`, `Cancel`, `EditByHand` and a new extraction attempt
(`Reextract`) may come between any two steps.

### FluxCapture and FluxRecovery

A capture slot goes free, started (the receipt is reserved), prepared (sealed
with the hash of the output), payload, done; a decode likewise. `FluxCapture`
has these as operators, and what a set of captures says about its floppy
(`Refused`, `Unfinished`). `FluxRecovery` is the job: `stages`, `result` and
`image` are its file and its publication; `Start`, `Replay`, `Resume`,
`NewStage`, `Capture`, `Publish`, `ClockStops`, `Decode`, `RecordDecode`,
`Judge`, `PassesOver`, `ReserveImage`, `CommitImage`, `SaveResult` are one run's
steps. Sectors are grouped in regions; a region is read or not, and a shared one
has the same bytes on every floppy, so the comparison of captures cannot see a
difference there. Time is a number of ticks that run only where a stage's clock
runs. The drive may hold another floppy at every pass.

### FluxScan and Finishing

`FluxScan` has the loop of a GW-only scan: label, custody, reading, verification,
packing tasks, result, number. Three files are written one after the other
(`job`, `pending`/`completed`, `cursor`). A packing task that cannot be saved
(`VerifyUnqueued`) is an error in memory (`storage_errors`); it is printed when the
scan returns, with a response or an error (`ReportErrors`, history `refused`), and
is lost with a process killed before (`LoseErrors`, history `unheard`).
`Finishing` runs the scan inside the
production flow and adds everything that follows: the final report (or the
raw-only one), the archive, the intent to hand it off, the copies beside
`project.json`, the ready pointer, and the two records (`flow`, `final`) that
say how far a run came. `pc`, `rec` and `prod` are what a process holds in
memory; `Fail`, `Crash` and `TailFails` may come at every step. Direct commands
(`Mutate`, `Work`, `Refresh`, `Unmark`) change evidence and leave the marker of a
due audit. `EditCopy`, `Damage` and `SelectDisk` are changes by hand, made while
no command runs.

### ImageCatalog

Every file of an attempt is a variable indexed by slot: the reservation or
partial metadata (`part`), the unfinished image (`wip`), the image, the log, the
metadata. An acquisition is `UsbChoose`, `UsbOpen`, `UsbRead`, `UsbGate` and
three renames; a derivation `DeriveStart` (the plan), `DeriveStage` (the
intermediate images), `DeriveReserve`, then report, image, log and metadata; a GW
job has one step per file. Image data are functions from four sectors (boot, the
two copies of a FAT sector, one of a file) to bytes, so `Composite`,
`MirroredFat`, `Replay` and `Plan` are the code's choices and no placeholders.
A file may be changed by hand while the gate is free (`Edit`); a crash may come
between any two steps, and one inside the write of the partial metadata tears it.

### Fat12

The image is a record: the links of both copies of the FAT, the entries of the
root and of every cluster that holds a directory, the parents that dot entries
name, and which sequences of clusters a format validator would accept
(`whole`). A sector in `bad` is read as filler, so the scan may use nothing of
it. A cluster is one sector; a size counts clusters. The scan is `analyze`
entry by entry: `queue` are the directories to read, `owners` and `named` what
live entries have claimed, `seen`, `excluded`, `found`, `deleted` what was
learned. `Resolve` decides on the layout; `Gap` is an unreadable part of a
directory; `FileEntry`, `DirEntry`, `OddEntry`, `DeletedEntry`, `LongName`,
`Label` are the kinds of entries; `Search` looks once for directories whose own
entry is lost; then `Judge`. What is decided afterwards are operators:
`Verdict`, `Unclaimed`, `Tails`, `Undeletable`, `Fragments`.

`Sound` says what a floppy without a fault is, and `Live`, `Written`, `ReachedTo`
what such a floppy holds, from the bytes as they were written. They are
independent of the scan, which sees only what was read.

### Extraction

`folder` is the directory 7-Zip fills (or the operator's), `native` the
generation published for live and for deleted files, `copy` their reports
beside them, `fragments`, `backup`. A run goes from `Start` (with `Classify`) to
`Extract`, `Backup`, `Check`, the scan (`Analyze`), `Publish`, `CopyReport`,
`Preserve`, or leaves early (`Finish`). The directories are published by a
rename and so appear in one step; the copy of the report is written in place
and may be torn. `Crash` and `PutFiles` may come between any two steps, except
inside a scan, which writes nothing; `TakeFiles` comes between runs. Whether
7-Zip succeeds is nondeterministic; if it does, it extracts the live files.

## 3. Runs

| Run | Question | Instance |
| --- | --- | --- |
| `production` | do all interleavings of commands, readers, crashes and restarts keep the journal valid and the receipts permanent, keep a mistaken floppy out, and implement `Custody`? | 2 labels, 2 floppies, 6 tickets, 2 captures |
| `dual_scan` | does the session keep answers, workers, jobs and commits consistent, and end when asked to? | 2 labels, 1 floppy, channel of 1, 2 tickets, 1 capture |
| `archive` | does packing keep a copy, an open source and the task, and does `finish` return with all packed? | 2 captures, 1 operator, 1 decoder, 2 damaged files |
| `processing` | does the queue lose, repeat or strand a task, and does `finish` return? | 3 tasks |
| `workstation` | does anything leak, does anybody starve? | 5 clients on 3 processors, one shortage |
| `run_control` | whom does a stop request reach? | 3 runs, 2 stop commands, 1 status command |
| `recovery` | does an interrupted recovery job end as an uninterrupted one would? | 3 passes, 2 regions, 2 floppies, 2 ticks, 2 runs that end early |
| `conversion` | is anything made twice, overwritten or forgotten? | 2 outputs, 3 runs, 1 edit |
| `finishing` | is what is called complete, clean or ready so, and does production deliver? | 2 labels, 2 processes, 1 fault, 2 direct commands, 1 edit or 1 label without packing tasks |
| `image_catalog` | do acquisitions, GW jobs and derivations that share attempt numbers keep the label readable and the derived images true? | 4 sectors, 5 numbers, 2 acquisitions, 1 GW job, 1 crash, 1 edit |
| `salvage` | does a scan give every cluster once, only what is true and all that can be had, and does a repeated extraction lose anything? | 5 clusters; up to 3 bad sectors; faulty and disputed images; on 5 images 3 runs |
| `gw_slot` | is the slot a GW job reserved its own? | **violated**, see below |

Deadlock is checked in every run but those of `FluxRecovery`, `Finishing`,
`ImageCatalog` and `Extraction`: a recovery job and a production that have
ended, a label whose attempts give nothing new, and a disk that was extracted
`MaxRuns` times do nothing more.

**Bounds.** Every bound is a constant named in the module, and appears in guards
only; three runs add a state constraint, defined in their `MC` module.
`MaxGeneration` bounds tickets, `MaxCaptures` the flux captures per label. Two
labels are enough for everything that relates labels: the rules relate at most
two labels and two stations at a time. One label with six tickets is the longest
history of one identity: USB ticket, GW ticket with the wrong floppy, release
cut by a crash, retry, release, second GW ticket, approval. `TicketBound` gives
that length to one label and three tickets to two labels in use: a state with
more is reached and checked but not continued. A channel of one slot (64 in the
code) is full with one line or one answer, the case where an answer must wait;
`EnvironmentBound` of `dual_scan` continues a stop and an end of the input only
while one label is in use. Three tasks are one being run, one saved while the
worker looks, and one left by an earlier session. `EnvironmentBound` of
`archive` continues the operator, the decoder and damaged files only while one
capture is in use; two captures alone exercise the queue, its owner's calls and
failed packings. `FirstIsA`
breaks the symmetry of two floppies that have no names: the one read first is
called `fA`. Three passes of a recovery job are a first, one that improves and
one that does not; two ticks let a budget be split by a crash; two early ends
are a crash and the crash of its resumption. Two acquisitions are one that meets a derivation and one
that adds to it, and five numbers let every publisher come to a number of its
own and one be burnt. Three conversion runs are one that
dies, one that replays and one that replays that. A raw, a partial and a full
reading in the two labels of `finishing` give every outcome of the report.
Five clusters hold two fragmented files, a directory in two pieces, or two
directories inside each other, with a link left over to lose. Three bad sectors
reach a link in both copies of the FAT and one more place (the boot sector, a
directory, content). `DamagedCases` are floppies without a fault under all such
damage; `FaultyCases` are all links between three clusters under entries that
share them; `OddCases` are disputed links, crossed directories and shared
clusters. The runs of `Extraction` are repeated in `Studied` cases only, one
scan of every other. Three runs are one that is cut off, one that goes on, and
one that finds both; `PerSector` is 2 (16 in the code) so that a directory has
a readable and an unreadable part, `MaxDepth` 3 (32).

A state constraint cuts behaviours, so the liveness properties of `archive` and
`dual_scan` are checked on what remains: every way the environment can be busy
on one capture or label.

**Properties worth naming.** `ReaderServesTicket` (no answer is ever stale),
`OneImagePerStation` (retries adopt and do not read twice),
`MixedIdentityFlagged` (two floppies under one label only by an explicit custody
assertion, and never as complete), `BeginCommits` (the removal a line implies is
always followed by a legal claim), `EverySealedQueued` (also
after a crash between receipt and job), `CompletedQueued` (no ending of a scan
but a kill forgets that packing tasks could not be saved), `DrainLeavesNothing`
(the worker's five-second timeout is not needed for it), `FinishDrains` (all that
was entrusted is packed, though the worker and a call of enqueue may work on the
same capture), `EvidenceSurvives`
and `ReadersUndisturbed` (two locks, two orders of removal), `EverybodyEnds`
(without any timeout), `OldRequestsHarmless` (a request names the run it means),
`BudgetHeld` and `GivesUpForCause` (however often a job is resumed),
`PublishedRecognised` (also what a run left that died before it could save
anything), `RecordsTrue` (a record written in one step about inputs read in
another: receipts, reports that an archive holds, copies, the audit that a
changing command owes), `DerivedTruthful` (also after a hand changed a source or
an intermediate image), `LabelReadable` and `SalvageArrives` (a derivation cut
anywhere is finished by the next), `ClaimedOnce` (on any image, consistent or
not), `TrueAndWhole` (against the floppy as it was written), `PayloadsKept` and
`SalvageRepeats` (however runs of 7-Zip, of native recovery and of the operator
are mixed). `RecordsTrue`, `CompletedQueued`, `FinishDrains`,
`ClaimedOnce` and `TrueAndWhole`, which say more than one thing, have more than one mutant.

**Disagreements found.** One has a run:
- `gw_slot`: a GW publication reserves its attempt number in a file of
  `Flux/Recovery` (`gw_publication.rs:66`), and the choice of a number looks at
  `Images` alone (`imaging.rs:929`). If the process dies, or the disk is full,
  before the partial metadata are there, or if an acquisition had chosen the same
  number before, somebody else gets it, and every later run of the job ends with
  "Existing GW publication bytes differ". `SalvageArrives` excludes it
  (`Blocked`).

Others are visible in the models and have no run of their own:
- Every attempt of a raw-only finalization writes another raw-only report, all of
  them go into the archive, and the handoff refuses an archive with more than one
  (`cli/finalize.rs:53`, `delivery_publish.rs:325`): a raw-only production that
  failed once cannot be handed off. `DeliveredAtLast` excludes it by `raws < 2`.
- The report of the fragments says "Ambiguous/crosslinked ownership is not
  exported" (`fragments.rs:160`). `partial_file_safe` (`fat12_orphans.rs:138`)
  looks at the reason recorded for a file, and an unreadable sector is recorded
  before an ambiguous name or a crosslinked directory is (`fat12.rs:649`), so
  the fragments of such a file are exported. Their clusters are nobody else's
  (`ClaimedOnce`).
- "A child of another evidenced orphan is visited via that parent's actual entry,
  not seeded twice" (`fat12_directories.rs:147`). The test looks one level up. Of
  three lost directories inside each other, when the middle one leaves no traces
  because its first sector cannot be read, the innermost is seeded as a lost one
  and read again through its entry: its clusters then count as crosslinked, and
  none of its files is recovered. A lost directory whose parent is taken for a
  lost one is not seeded even if its entry there cannot be read; it is never
  found. `Alone` and `Taken` leave these files out of what can be had; the
  image `Deep` has the first of the two histories.
- The copy of a native report is created and then written
  (`fat12_recovery.rs:671`). One torn by a crash differs from what every later
  run would write, and each of them ends with "Existing native report differs",
  although the generation is intact. `SalvageRepeats` excludes it.
- `reject_identity_job` writes the rejection archive
  (`flux_recovery.rs:1436`) before it resets the job. If the process ends in
  between and the operator reads the label again instead of repeating the
  release, `claim` clears the recorded identity error, the read stops at "Current
  recovery references identity-rejected captures", and the release then refuses
  the label because that error is not an identity exception. The GW station keeps
  a label it can neither read nor release.
- "Failed tasks and original evidence remain available for retry"
  (`docs/guides/CAPTURE_STORAGE.md:17`). A packing task that could not be saved at all is known
  to the memory of the scan alone (`cli/flux_scan.rs:524`) until it prints it
  (`:560`). If the process is killed after the journal's commit, the label is
  completed, has no task, nobody was told, and no later scan looks at it again; its
  raw capture stays. These labels are `unheard` in `CompletedQueued`.
- A call of enqueue looks at the capture and its task (`flux_archive.rs:692`, `702`)
  before it writes the task (`723`). If the worker, with a task of an earlier
  process or call, packs the capture and removes that task in between, the task is
  written again. The worker, which has attempted it, does not see it, and `finish()`
  returns without an error and with a task left. It is harmless: its capture is
  packed, which is what `FinishDrains` says, and the next worker removes it.
- The input thread ends at the first line whose send fails
  (`cli/dual_scan.rs:1181`), and sends fail as soon as the feed has returned. A
  `STOP` typed after any such line, while files are processed, is not heard;
  Ctrl+C and `fv stop` still are.
- An acquisition writes its partial metadata over whatever has the name
  (`imaging.rs:784`), so one that chose its number before a derivation reserved
  it destroys the reservation and replaces the image; `contested` keeps these
  histories apart, and `AttemptsKept` says that nothing else is ever replaced.
- A partial metadata file torn by a crash of an acquisition makes
  every later derivation of the label fail (`offline_images.rs:556` parses all
  of them) until it is removed by hand; `Blocked` has it.
- `fv stop` between a session's lock and its record (`run_control.rs:172`, `197`)
  reads the record of the run before, and its request reaches nobody; the model
  has it (`Register`), and `AcceptedStopEnds` is stated so that it holds.
- A file a dead run published is bound to a path of the earlier generation
  (`conversion_publication.rs:84`): after another extraction was selected, the
  next run reports a conflict. `PublishedRecognised` speaks of the outputs that a
  receipt of the current extraction or a saved run vouches for.
- A first decode that was sealed and not published by a run that died keeps the
  job from ever being resumed (`flux_format.rs:224` looks only at published
  decodes). So does a receipt created and not written
  (`flux_capture_publication.rs:31`), a torn image file
  (`gw_publication.rs:159`), captures that disagree, and a first stage whose
  budget was spent without a decode. `Stuck` lists them, and `RecoveryEnds`
  says there are no others.

## 4. Fairness

- `FairDualSpec`: weak fairness of the pump, of the end of the file work and of
  each reader (a read is a bounded number of passes over a bounded disk, and the
  host tool has time limits). `Deliver` gets strong fairness: the worker polls
  every 20 ms, and the channel, emptied by the pump, is full only for moments
  between lines an operator types. No fairness is given to the operator, to
  output errors, to stops or to restarts.
- `Processing`: weak fairness of the worker and of the producer once it has begun
  to finish. Verifications and tool runs have time limits.
- `FluxArchive`: weak fairness of the worker, of closing the queue and of the
  join. Nothing is assumed of operators, decoders or damage: the worker never
  waits for a lock, and a failed task stays on disk.
- `Workstation`: weak fairness of each client's steps, of the pipeline and of the
  end of a shortage; strong fairness of entering the gate, whose holders keep it
  for a short commit.
- `RunControl`: weak fairness of each session's watcher, which polls.
- `FluxRecovery`: weak fairness of `Start` (the operator runs the command again)
  and of the run's steps. Early ends are bounded by `MaxFaults`; ticks are not
  forced.
- `Finishing`: weak fairness of a command's own steps and of `production start`
  being run again; strong fairness of the operator confirming a label and of
  readings that succeed, both of which an index-pulse retry can interrupt.
- `ImageCatalog`: weak fairness of whoever holds the gate and of a derivation
  (processing is run again while the gate is free). None of acquisitions or of
  starting a GW job.
- `Extraction`: weak fairness of a run's own steps; no liveness is stated of it.
- `Conversion` states no liveness.

## 5. Proofs

TLC checks small instances; the theorems hold for every label range, every set
of floppies, tasks, captures, outputs, operators, readers and processes, every
bound, and every image with every set of bad sectors. **Every safety property
that a run checks is a theorem.**

What is assumed of the constants (each a named `ASSUME` that TLC evaluates):
label ranges are 1-based and not empty (`RangeAssumption`, `ScanAssumption`);
bounds are naturals (`BoundAssumption`, `CapacityAssumption`, `SlotsAssumption`,
`PolicyAssumption`, `EnoughSlots`, `FinishingAssumption`); threads have different
names (`ArchiveAssumption`); runs are numbered from 1 (`RunAssumption`), and so
are extraction attempts (`ConversionAssumption`); a disk has finitely many
clusters, numbered from 2 (`FatAssumption`), finitely many regions
(`RegionAssumption`) and sectors, of which those of the two FATs correspond in
pairs (`CatalogAssumption`); directories list a number of entries
(`CasesAssumption`); the clients of the governor are finitely many and each of
one kind (`BudgetAssumption`). No theorem assumes anything of the state;
`TrueAndWhole` itself speaks of floppies without a fault.

Each theorem `Spec => []P` is an inductive invariant (`...Inv`, proved once per
module as `...Invariant`) and `...Inv => P`; an action property comes from the
invariant and one more pass over the actions. The step has a lemma or a step per
action. Each invariant was checked with TLC before it was proved.

- **`CoordinatorProofs`** (`Production`, `DualScan`).
  - `CoordinatorInv`: `TypeOK`, `JournalValid`, `ReaderServesTicket`,
    `PublicationBound`. `JournalValid` alone is not inductive: `Complete` stores
    what the reader hands over, so it also needs that a running reader still serves
    the ticket its station holds, and that its attempt exists; and that needs
    `PublicationBound`: the slot a GW job reserved is the next one or already
    published, and an approval has the USB receipt it binds. From it
    `JournalAlwaysValid`, `ReadersServeTheirTickets`, `ReceiptsArePermanent`. Frame
    lemmas (`OtherLabel`, `MovedLabel`, `ReservedLabel`) reduce a change of one
    label to that label and its distance from the others.
  - `EvidenceInv`, what images, recovery job and rejection archives say of one
    label: stations publish once per label and a pending slot is the published one
    (`OneImageEach`); a published GW capture is in no archive, and a release under
    way is of a disputed label without GW image (`RejectedStayUnpublished`); a
    verdict of agreement was reached with the same floppy (`MixedAreFlagged`). The
    first needs `FreshKept`: no label with images on disk counts as fresh, so the
    first USB read of a ticket finds none.
  - `CoordinatorImplementsCustody`: each step maps to a step of `Custody` or to a
    stutter, action by action; restarts, files and tickets are hidden.
  - `SessionImplementsCoordinator`, `DualSpec => Spec`: a session is a use of the
    coordinator, so the theorems above hold of every session. It needs only that
    the commits of a line name a station and a label of the range.
  - `FeedInv`, over the coordinator's invariant: a station has a worker exactly
    while its label is read (`WorkersServe`); what `begin` checked of a line
    (`BeginKept`) still holds at its later commits (`BeginIsCommitted`);
    attempts saved are queued, reported or the one the pump holds
    (`EverySealedIsQueued`).
- **`ServicesProofs`** (`RunControl`, `Processing`, `Workstation`).
  - `RunInv`: the record and every stop command name runs that have begun; a
    command that was over when a run began never aims at it; a request file or a
    cancelled token goes back to a command that aimed at this run. From it `OldRequestsStayHarmless`.
  - `ProcessingInv`: an idle or waiting worker with something left to take up has a
    wake-up pending or about to be sent; the rest says how the flags follow the
    producer. From it `DrainIsComplete`, `FinishedTasksStay`, and `WakeupsAreKept`,
    which no run checks by name: the five-second timeout is never needed.
  - `WorkInv`: the governor's counters are the numbers of permits held and keep to
    its slots (`PermitsCounted`), tickets are drawn by those that wait
    (`TicketsDrawn`), the gate is held by the one in it (`GateHeld`), and the
    pipeline has neither permit nor ticket while it waits for its Office workers
    (`NothingNested`). These are `AdmissionIsCounted` and `NothingIsNested`, for
    every set of clients and any number of processors, whoever fails or gives up.
    From them `NoDeadlockOfResources`, the safety half of `EverybodyEnds`: unless
    all are done, somebody can go on without a timeout. If no permit is held, the
    counters are zero, and the waiter that is first by class and ticket is not
    deferred; that a first one exists needs finitely many clients.
- **`FluxArchiveProofs`** (`FluxArchive`): `ArchiveInv` adds to the three properties
  that whoever stands at a step under the lock is alone there, and that what it has
  checked is still so, and that what a call of enqueue saw still holds
  (`CallHolds`): the capture it verifies stays packed, and before it wakes the
  worker the capture has a task or is packed. `EvidenceAlwaysSurvives`,
  `ReadersNeverDisturbed`, `NeverForgotten`.
- **`RecoveryProofs`** (`FluxRecovery`, `FluxCapture`): `RecoveryInv` says where a
  run stands, that stages have slots of their own, that the clock left running by
  a dead run is still charged (`TimeCharged`, for `BudgetIsHeld`), and that the
  counters of a run are those of the stages before it (`Counted`, `PassedOn`).
  `GivesUpOnlyForCause` rests on the last: replaying the sealed stages after a
  crash gives the counts the interrupted run had, so interruptions never count
  as passes that brought nothing. `ImageIsOfOneFloppy` and `SealedIsKept` besides.
- **`ConversionProofs`** (`Conversion`): `OutputInv` is a conjunction for each
  output. Nothing is made of an output that has a receipt, and generations to come
  have none (`MadeOnce`, for `OneCopyIsSealed`); for an output that no hand has
  changed, the file agrees with its receipt and with every saved success
  (`TargetFollows`, `RowsFollow`, `RunKnows`), which gives `PublishedIsRecognised`.
  `NothingIsOverwritten` besides.
- **`FinishingProofs`** (`Finishing`, `FluxScan`): `FinishInv` says what a command
  knows at each of its steps of the evidence (before its archive) and of the
  archive (after it), that one command works at a time, that an audit stays due
  until a report of the evidence as it is, and that a report in an archive is
  absent or of that archive's images. `RecordsAreTrue` needs all of it, since a
  record written at the end repeats what was decided many steps before.
  `CompletedAreQueued` rests on the scan's part (`ScanInv`) and on `ErrorsHeld`:
  whatever command works, an error that is not reported yet belongs to a scan that
  still runs.
- **`ExtractionProofs`** (`Extraction`, `Fat12`).
  - `EveryClusterOnce`: live files through the claims a scan records; the
    rest by following chains. A chain is the walk along a partial function, cut at
    the first repetition or bad link; `WalkExists` and `Least` build and cut it with
    least elements of finite sets of numbers, since induction with an operator
    parameter is out of reach. Two unclaimed chains that share a cluster have a
    first common one. It has one predecessor, which both chains share too, unless it
    is the head of one of them, and a head has none.
  - `RecoveredAsWritten` (from `LearntInv`): if the two FATs agree, a recovered
    file consists of the clusters its chain had on the floppy, in order, all read.
  - `ExtractedPayloadsKept` needs `NothingInTheWay`: a scan runs only where no
    generation was published, and 7-Zip makes a directory only where native
    recovery has published nothing. `SalvageIsRepeatable` adds (`SalvageInv`) that
    only a disk with a map of its sectors is scanned or has a generation, and that
    fragments lie only beside a partial generation.
  - `SalvageIsTrueAndWhole`: every state of a scan satisfies `TrueAndWhole`. What
    is read of a chain is a beginning of it as it was written, so a name that was
    read is a floppy's name, and by `Sound` one entry's. The rest says how far the
    scan is, in `Tree`:
    - a name belongs to one live, readable entry of a directory that was entered,
      or to a lost directory (`NamedInv`, `Apart`, `TakenInv`), and claims are made
      by names, on the clusters of the entry (`OwnersInv`);
    - the queue holds beginnings of entered directories, each entry waits in one
      place, and of what can be read there everything waits or has its name
      (`QueueInv`, `PendingInv`, `WaitingInv`, `ProgressInv`): so nothing is
      forgotten when the queue is empty;
    - what has a name was found or entered (`SeenInv`, `VisitedInv`, `FoundInv`), and
      the search took exactly the directories it can know to be lost (`SearchInv`);
    - the ancestors of a file are clusters of directories above it (`PathInv`).
      This one quantifies over all sets of directories that are closed upwards: a
      path is then never spelled out, nor followed level by level. With
      it, a file below a lost directory that is read once has no crosslinked
      ancestor, and its verdict is its own.

    `Sound` says that dot entries are true, also in what looks like a directory
    inside a file: the program knows a lost directory by nothing else, and contents
    that imitate one would be taken for it. It bounds the depth, since the program
    stops at `MaxDepth`. The theorem is for every set of floppies
    and damages (`Cases`), sizes of sectors and depth, and has no other hypothesis:
    it is about a scan that meets none of the work limits (section 6).
- **`CatalogProofs`** (`ImageCatalog`): always, one publisher holds the gate, what
  it has put into its slot stays there until it is done, and sources that conflict
  are never merged (`GateHeld`, `HolderKept`, `Agreeing`). While no number was taken
  from its owner and no file was changed by hand (`Undisturbed`), the files of a
  complete attempt also agree with each other and with its recipe, and the sources
  of every recipe are still what it was planned from. Only
  `LabelIsReadable` needs the second half: a derived attempt is judged by its
  recipe over files that other publishers wrote since. `DerivedIsTruthful` holds
  after any change by hand: sources that agree leave one value for each sector
  (`ReplayTruthful`), and that both copies of a FAT sector are treated alike uses
  that the pairs of `Mirror` correspond.

**Only model-checked:** liveness (`DrainEnds`, `FinishDrains`, `FinishEnds`,
`EverybodyEnds`, `AcceptedStopEnds`, `RecoveryEnds`, `DeliveredAtLast`,
`SalvageArrives`), since fairness and ENABLED are out of the prover's reach. Of
`EverybodyEnds` it is proved that clients never all wait for each other.

## 6. Not modelled

Image, flux, document and report formats: sequential byte-level code with
byte-level tests. Windows job objects and drives: outside this code. The
acquisition-only mode of the scan. Damage to files between two runs of the
coordinator.

`FluxRecovery` leaves out: an expert capture adopted as the first stage, the
`whole_job` time scope, the comparison with a USB image (`Production` has it),
captures of single cylinders, a second profile tried on the first capture, and
the check of the controller board. `Finishing` leaves out: the dual-station flow
of production (`DualScan` has it), `package build` without a handoff, `report
export`, `process` alone, `--last-disk` values other than the range's, profile
and policy options, `--count`, and changes by hand while a command runs.
`ImageCatalog` leaves out preferred images that an operator pinned, the repair of
a boot sector, attempts of different geometry, and labels other than one (they
share no file).
`Fat12` leaves out the competition of several candidate layouts, the work
limits (a scan tries at most 64 tails of broken chains,
`fat12_fragmented.rs:79`; the floppies of the run, for which `TrueAndWhole` says
that all that can be had is recovered, need fewer), the bytes of names, clusters
of several sectors and a size that ends
inside one. `Extraction` leaves out damaged or altered managed directories, the
copies of snapshots and the record of a selection, several attempts of one
disk, two native runs at a time (a lock per disk refuses the second), and the
text salvage of documents.
`PROJECT.json` gives the reason component by component.

## 7. Plan

1. **Done:** every module of section 2.
2. Next: the sector loop of an acquisition (`imaging.rs`, `usb_handoff.rs`), and
   the whole session: `DualScan` with the real queues of `Processing` and
   `FluxArchive`, for the hazard that packing tasks are not replayed
   (`cli/dual_scan.rs:936`).
3. The choice of evidence for missing ranges, pinned images, and several
   attempts of a disk in `Extraction`.
4. **Done:** a theorem for every safety property that a run checks, and the safety
   half of `Workstation`.

## 8. Running

    tlc -workers 2 -config production.cfg MCProduction.tla
    tlapm CoordinatorProofs.tla

Each `.cfg` belongs to the `MC` module of the same component; `PROJECT.json`
lists the runs, the mutant of each property, and the source lines each
definition stands for.
