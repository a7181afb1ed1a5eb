----------------------------- MODULE FluxRecovery -----------------------------
(***************************************************************************)
(* A recovery job (src/flux_recovery.rs): up to Passes escalating stages,  *)
(* each one capture and its decode, until the label has no unfinished      *)
(* region, enough passes in a row brought nothing, or the budgets are      *)
(* spent; then one image is published.  The job file is replaced at every  *)
(* step, so a run that ends at any point - an error, a stop, a crash - is  *)
(* resumed by the next one from the file and the evidence of FluxCapture.  *)
(*                                                                         *)
(* Time passes in ticks, only where a stage's clock runs: while its        *)
(* capture is in flight, or since a run died in one.  The geometry is      *)
(* identified from the first capture; the budget is per stage (the         *)
(* defaults).  Comparison with a USB image is module Production's part.    *)
(***************************************************************************)
EXTENDS FluxCapture, Sequences

CONSTANTS Passes,       \* RecoveryPolicy.passes
          Budget,       \* max_seconds, in ticks
          Patience,     \* no_improvement_limit
          MaxFaults     \* bound: runs that end early
ASSUME PolicyAssumption ==
  Passes \in Nat \ {0} /\ Budget \in Nat \ {0} /\ Patience \in Nat \ {0} /\ MaxFaults \in Nat
ASSUME EnoughSlots == MaxSlots >= Passes + MaxFaults

VARIABLES
  stages,   \* Journal.stages: slot, decode recorded, time charged, clock running
  result,   \* Journal.result
  image,    \* the image of the job: reserved, its files, its metadata
  run,      \* the run: what it does, for which stage, its counters
  faults,   \* bound: runs that ended early
  drive     \* (history) stage -> ticks its drive was really reading
vars == <<evidence, stages, result, image, run, faults, drive>>
durable == <<stages, result, image>>

\* since is the time the capture has been in flight, -1 when none is.
Stages == [slot : Slots, decoded : BOOLEAN, spent : 0 .. Budget, since : {-1} \cup 0 .. Budget]
Steps == {"pass", "read", "clock", "decode", "identify", "judge", "publish"}
Runs == [pc : Steps \cup {"off"}, index : 1 .. Passes + 1, dull : 0 .. Passes,
         left : 0 .. Cardinality(Regions)]
Off == [pc |-> "off", index |-> 1, dull |-> 0, left |-> Cardinality(Regions)]

-----------------------------------------------------------------------------
At(pc)    == run.pc = pc
To(pc)    == run' = [run EXCEPT !.pc = pc]
NextPass  == run' = [run EXCEPT !.pc = "pass", !.index = @ + 1]
Stage     == stages[run.index]
Slot      == Stage.slot
HasStage  == run.index \in 1 .. Len(stages)
Decoded(n) == {i \in 1 .. n : stages[i].decoded}
Sources(n) == {stages[i].slot : i \in Decoded(n)}
First(n)   == CHOOSE i \in Decoded(n) : \A j \in Decoded(n) : i <= j

\* aggregate, over the first n stages: an error without a decode, or when the
\* receipts cannot be read or the captures are not of one floppy.
Aggregates(n) ==
  /\ Decoded(n) # {} /\ ~litter
  /\ ~Refused(stages[First(n)].slot, Sources(n))

\* capture_remaining_ms of a stage whose clock does not run.
Exhausted(i) == stages[i].spent = Budget

\* finish_capture_clock: the time in flight is charged, whoever ran it.
Charge(s) ==
  IF s.since = -1 THEN s
  ELSE [s EXCEPT !.spent = IF @ + s.since > Budget THEN Budget ELSE @ + s.since, !.since = -1]

\* (mutant) a clock left running by a run that died is reset.
SettleForgetting == [i \in DOMAIN stages |-> [stages[i] EXCEPT !.since = -1]]
Settle == [i \in DOMAIN stages |-> Charge(stages[i])]

\* The run ends without a result; a limited number of them is explored.
RunEnds == run' = Off /\ faults < MaxFaults /\ faults' = faults + 1
Refuse  == run' = Off /\ UNCHANGED faults

-----------------------------------------------------------------------------
(* A run starts: an image reserved by an earlier one is finished first.     *)

Start ==
  /\ At("off") /\ result = "none"
  /\ IF image # "none"
     THEN Aggregates(Len(stages)) /\ To("publish") /\ UNCHANGED stages
     ELSE run' = [Off EXCEPT !.pc = "pass"] /\ stages' = Settle
  /\ UNCHANGED <<evidence, result, image, faults, drive>>

\* The top of the loop over the passes.
Top == At("pass") /\ run.index <= Passes

\* A stage decoded by an earlier run counts as it did then.
Replay ==
  /\ Top /\ HasStage /\ Stage.decoded
  /\ To("judge")
  /\ UNCHANGED <<evidence, durable, faults, drive>>

Pending == Top /\ HasStage /\ ~Stage.decoded

\* (mutant) only a published capture is taken up.
SavedPublished(a) == cap[a].state = "done"
Saved(a) == SealedAt(a)

\* The first capture is decoded to identify its format.  A decode that was
\* sealed there by a run that died is taken as it lies, still unpublished, and
\* refused; only the decodes of later stages are published by the next run.
Unpublished ==
  run.index = 1 /\ cap[Slot].state = "done" /\ dec[Slot] \in {"prepared", "payload"}
Finishes ==
  \/ cap[Slot].state # "done" /\ PublishCapture(Slot) /\ UNCHANGED run
  \/ cap[Slot].state = "done" /\ ~Unpublished /\ To("decode") /\ UNCHANGED evidence

\* (mutant) the budget is looked at before saved captures are.
ResumeInBudget ==
  /\ Pending /\ Saved(Slot) /\ ~Exhausted(run.index) /\ Finishes
  /\ UNCHANGED <<durable, faults, drive>>

\* A sealed capture is finished without the drive, whatever time is left.
Resume ==
  /\ Pending /\ Saved(Slot) /\ Finishes
  /\ UNCHANGED <<durable, faults, drive>>

\* A stage without time is passed over if an earlier one was decoded.
OutOfTime ==
  /\ Pending /\ ~Saved(Slot) /\ cap[Slot].state # "torn" /\ Exhausted(run.index)
  /\ IF Decoded(Len(stages)) # {} THEN NextPass ELSE Refuse
  /\ UNCHANGED <<evidence, durable, faults, drive>>

\* stage_capture_slot: the first free slot after those of the other stages.
NewSlot(a) ==
  LET after == {b \in Slots : \A i \in DOMAIN stages \ {run.index} : stages[i].slot < b}
  IN a \in after /\ ~Occupied(a) /\ \A b \in after : b < a => Occupied(b)

\* A stage is in the job file before anything is read for it.
NewStage ==
  /\ Top /\ ~HasStage
  /\ run.index = 1 \/ Aggregates(Len(stages))
  /\ \E a \in Slots :
       /\ NewSlot(a)
       /\ stages' = Append(stages, [slot |-> a, decoded |-> FALSE, spent |-> 0, since |-> -1])
  /\ UNCHANGED <<evidence, result, image, run, faults, drive>>

\* The drive may start: the stage takes a free slot, and its clock runs.
Opens(a) ==
  /\ Pending /\ ~Saved(Slot) /\ cap[Slot].state # "torn" /\ ~Exhausted(run.index)
  /\ NewSlot(a)
  /\ stages' = [stages EXCEPT ![run.index].slot = a, ![run.index].since = 0]

Capture ==
  /\ \E a \in Slots : Opens(a) /\ ReserveCapture(a)
  /\ To("read")
  /\ UNCHANGED <<result, image, faults, drive>>

\* The receipt is left torn, and the run ends.
CaptureTorn ==
  /\ \E a \in Slots : Opens(a) /\ TornCapture(a)
  /\ RunEnds
  /\ UNCHANGED <<result, image, drive>>

-----------------------------------------------------------------------------
(* The drive reads. *)

\* What is left of the stage's time is the host's timeout.
InTime == Stage.spent + Stage.since < Budget
Tick ==
  /\ At("read") /\ cap[Slot].state = "started" /\ InTime
  /\ stages' = [stages EXCEPT ![run.index].since = @ + 1]
  /\ drive' = [drive EXCEPT ![run.index] = @ + 1]
  /\ UNCHANGED <<evidence, result, image, run, faults>>

\* The clock of a capture that no run attends.
Downtime ==
  /\ At("off")
  /\ \E i \in DOMAIN stages :
       /\ stages[i].since \in 0 .. Budget - 1
       /\ stages' = [stages EXCEPT ![i].since = @ + 1]
  /\ UNCHANGED <<evidence, result, image, run, faults, drive>>

HostDone(f, good) ==
  /\ At("read") /\ SealCapture(Slot, f, good)
  /\ UNCHANGED <<durable, run, faults, drive>>
Publish ==
  /\ At("read") /\ PublishCapture(Slot)
  /\ UNCHANGED <<durable, run, faults, drive>>
ClockStops ==
  /\ At("read") /\ cap[Slot].state = "done"
  /\ stages' = [stages EXCEPT ![run.index] = Charge(@)]
  /\ To("decode")
  /\ UNCHANGED <<evidence, result, image, faults, drive>>

\* No index pulse, a host error, a stop: the time is charged, the run ends.
HostFails ==
  /\ At("read") /\ FailCapture(Slot)
  /\ stages' = [stages EXCEPT ![run.index] = Charge(@)]
  /\ RunEnds
  /\ UNCHANGED <<result, image, drive>>

\* The policy's deadline is no failure when an earlier pass was decoded.
Deadline ==
  /\ At("read") /\ ~InTime /\ FailCapture(Slot)
  /\ stages' = [stages EXCEPT ![run.index] = Charge(@)]
  /\ IF Decoded(Len(stages)) # {} THEN NextPass ELSE Refuse
  /\ UNCHANGED <<result, image, faults, drive>>

-----------------------------------------------------------------------------
(* The decode, which needs no drive. *)

\* A well-read region shows the format; without one it may show or not.
Identified == cap[Slot].good # {}

Decode ==
  /\ At("decode") /\ ~litter
  /\ \/ ReserveDecode(Slot) \/ SealDecode(Slot) \/ PublishDecode(Slot)
  /\ UNCHANGED <<durable, run, faults, drive>>
DecodeFails ==
  /\ At("decode") /\ FailDecode(Slot) /\ RunEnds
  /\ UNCHANGED <<durable, drive>>
DecodeTorn ==
  /\ At("decode") /\ dec[Slot] \in {"none", "started", "failed"} /\ TornDecode /\ RunEnds
  /\ UNCHANGED <<durable, drive>>

\* The first capture must show one of the supported formats; a label that
\* shows none, with every trial decoded, is finished as a raw exception.
Exception ==
  /\ At("decode") /\ ~litter /\ dec[Slot] = "done" /\ run.index = 1 /\ ~Identified
  /\ result' = "exception" /\ run' = Off
  /\ UNCHANGED <<evidence, stages, image, faults, drive>>
RecordDecode ==
  /\ At("decode") /\ ~litter /\ dec[Slot] = "done"
  /\ stages' = [stages EXCEPT ![run.index].decoded = TRUE]
  /\ To("judge")
  /\ UNCHANGED <<evidence, result, image, faults, drive>>

-----------------------------------------------------------------------------
(* What a decoded stage brought. *)

\* (mutant) the first pass counts as one that brought nothing, if it did.
DullFirst(left) == IF left >= run.left THEN run.dull + 1 ELSE 0
Dull(left) == IF run.index > 1 /\ left >= run.left THEN run.dull + 1 ELSE 0

Judge ==
  LET left == Cardinality(Unfinished(Sources(run.index)))
      dull == Dull(left)
  IN
  /\ At("judge") /\ Aggregates(run.index)
  /\ run' = [pc |-> IF left = 0 \/ dull >= Patience THEN "publish" ELSE "pass",
             index |-> IF left = 0 \/ dull >= Patience THEN run.index ELSE run.index + 1,
             dull |-> dull, left |-> left]
  /\ UNCHANGED <<evidence, durable, faults, drive>>

PassesOver ==
  /\ At("pass") /\ run.index > Passes /\ Aggregates(Len(stages))
  /\ To("publish")
  /\ UNCHANGED <<evidence, durable, faults, drive>>

\* The evidence cannot be read or agreed on: the run ends, and so will others.
Disagree ==
  /\ \/ At("judge") /\ ~Aggregates(run.index)
     \/ At("pass") /\ run.index > Passes /\ ~Aggregates(Len(stages))
     \/ At("decode") /\ litter
     \/ Pending /\ (cap[Slot].state = "torn" \/ Unpublished)
     \/ Top /\ ~HasStage /\ run.index > 1 /\ ~Aggregates(Len(stages))
  /\ Refuse
  /\ UNCHANGED <<evidence, durable, drive>>

-----------------------------------------------------------------------------
(* Publication: the slot is reserved with the hash of the evidence, the     *)
(* files are written, and the metadata file commits the image.              *)

ReserveImage ==
  /\ At("publish") /\ image = "none" /\ image' = "reserved"
  /\ UNCHANGED <<evidence, stages, result, run, faults, drive>>
CommitImage ==
  /\ At("publish") /\ image = "reserved" /\ image' = "committed"
  /\ UNCHANGED <<evidence, stages, result, run, faults, drive>>
\* A file that a crash left half-written is refused by every later run.
ImageTorn ==
  /\ At("publish") /\ image = "reserved" /\ image' = "torn" /\ RunEnds
  /\ UNCHANGED <<evidence, stages, result, drive>>
ImageRefused ==
  /\ At("publish") /\ image = "torn" /\ Refuse
  /\ UNCHANGED <<evidence, durable, drive>>
SaveResult ==
  /\ At("publish") /\ image = "committed"
  /\ result' = "image" /\ run' = Off
  /\ UNCHANGED <<evidence, stages, image, faults, drive>>

\* An error, a stop or a crash between any two durable writes.
Crash ==
  /\ ~At("off") /\ RunEnds
  /\ UNCHANGED <<evidence, durable, drive>>

-----------------------------------------------------------------------------
Init ==
  /\ CaptureInit
  /\ stages = <<>> /\ result = "none" /\ image = "none"
  /\ run = Off /\ faults = 0
  /\ drive = [i \in 1 .. Passes |-> 0]

Read == \E f \in Floppies, good \in SUBSET Regions : HostDone(f, good)
Step ==
  \/ Replay \/ Resume \/ OutOfTime \/ NewStage \/ Capture \/ Read \/ Publish \/ ClockStops \/ Deadline
  \/ Decode \/ Exception \/ RecordDecode \/ Judge \/ PassesOver \/ Disagree
  \/ ReserveImage \/ CommitImage \/ ImageRefused \/ SaveResult
Fault == CaptureTorn \/ HostFails \/ DecodeFails \/ DecodeTorn \/ ImageTorn \/ Crash
Next == Start \/ Step \/ Tick \/ Downtime \/ Fault

Spec == Init /\ [][Next]_vars

\* The operator starts the job again; a run goes on; the drive gets time.
FairSpec == Spec /\ WF_vars(Start) /\ WF_vars(Step)

-----------------------------------------------------------------------------
(* Properties. *)

\* No number of crashes, stops and restarts gives a stage more time of the
\* drive than its budget.
BudgetHeld == \A i \in 1 .. Passes : drive[i] <= Budget

\* An image is made of two floppies only if these cannot be told apart by the
\* region the first of them was identified by.
ImageOfOneFloppy ==
  image # "none" =>
    \A a, b \in Sources(Len(stages)) :
      cap[a].floppy = cap[b].floppy \/ \E r \in Shared : r \in cap[a].good \cap cap[b].good

\* The job gives up on a region only when every pass was decoded or ran out of
\* time, or the last Patience decodes each left as much as there was before:
\* a resumed run counts as an uninterrupted one would.
GivesUpForCause ==
  LET n == Len(stages)
      left(i) == Cardinality(Unfinished(Sources(i)))
      dull(i) == i > 1 /\ left(i) >= left(i - 1)
  IN
  image # "none" =>
    \/ Unfinished(Sources(n)) = {}
    \/ n = Passes /\ \A i \in 1 .. n : stages[i].decoded \/ Exhausted(i)
    \/ \E m \in 1 .. n : LET last == {i \in Decoded(n) : i >= m} IN
         Cardinality(last) >= Patience /\ \A i \in last : dull(i)

\* A sealed capture stays as it is, in the slot of its stage, until the end: it
\* is never read again nor replaced.
SealedKept ==
  [][\A i \in DOMAIN stages :
       LET a == stages[i].slot IN
       SealedAt(a) => stages'[i].slot = a /\ cap'[a].state \in Sealed
                      /\ cap'[a].floppy = cap[a].floppy /\ cap'[a].good = cap[a].good]_vars

\* The job cannot end: a torn file is in its way, its captures disagree, the
\* first decode was sealed and not published, or the first pass has no time
\* left and nothing to show.
Stuck ==
  \/ litter \/ image = "torn"
  \/ \E i \in DOMAIN stages : cap[stages[i].slot].state = "torn"
  \/ Decoded(Len(stages)) # {} /\ ~Aggregates(Len(stages))
  \/ At("off") /\ stages # <<>> /\ ~stages[1].decoded /\ dec[stages[1].slot] \in {"prepared", "payload"}
  \/ At("off") /\ stages # <<>> /\ Decoded(Len(stages)) = {}
     /\ ~SealedAt(stages[1].slot) /\ Charge(stages[1]).spent = Budget

\* A job that is started again whenever it stopped ends with a result; a spent
\* budget cannot keep it from finishing what was captured in time.
RecoveryEnds == <>(result # "none" \/ Stuck)
=============================================================================
