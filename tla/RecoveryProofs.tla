---------------------------- MODULE RecoveryProofs ----------------------------
(***************************************************************************)
(* Proofs about a recovery job, for every number of passes, every budget,  *)
(* patience, set of regions and floppies, and any number of runs that end  *)
(* early.  The inductive invariant says that a stage the job has passed    *)
(* stays as it was: it was decoded and did not end the job, or it ran out  *)
(* of time without a capture.  A resumed run therefore counts as the one   *)
(* that was interrupted did, and an image can only be reserved at the last *)
(* stage.                                                                  *)
(***************************************************************************)
EXTENDS FluxRecovery, FiniteSetTheorems, TLAPS

RunRecords == [pc : Steps \cup {"off"}, index : 1 .. Passes + 1, dull : Nat, left : Nat]

TypeOK ==
  /\ cap \in [Slots -> Captures]
  /\ dec \in [Slots -> {"none", "started", "failed"} \cup Sealed]
  /\ litter \in BOOLEAN
  /\ stages \in Seq(Stages) /\ Len(stages) <= Passes
  /\ result \in {"none", "image", "exception"}
  /\ image \in {"none", "reserved", "torn", "committed"}
  /\ run \in RunRecords
  /\ faults \in Nat
  /\ drive \in [1 .. Passes -> Nat]

Running == run.pc \notin {"off", "publish"}

\* Where a run stands.
Position ==
  /\ Running => run.index <= Len(stages) + 1 /\ image = "none"
  /\ run.pc \in {"read", "decode"} => run.index = Len(stages) /\ HasStage /\ ~Stage.decoded
  /\ run.pc = "judge" => HasStage /\ Stage.decoded
  /\ run.pc = "read" => cap[Slot].state \in {"started"} \cup Sealed
  /\ run.pc = "decode" => cap[Slot].state = "done"

\* No two stages share a slot, and a decode is of a published capture.
SlotsApart ==
  /\ \A i, j \in DOMAIN stages : i # j => stages[i].slot # stages[j].slot
  /\ \A i \in DOMAIN stages : stages[i].decoded => cap[stages[i].slot].state = "done"

\* A clock runs in the stage that reads, or was left running by a run that died.
ClocksKept ==
  /\ \A i \in DOMAIN stages :
       stages[i].since # -1 => image = "none" /\ (run.pc = "off" \/ (run.pc = "read" /\ run.index = i))
  /\ run.pc = "read" => Stage.since # -1

\* The drive never read longer than was charged or is being clocked.
TimeCharged ==
  \A i \in 1 .. Passes :
    /\ drive[i] <= Budget
    /\ i > Len(stages) => drive[i] = 0
    /\ i <= Len(stages) =>
         drive[i] <= stages[i].spent + (IF stages[i].since = -1 THEN 0 ELSE stages[i].since)

Left(n) == Cardinality(Unfinished(Sources(n)))
DullAt(i) == i > 1 /\ Left(i) >= Left(i - 1)
\* The last decodes in a row that brought nothing.
Streak(n) == {i \in Decoded(n) : \A j \in Decoded(n) : j >= i => DullAt(j)}
Final(n) == Left(n) = 0 \/ Cardinality(Streak(n)) >= Patience

\* What a stage is like once the job went on to the next.
Passed(i) ==
  /\ stages[i].decoded \/ (Exhausted(i) /\ ~SealedAt(stages[i].slot))
  /\ stages[i].decoded => ~Final(i)
PassedOn ==
  \A i \in DOMAIN stages : i < Len(stages) \/ (Running /\ i < run.index) => Passed(i)

\* The counters of a run are those of all the stages before it.
Counted ==
  Running => /\ run.left = Left(run.index - 1)
             /\ run.dull = Cardinality(Streak(run.index - 1))
             /\ \E m \in 1 .. run.index :
                  Streak(run.index - 1) = {i \in Decoded(run.index - 1) : i >= m}

\* The captures of an image and the reason for its publication.
OneFloppy ==
  \A a, b \in Sources(Len(stages)) :
    cap[a].floppy = cap[b].floppy \/ \E r \in Shared : r \in cap[a].good \cap cap[b].good
GaveUp ==
  LET n == Len(stages) IN
  \/ Unfinished(Sources(n)) = {}
  \/ n = Passes /\ \A i \in 1 .. n : stages[i].decoded \/ Exhausted(i)
  \/ \E m \in 1 .. n : LET last == {i \in Decoded(n) : i >= m} IN
       Cardinality(last) >= Patience /\ \A i \in last : DullAt(i)
Justified == run.pc = "publish" \/ image # "none" => OneFloppy /\ GaveUp

RecoveryInv ==
  /\ TypeOK /\ Position /\ SlotsApart /\ ClocksKept /\ TimeCharged
  /\ PassedOn /\ Counted /\ Justified

-----------------------------------------------------------------------------
(* Stages, their decodes and what these left. *)

LEMMA StageTypes ==
  ASSUME TypeOK
  PROVE  /\ Len(stages) \in Nat /\ DOMAIN stages = 1 .. Len(stages)
         /\ \A i \in 1 .. Len(stages) :
              /\ stages[i] \in Stages /\ stages[i].slot \in Slots
              /\ cap[stages[i].slot] \in Captures
<1>1. stages \in Seq(Stages) /\ cap \in [Slots -> Captures]
  BY DEF TypeOK
<1>2. Len(stages) \in Nat /\ DOMAIN stages = 1 .. Len(stages) /\ \A i \in 1 .. Len(stages) : stages[i] \in Stages
  BY <1>1
<1>3. \A s \in Stages : s.slot \in Slots
  BY DEF Stages
<1> QED
  BY <1>1, <1>2, <1>3

LEMMA Counts ==
  ASSUME TypeOK, NEW n \in 0 .. Len(stages)
  PROVE  /\ Decoded(n) \subseteq 1 .. n /\ IsFiniteSet(Decoded(n))
         /\ IsFiniteSet(Unfinished(Sources(n))) /\ Left(n) \in Nat
         /\ Left(n) = 0 <=> Unfinished(Sources(n)) = {}
         /\ IsFiniteSet(Streak(n)) /\ Cardinality(Streak(n)) \in Nat
<1>1. Decoded(n) \subseteq 1 .. n /\ Streak(n) \subseteq 1 .. n /\ IsFiniteSet(1 .. n)
  <2>1. n \in Int /\ 1 \in Int
    BY StageTypes
  <2>2. Decoded(n) \subseteq 1 .. n /\ Streak(n) \subseteq Decoded(n)
    BY DEF Decoded, Streak
  <2> QED
    BY <2>1, <2>2, FS_Interval
<1>2. IsFiniteSet(Decoded(n)) /\ IsFiniteSet(Streak(n))
  BY <1>1, FS_Subset
<1>3. Unfinished(Sources(n)) \subseteq Regions
  BY DEF Unfinished
<1>4. IsFiniteSet(Unfinished(Sources(n)))
  BY <1>3, FS_Subset, RegionAssumption
<1> QED
  BY <1>1, <1>2, <1>4, FS_CardinalityType, FS_EmptySet DEF Left

\* What the decodes up to n brought does not change while these stages keep their
\* decodes and the captures they are of.
SameDecodes(n) ==
  \A i \in 1 .. n :
    /\ stages'[i].decoded = stages[i].decoded
    /\ stages[i].decoded =>
         /\ stages'[i].slot = stages[i].slot
         /\ cap'[stages[i].slot].good = cap[stages[i].slot].good
         /\ cap'[stages[i].slot].floppy = cap[stages[i].slot].floppy

LEMMA Stable ==
  ASSUME NEW n \in Nat, SameDecodes(n)
  PROVE  \A k \in 0 .. n :
           /\ Decoded(k)' = Decoded(k) /\ Sources(k)' = Sources(k)
           /\ Unfinished(Sources(k))' = Unfinished(Sources(k)) /\ Left(k)' = Left(k)
           /\ Streak(k)' = Streak(k) /\ Final(k)' = Final(k)
<1>1. \A k \in 0 .. n : Decoded(k)' = Decoded(k)
  BY DEF SameDecodes, Decoded
<1>2. \A k \in 0 .. n : Sources(k)' = Sources(k)
  BY <1>1 DEF SameDecodes, Sources, Decoded
<1>3. \A k \in 0 .. n : \A s \in Sources(k) : cap'[s].good = cap[s].good /\ cap'[s].floppy = cap[s].floppy
  BY DEF SameDecodes, Sources, Decoded
<1>4. \A k \in 0 .. n : Unfinished(Sources(k))' = Unfinished(Sources(k))
  <2> SUFFICES ASSUME NEW k \in 0 .. n PROVE Unfinished(Sources(k))' = Unfinished(Sources(k))
    OBVIOUS
  <2>1. \A r \in Regions : {s \in Sources(k) : r \in cap'[s].good} = {s \in Sources(k) : r \in cap[s].good}
    BY <1>3
  <2>2. \A r \in Regions : \A s, t \in {q \in Sources(k) : r \in cap[q].good} :
          SameBytes(cap'[s].floppy, cap'[t].floppy, r) <=> SameBytes(cap[s].floppy, cap[t].floppy, r)
    BY <1>3
  <2>3. Unfinished(Sources(k))' =
          {r \in Regions :
             LET readers == {s \in Sources(k) : r \in cap'[s].good} IN
             \/ readers = {}
             \/ \E s, t \in readers : ~SameBytes(cap'[s].floppy, cap'[t].floppy, r)}
    BY <1>2 DEF Unfinished, SameBytes
  <2> QED
    BY <2>1, <2>2, <2>3 DEF Unfinished
<1>5. \A k \in 0 .. n : Left(k)' = Left(k)
  BY <1>4 DEF Left
<1>6. \A i \in 1 .. n : DullAt(i)' = DullAt(i)
  BY <1>5 DEF DullAt
<1>7. \A k \in 0 .. n : Decoded(k) \subseteq 1 .. n
  BY DEF Decoded
<1>8. \A k \in 0 .. n : Streak(k)' = Streak(k)
  BY <1>1, <1>6, <1>7 DEF Streak
<1>9. \A k \in 0 .. n : Final(k)' = Final(k)
  BY <1>5, <1>8 DEF Final
<1> QED
  BY <1>1, <1>2, <1>4, <1>5, <1>8, <1>9

\* The reason for the image of a job stays while its stages and captures do.
LEMMA JustifiedStable ==
  ASSUME TypeOK, Len(stages') = Len(stages), SameDecodes(Len(stages)), OneFloppy, GaveUp,
         \A i \in 1 .. Len(stages) : Exhausted(i) => Exhausted(i)'
  PROVE  OneFloppy' /\ GaveUp'
<1> DEFINE n == Len(stages)
<1>0. n \in Nat /\ n' = n
  BY StageTypes
<1>1. /\ Decoded(n)' = Decoded(n) /\ Sources(n)' = Sources(n)
      /\ Unfinished(Sources(n))' = Unfinished(Sources(n))
      /\ \A k \in 0 .. n : Left(k)' = Left(k)
  <2>1. \A k \in 0 .. n :
           /\ Decoded(k)' = Decoded(k) /\ Sources(k)' = Sources(k)
           /\ Unfinished(Sources(k))' = Unfinished(Sources(k)) /\ Left(k)' = Left(k)
    BY <1>0, Stable
  <2> QED
    BY <1>0, <2>1
<1>2. OneFloppy'
  <2>1. \A s \in Sources(n) : cap'[s].good = cap[s].good /\ cap'[s].floppy = cap[s].floppy
    BY DEF SameDecodes, Sources, Decoded
  <2> QED
    BY <1>0, <1>1, <2>1 DEF OneFloppy
<1>3. GaveUp'
  <2>1. CASE Unfinished(Sources(n)) = {}
    BY <1>0, <1>1, <2>1 DEF GaveUp
  <2>2. CASE n = Passes /\ \A i \in 1 .. n : stages[i].decoded \/ Exhausted(i)
    BY <1>0, <2>2 DEF GaveUp, SameDecodes
  <2>3. ASSUME NEW m \in 1 .. n, Cardinality({i \in Decoded(n) : i >= m}) >= Patience,
               \A i \in {i \in Decoded(n) : i >= m} : DullAt(i)
        PROVE  GaveUp'
    <3>1. \A i \in {i \in Decoded(n) : i >= m} : DullAt(i)'
      BY <1>0, <1>1, <2>3 DEF DullAt, Decoded
    <3> QED
      BY <1>0, <1>1, <2>3, <3>1 DEF GaveUp
  <2> QED
    BY <2>1, <2>2, <2>3 DEF GaveUp
<1> QED
  BY <1>2, <1>3

-----------------------------------------------------------------------------
(* The invariant: steps that change no stage and no capture. *)

LEMMA InitInv == Init => RecoveryInv
<1> SUFFICES ASSUME Init PROVE RecoveryInv
  OBVIOUS
<1> USE DEF Init, CaptureInit, Off
<1>0. Cardinality(Regions) \in Nat /\ Passes \in Nat \ {0} /\ Budget \in Nat \ {0}
  BY RegionAssumption, PolicyAssumption, FS_CardinalityType
<1>1. TypeOK
  <2>1. cap \in [Slots -> Captures] /\ dec \in [Slots -> {"none", "started", "failed"} \cup Sealed]
    BY DEF Captures, Free
  <2>2. stages \in Seq(Stages) /\ Len(stages) <= Passes
    BY <1>0
  <2>3. run \in RunRecords
    BY <1>0 DEF RunRecords, Steps
  <2> QED
    BY <1>0, <2>1, <2>2, <2>3 DEF TypeOK
<1>2. DOMAIN stages = {} /\ Len(stages) = 0 /\ run.pc = "off"
  OBVIOUS
<1>3. Position /\ SlotsApart /\ ClocksKept /\ PassedOn /\ Counted /\ Justified
  BY <1>2 DEF Position, SlotsApart, ClocksKept, PassedOn, Counted, Justified, Running
<1>4. TimeCharged
  BY <1>0, <1>2 DEF TimeCharged
<1> QED
  BY <1>1, <1>3, <1>4 DEF RecoveryInv

LEMMA OffType == Off \in RunRecords /\ Off.pc = "off"
<1>1. Cardinality(Regions) \in Nat /\ 1 \in 1 .. Passes + 1
  BY RegionAssumption, PolicyAssumption, FS_CardinalityType
<1> QED
  BY <1>1 DEF Off, RunRecords, Steps

LEMMA Frozen ==
  ASSUME RecoveryInv, UNCHANGED <<cap, stages, drive>>
  PROVE  /\ SlotsApart' /\ TimeCharged'
         /\ \A k \in 0 .. Len(stages) : /\ Left(k)' = Left(k) /\ Streak(k)' = Streak(k)
                                        /\ Decoded(k)' = Decoded(k)
         /\ \A i \in DOMAIN stages : Passed(i)' = Passed(i)
         /\ OneFloppy /\ GaveUp => OneFloppy' /\ GaveUp'
<1>0. TypeOK /\ Len(stages) \in Nat /\ DOMAIN stages = 1 .. Len(stages)
  BY StageTypes DEF RecoveryInv
<1>1. SlotsApart'
  BY DEF RecoveryInv, SlotsApart
<1>2. TimeCharged'
  BY DEF RecoveryInv, TimeCharged
<1>3. SameDecodes(Len(stages))
  BY DEF SameDecodes
<1>4. \A k \in 0 .. Len(stages) : /\ Left(k)' = Left(k) /\ Streak(k)' = Streak(k)
                                  /\ Decoded(k)' = Decoded(k) /\ Final(k)' = Final(k)
  BY <1>0, <1>3, Stable
<1>5. \A i \in DOMAIN stages : Passed(i)' = Passed(i)
  BY <1>0, <1>4 DEF Passed, Exhausted, SealedAt
<1>6. OneFloppy /\ GaveUp => OneFloppy' /\ GaveUp'
  BY <1>0, <1>3, JustifiedStable DEF Exhausted
<1> QED
  BY <1>1, <1>2, <1>4, <1>5, <1>6

\* A run ends and leaves stages and captures as they are.
LEMMA OffInv ==
  ASSUME RecoveryInv, TypeOK', UNCHANGED <<cap, stages, drive>>, run' = Off,
         image # "none" <=> image' # "none"
  PROVE  RecoveryInv'
<1>1. run'.pc = "off"
  BY OffType
<1>2. Position' /\ Counted'
  BY <1>1 DEF Position, Counted, Running
<1>3. ClocksKept'
  BY <1>1 DEF RecoveryInv, ClocksKept
<1>4. PassedOn'
  BY <1>1, Frozen DEF RecoveryInv, PassedOn, Running
<1>5. Justified'
  BY <1>1, Frozen DEF RecoveryInv, Justified
<1> QED
  BY <1>2, <1>3, <1>4, <1>5, Frozen DEF RecoveryInv

\* Decodes, and the writes of the publication.
LEMMA StayInv ==
  ASSUME RecoveryInv, TypeOK', UNCHANGED <<cap, stages, drive, run>>,
         image' = image \/ run.pc = "publish"
  PROVE  RecoveryInv'
<1>0. TypeOK /\ Len(stages) \in Nat
  BY StageTypes DEF RecoveryInv
<1>1. Position'
  BY DEF RecoveryInv, Position, Running, HasStage, Stage, Slot
<1>2. Counted'
  <2>1. Running => run.index - 1 \in 0 .. Len(stages)
    BY <1>0 DEF RecoveryInv, Position, TypeOK, RunRecords
  <2> QED
    BY <2>1, Frozen DEF RecoveryInv, Counted, Running
<1>3. ClocksKept'
  BY DEF RecoveryInv, ClocksKept, Stage
<1>4. PassedOn'
  BY Frozen DEF RecoveryInv, PassedOn, Running
<1>5. Justified'
  BY Frozen DEF RecoveryInv, Justified
<1> QED
  BY <1>1, <1>2, <1>3, <1>4, <1>5, Frozen DEF RecoveryInv

\* A run turns to the publication.
LEMMA PublishInv ==
  ASSUME RecoveryInv, TypeOK', UNCHANGED <<cap, stages, drive, image>>, run'.pc = "publish",
         \A i \in DOMAIN stages : stages[i].since = -1, OneFloppy, GaveUp
  PROVE  RecoveryInv'
<1>1. Position' /\ Counted'
  BY DEF Position, Counted, Running
<1>2. ClocksKept'
  BY DEF ClocksKept
<1>3. PassedOn'
  BY Frozen DEF RecoveryInv, PassedOn, Running
<1>4. Justified'
  BY Frozen DEF Justified
<1> QED
  BY <1>1, <1>2, <1>3, <1>4, Frozen DEF RecoveryInv

\* A run moves on within a stage, or to the next with what it has counted.
LEMMA MoveInv ==
  ASSUME RecoveryInv, TypeOK', UNCHANGED <<cap, stages, drive, image>>,
         Running, run.pc # "read", run'.pc \in {"pass", "decode", "judge"},
         run'.index <= Len(stages) + 1,
         run'.pc = "judge" => HasStage' /\ Stage'.decoded,
         run'.pc = "decode" => /\ run'.index = Len(stages) /\ HasStage' /\ ~Stage'.decoded
                               /\ cap[Stage'.slot].state = "done",
         \A i \in DOMAIN stages : i < run'.index => Passed(i),
         /\ run'.left = Left(run'.index - 1)
         /\ run'.dull = Cardinality(Streak(run'.index - 1))
         /\ \E m \in 1 .. run'.index :
              Streak(run'.index - 1) = {i \in Decoded(run'.index - 1) : i >= m}
  PROVE  RecoveryInv'
<1>0. TypeOK /\ Len(stages) \in Nat
  BY StageTypes DEF RecoveryInv
<1>1. Position'
  BY DEF RecoveryInv, Position, Running, HasStage, Stage, Slot
<1>2. Counted'
  <2>1. run'.index - 1 \in 0 .. Len(stages)
    BY <1>0 DEF TypeOK, RunRecords
  <2> QED
    BY <2>1, Frozen DEF RecoveryInv, Counted, Running
<1>3. ClocksKept'
  BY DEF RecoveryInv, ClocksKept, Running
<1>4. PassedOn'
  BY Frozen DEF RecoveryInv, PassedOn, Running
<1>5. Justified'
  BY DEF RecoveryInv, Justified, Position
<1> QED
  BY <1>1, <1>2, <1>3, <1>4, <1>5, Frozen DEF RecoveryInv

-----------------------------------------------------------------------------
(* The steps of the job that count. *)

\* A decoded stage continues the streak or ends it; one without a decode does neither.
LEMMA StreakStep ==
  ASSUME TypeOK, NEW k \in 1 .. Len(stages)
  PROVE  /\ stages[k].decoded /\ DullAt(k) =>
              /\ Decoded(k) = Decoded(k - 1) \cup {k} /\ Streak(k) = Streak(k - 1) \cup {k}
              /\ Cardinality(Streak(k)) = Cardinality(Streak(k - 1)) + 1
         /\ stages[k].decoded /\ ~DullAt(k) => Streak(k) = {} /\ Cardinality(Streak(k)) = 0
         /\ ~stages[k].decoded =>
              /\ Decoded(k) = Decoded(k - 1)
              /\ Streak(k) = Streak(k - 1) /\ Left(k) = Left(k - 1)
<1>0. k \in Nat /\ k - 1 \in 0 .. Len(stages) /\ k - 1 < k
  BY StageTypes
<1>1. stages[k].decoded => Decoded(k) = Decoded(k - 1) \cup {k}
  BY <1>0 DEF Decoded
<1>2. ~stages[k].decoded => Decoded(k) = Decoded(k - 1)
  BY <1>0 DEF Decoded
<1>3. \A i \in Decoded(k - 1) : i \in Nat /\ i < k
  BY <1>0 DEF Decoded
<1>4. ASSUME stages[k].decoded, DullAt(k)
      PROVE  /\ Streak(k) = Streak(k - 1) \cup {k}
             /\ Cardinality(Streak(k)) = Cardinality(Streak(k - 1)) + 1
  <2>1. \A i \in Decoded(k - 1) : k >= i
    BY <1>0, <1>3 DEF Decoded
  <2>2. Streak(k) = Streak(k - 1) \cup {k}
    <3>1. Streak(k) \subseteq Streak(k - 1) \cup {k}
      BY <1>1, <1>4 DEF Streak
    <3>2. k \in Streak(k)
      <4>1. \A j \in Decoded(k) : j >= k => j = k
        BY <1>0, <1>1, <1>3, <1>4
      <4> QED
        BY <1>1, <1>4, <4>1 DEF Streak
    <3>3. Streak(k - 1) \subseteq Streak(k)
      BY <1>1, <1>4 DEF Streak
    <3> QED
      BY <3>1, <3>2, <3>3
  <2>3. k \notin Streak(k - 1)
    BY <1>0, <1>3 DEF Streak
  <2> QED
    BY <1>0, <2>2, <2>3, Counts, FS_AddElement
<1>5. ASSUME stages[k].decoded, ~DullAt(k) PROVE Streak(k) = {} /\ Cardinality(Streak(k)) = 0
  <2>1. \A i \in Decoded(k) : k >= i
    BY <1>0 DEF Decoded
  <2>2. Streak(k) = {}
    BY <1>0, <1>1, <1>5, <2>1 DEF Streak
  <2> QED
    BY <2>2, FS_EmptySet
<1>6. ASSUME ~stages[k].decoded PROVE Streak(k) = Streak(k - 1) /\ Left(k) = Left(k - 1)
  BY <1>2, <1>6 DEF Streak, Left, Sources
<1> QED
  BY <1>1, <1>2, <1>4, <1>5, <1>6

\* The control region vouches for every two decodes it was compared in.
LEMMA AggregatesOne == ASSUME TypeOK, Aggregates(Len(stages)) PROVE OneFloppy
<1> DEFINE first == stages[First(Len(stages))].slot
           others == Sources(Len(stages))
<1>1. ASSUME NEW s \in others, s # first
      PROVE  \E r \in Controls(first) : r \in cap[s].good /\ SameBytes(cap[first].floppy, cap[s].floppy, r)
  BY <1>1 DEF Aggregates, Refused
<1>0. \A s \in others : cap[s].good \subseteq Nat
  BY StageTypes, RegionAssumption DEF Captures, Sources, Decoded
<1>2. /\ \A q, r \in Controls(first) \cap Nat : q = r
      /\ Controls(first) \subseteq cap[first].good
  BY DEF Controls
<1> SUFFICES ASSUME NEW a \in others, NEW b \in others, a # b, cap[a].floppy # cap[b].floppy
             PROVE  \E r \in Shared : r \in cap[a].good \cap cap[b].good
  BY DEF OneFloppy
<1>3. CASE a = first
  BY <1>0, <1>1, <1>2, <1>3 DEF SameBytes
<1>4. CASE b = first
  BY <1>0, <1>1, <1>2, <1>4 DEF SameBytes
<1>5. CASE a # first /\ b # first
  <2>1. PICK q \in Controls(first) :
          q \in cap[a].good /\ SameBytes(cap[first].floppy, cap[a].floppy, q)
    BY <1>1, <1>5
  <2>2. PICK r \in Controls(first) :
          r \in cap[b].good /\ SameBytes(cap[first].floppy, cap[b].floppy, r)
    BY <1>1, <1>5
  <2>3. q = r
    BY <1>0, <1>2, <2>1, <2>2
  <2> QED
    BY <2>1, <2>2, <2>3 DEF SameBytes
<1> QED
  BY <1>3, <1>4, <1>5

\* Whoever judged the last stage final has a reason to give up.
LEMMA FinalGivesUp ==
  ASSUME TypeOK, NEW k \in 1 .. Len(stages), k = Len(stages), Final(k),
         NEW m \in Nat, m > 0, Streak(k) = {i \in Decoded(k) : i >= m}
  PROVE  GaveUp
<1>0. k \in Nat /\ Len(stages) \in Nat /\ k \in 0 .. Len(stages)
  BY StageTypes
<1>1. CASE Left(k) = 0
  BY <1>0, <1>1, Counts DEF GaveUp
<1>2. CASE Cardinality(Streak(k)) >= Patience
  <2>1. Streak(k) # {}
    BY <1>2, FS_EmptySet, PolicyAssumption
  <2>2. \A i \in Streak(k) : DullAt(i)
    <3>1. \A i \in Streak(k) : i \in Decoded(k) /\ i \in Nat
      BY DEF Streak, Decoded
    <3> QED
      BY <3>1 DEF Streak
  <2>3. m \in 1 .. Len(stages)
    BY <1>0, <2>1 DEF Decoded
  <2> QED
    BY <1>2, <2>2, <2>3 DEF GaveUp
<1> QED
  BY <1>1, <1>2 DEF Final

LEMMA JudgeInv == RecoveryInv /\ Judge => RecoveryInv'
<1> SUFFICES ASSUME RecoveryInv, Judge PROVE RecoveryInv'
  OBVIOUS
<1> DEFINE k == run.index
           left == Left(k)
           dull == Dull(left)
           done == left = 0 \/ dull >= Patience
<1>0. /\ TypeOK /\ Running /\ run.pc = "judge" /\ Aggregates(k)
      /\ k \in 1 .. Len(stages) /\ stages[k].decoded /\ Len(stages) \in Nat /\ Len(stages) <= Passes
      /\ UNCHANGED <<evidence, durable, faults, drive>>
  BY StageTypes DEF RecoveryInv, Judge, At, Running, Position, HasStage, Stage, TypeOK
<1>1. run' = [pc |-> IF done THEN "publish" ELSE "pass", index |-> IF done THEN k ELSE k + 1,
              dull |-> dull, left |-> left]
  BY DEF Judge, Left
<1>2. /\ run.left = Left(k - 1) /\ run.dull = Cardinality(Streak(k - 1))
      /\ Left(k) \in Nat /\ Left(k - 1) \in Nat /\ run.dull \in Nat
  BY <1>0, Counts DEF RecoveryInv, Counted, TypeOK, RunRecords
<1>3. PICK m \in 1 .. k : Streak(k - 1) = {i \in Decoded(k - 1) : i >= m}
  BY <1>0 DEF RecoveryInv, Counted
<1>4. dull = IF DullAt(k) THEN run.dull + 1 ELSE 0
  BY <1>2 DEF Dull, DullAt
<1>5. dull = Cardinality(Streak(k)) /\ dull \in Nat
  BY <1>0, <1>2, <1>4, StreakStep, SMTT(30)
<1>6. PICK p \in 1 .. k + 1 : Streak(k) = {i \in Decoded(k) : i >= p}
  <2>1. CASE DullAt(k)
    <3>1. Streak(k) = {i \in Decoded(k) : i >= m}
      BY <1>0, <1>3, <2>1, StreakStep
    <3> QED
      BY <1>0, <3>1
  <2>2. CASE ~DullAt(k)
    <3>1. Streak(k) = {} /\ \A i \in Decoded(k) : ~(i >= k + 1)
      BY <1>0, <2>2, StreakStep DEF Decoded
    <3> QED
      BY <1>0, <3>1
  <2> QED
    BY <2>1, <2>2
<1>7. done <=> Final(k)
  BY <1>5 DEF Final
<1>8. TypeOK'
  <2>1. k \in 1 .. Passes + 1 /\ k + 1 \in 1 .. Passes + 1
    BY <1>0, PolicyAssumption
  <2>2. run' \in RunRecords
    BY <1>1, <1>2, <1>5, <2>1 DEF RunRecords, Steps
  <2> QED
    BY <1>0, <2>2 DEF TypeOK, evidence, durable
<1>9. CASE Final(k)
  <2>1. k = Len(stages)
    BY <1>0, <1>9 DEF RecoveryInv, PassedOn, Passed
  <2>2. OneFloppy
    BY <1>0, <2>1, AggregatesOne
  <2>3. GaveUp
    BY <1>0, <1>6, <1>9, <2>1, FinalGivesUp
  <2>4. \A i \in DOMAIN stages : stages[i].since = -1
    BY <1>0 DEF RecoveryInv, ClocksKept
  <2> QED
    BY <1>0, <1>1, <1>7, <1>8, <1>9, <2>2, <2>3, <2>4, PublishInv DEF evidence, durable
<1>10. CASE ~Final(k)
  <2>1. run'.pc = "pass" /\ run'.index = k + 1 /\ run'.index - 1 = k /\ run'.left = left /\ run'.dull = dull
    BY <1>0, <1>1, <1>7, <1>10
  <2>2. \A i \in DOMAIN stages : i < run'.index => Passed(i)
    BY <1>0, <1>10, <2>1 DEF RecoveryInv, PassedOn, Passed
  <2>3. run'.index <= Len(stages) + 1
    BY <1>0, <2>1
  <2>4. \E q \in 1 .. run'.index : Streak(run'.index - 1) = {i \in Decoded(run'.index - 1) : i >= q}
    BY <1>6, <2>1
  <2>5. run'.left = Left(run'.index - 1) /\ run'.dull = Cardinality(Streak(run'.index - 1))
    BY <1>5, <2>1
  <2> QED
    BY <1>0, <1>8, <2>1, <2>2, <2>3, <2>4, <2>5, MoveInv DEF evidence, durable
<1> QED
  BY <1>9, <1>10

-----------------------------------------------------------------------------
(* The steps that only move a run, end it or publish. *)

LEMMA Moved ==
  ASSUME TypeOK, NEW pc \in Steps \cup {"off"}, To(pc)
  PROVE  /\ run' \in RunRecords /\ run'.pc = pc
         /\ run'.index = run.index /\ run'.dull = run.dull /\ run'.left = run.left
BY DEF TypeOK, RunRecords, To

LEMMA ReplayInv == RecoveryInv /\ Replay => RecoveryInv'
<1> SUFFICES ASSUME RecoveryInv, Replay PROVE RecoveryInv'
  OBVIOUS
<1>0. /\ TypeOK /\ Running /\ run.pc = "pass" /\ To("judge") /\ HasStage /\ Stage.decoded
      /\ UNCHANGED <<evidence, durable, faults, drive>>
  BY DEF RecoveryInv, Replay, Top, At, Running
<1>1. /\ run' \in RunRecords /\ run'.pc = "judge"
      /\ run'.index = run.index /\ run'.dull = run.dull /\ run'.left = run.left
  BY <1>0, Moved DEF Steps
<1>2. TypeOK'
  BY <1>0, <1>1 DEF TypeOK, evidence, durable
<1>3. HasStage' /\ Stage'.decoded
  BY <1>0, <1>1 DEF HasStage, Stage, durable
<1>4. /\ run.index <= Len(stages) + 1
      /\ \A i \in DOMAIN stages : i < run'.index => Passed(i)
  BY <1>0, <1>1 DEF RecoveryInv, PassedOn, Position
<1>5. /\ run'.left = Left(run'.index - 1)
      /\ run'.dull = Cardinality(Streak(run'.index - 1))
      /\ \E m \in 1 .. run'.index :
           Streak(run'.index - 1) = {i \in Decoded(run'.index - 1) : i >= m}
  BY <1>0, <1>1 DEF RecoveryInv, Counted
<1> QED
  BY <1>0, <1>1, <1>2, <1>3, <1>4, <1>5, MoveInv DEF evidence, durable

\* A stage that is not the last was passed: a run takes up the last one only.
LEMMA LastStage ==
  ASSUME RecoveryInv, Pending, Saved(Slot) \/ ~Exhausted(run.index)
  PROVE  run.index = Len(stages) /\ run.index \in 1 .. Len(stages)
BY StageTypes DEF RecoveryInv, Pending, HasStage, PassedOn, Passed, Stage, Slot, Saved

LEMMA OutOfTimeInv == RecoveryInv /\ OutOfTime => RecoveryInv'
<1> SUFFICES ASSUME RecoveryInv, OutOfTime PROVE RecoveryInv'
  OBVIOUS
<1> DEFINE k == run.index
<1>0. /\ TypeOK /\ Running /\ run.pc = "pass" /\ k \in 1 .. Len(stages) /\ ~stages[k].decoded
      /\ ~SealedAt(stages[k].slot) /\ Exhausted(k) /\ k <= Passes /\ k - 1 \in Nat /\ Len(stages) \in Nat
      /\ UNCHANGED <<evidence, durable, faults, drive>>
  BY StageTypes DEF RecoveryInv, OutOfTime, Pending, Top, At, Running, HasStage, Stage, Slot, Saved
<1>1. CASE Decoded(Len(stages)) # {}
  <2>1. NextPass
    BY <1>1 DEF OutOfTime
  <2>2. k + 1 \in 1 .. Passes + 1
    BY <1>0, PolicyAssumption
  <2>3. /\ run' \in RunRecords /\ run'.pc = "pass" /\ run'.index = k + 1
        /\ run'.dull = run.dull /\ run'.left = run.left
    BY <1>0, <2>1, <2>2 DEF NextPass, TypeOK, RunRecords, Steps
  <2>4. TypeOK'
    BY <1>0, <2>3 DEF TypeOK, evidence, durable
  <2>5. run'.index - 1 = k /\ run'.index <= Len(stages) + 1
    BY <1>0, <2>3
  <2>6. \A i \in DOMAIN stages : i < run'.index => Passed(i)
    BY <1>0, <2>3 DEF RecoveryInv, PassedOn, Passed
  <2>7. Decoded(k) = Decoded(k - 1) /\ Streak(k) = Streak(k - 1) /\ Left(k) = Left(k - 1)
    BY <1>0, StreakStep
  <2>8. /\ run'.left = Left(k) /\ run'.dull = Cardinality(Streak(k))
        /\ \E m \in 1 .. k + 1 : Streak(k) = {i \in Decoded(k) : i >= m}
    <3>1. PICK m \in 1 .. k : Streak(k - 1) = {i \in Decoded(k - 1) : i >= m}
      BY <1>0 DEF RecoveryInv, Counted
    <3>2. m \in 1 .. k + 1
      BY <1>0
    <3> QED
      BY <1>0, <2>3, <2>7, <3>1, <3>2 DEF RecoveryInv, Counted
  <2> QED
    BY <1>0, <2>3, <2>4, <2>5, <2>6, <2>8, MoveInv DEF evidence, durable
<1>2. CASE Decoded(Len(stages)) = {}
  <2>1. run' = Off
    BY <1>2 DEF OutOfTime, Refuse
  <2>2. TypeOK'
    BY <1>0, <2>1, OffType DEF TypeOK, evidence, durable
  <2> QED
    BY <1>0, <2>1, <2>2, OffInv DEF evidence, durable
<1> QED
  BY <1>1, <1>2

LEMMA PassesOverInv == RecoveryInv /\ PassesOver => RecoveryInv'
<1> SUFFICES ASSUME RecoveryInv, PassesOver PROVE RecoveryInv'
  OBVIOUS
<1> DEFINE n == Len(stages)
<1>0. /\ TypeOK /\ Running /\ run.pc = "pass" /\ To("publish") /\ Aggregates(n) /\ run.index > Passes
      /\ n \in Nat /\ n <= Passes /\ DOMAIN stages = 1 .. n
      /\ UNCHANGED <<evidence, durable, faults, drive>>
  BY StageTypes DEF RecoveryInv, PassesOver, At, Running, TypeOK
<1>1. run' \in RunRecords /\ run'.pc = "publish"
  BY <1>0, Moved DEF Steps
<1>2. TypeOK'
  BY <1>0, <1>1 DEF TypeOK, evidence, durable
<1>3. n = Passes /\ n < run.index
  <2>1. run.index \in Nat /\ run.index <= n + 1
    BY <1>0, PolicyAssumption DEF RecoveryInv, Position, TypeOK, RunRecords
  <2>2. n \in Nat /\ n <= Passes /\ Passes \in Nat /\ run.index > Passes
    BY <1>0, PolicyAssumption
  <2> QED
    BY <2>1, <2>2
<1>4. \A i \in 1 .. n : Passed(i)
  BY <1>0, <1>3 DEF RecoveryInv, PassedOn
<1>5. GaveUp
  BY <1>3, <1>4 DEF GaveUp, Passed
<1>6. OneFloppy
  BY <1>0, AggregatesOne
<1>7. \A i \in DOMAIN stages : stages[i].since = -1
  BY <1>0 DEF RecoveryInv, ClocksKept
<1> QED
  BY <1>0, <1>1, <1>2, <1>5, <1>6, <1>7, PublishInv DEF evidence, durable

LEMMA EndInv ==
  RecoveryInv /\ (DecodeFails \/ DecodeTorn \/ Exception \/ Disagree \/ ImageTorn \/ ImageRefused \/ SaveResult \/ Crash)
    => RecoveryInv'
<1> SUFFICES ASSUME RecoveryInv,
                    DecodeFails \/ DecodeTorn \/ Exception \/ Disagree \/ ImageTorn \/ ImageRefused \/ SaveResult \/ Crash
             PROVE  RecoveryInv'
  OBVIOUS
<1>0. TypeOK
  BY DEF RecoveryInv
<1>1. /\ run' = Off /\ UNCHANGED <<cap, stages, drive>>
      /\ faults' = faults \/ faults' = faults + 1
      /\ image' = image \/ (image = "reserved" /\ image' = "torn")
  BY DEF DecodeFails, DecodeTorn, Exception, Disagree, ImageTorn, ImageRefused, SaveResult, Crash, RunEnds,
         Refuse, FailDecode, DecState, TornDecode, evidence, durable
<1>2. result' = result \/ result' \in {"image", "exception"}
  BY DEF DecodeFails, DecodeTorn, Exception, Disagree, ImageTorn, ImageRefused, SaveResult, Crash, durable
<1>3. dec' \in [Slots -> {"none", "started", "failed"} \cup Sealed] /\ litter' \in BOOLEAN
  BY <1>0 DEF TypeOK, DecodeFails, DecodeTorn, Exception, Disagree, ImageTorn, ImageRefused, SaveResult, Crash,
              FailDecode, DecState, TornDecode, evidence
<1>4. TypeOK'
  BY <1>0, <1>1, <1>2, <1>3, OffType DEF TypeOK
<1> QED
  BY <1>1, <1>4, OffInv

LEMMA StandInv == RecoveryInv /\ (Decode \/ ReserveImage \/ CommitImage) => RecoveryInv'
<1> SUFFICES ASSUME RecoveryInv, Decode \/ ReserveImage \/ CommitImage PROVE RecoveryInv'
  OBVIOUS
<1>0. TypeOK
  BY DEF RecoveryInv
<1>1. CASE Decode
  <2>1. UNCHANGED <<cap, litter, stages, result, image, run, faults, drive>>
    BY <1>1 DEF Decode, ReserveDecode, SealDecode, PublishDecode, DecState, durable
  <2>2. dec' \in [Slots -> {"none", "started", "failed"} \cup Sealed]
    BY <1>0, <1>1 DEF TypeOK, Decode, ReserveDecode, SealDecode, PublishDecode, DecState, Sealed
  <2>3. TypeOK'
    BY <1>0, <2>1, <2>2 DEF TypeOK
  <2> QED
    BY <2>1, <2>3, StayInv
<1>2. CASE ReserveImage \/ CommitImage
  <2>1. /\ UNCHANGED <<cap, dec, litter, stages, result, run, faults, drive>>
        /\ run.pc = "publish" /\ image' \in {"reserved", "committed"}
    BY <1>2 DEF ReserveImage, CommitImage, At, evidence
  <2>2. TypeOK'
    BY <1>0, <2>1 DEF TypeOK
  <2> QED
    BY <2>1, <2>2, StayInv
<1> QED
  BY <1>1, <1>2

-----------------------------------------------------------------------------
(* The steps that change a stage or a capture. *)

LEMMA EditStage ==
  ASSUME TypeOK, NEW k \in 1 .. Len(stages), NEW s \in Stages, stages' = [stages EXCEPT ![k] = s]
  PROVE  /\ stages' \in Seq(Stages) /\ Len(stages') = Len(stages) /\ DOMAIN stages' = DOMAIN stages
         /\ stages'[k] = s /\ \A i \in DOMAIN stages : i # k => stages'[i] = stages[i]
BY DEF TypeOK

LEMMA EditCapture ==
  ASSUME TypeOK, NEW a \in Slots, NEW s \in {"torn", "started", "failed"} \cup Sealed, CapState(a, s)
  PROVE  /\ cap' \in [Slots -> Captures] /\ dec' = dec /\ litter' = litter
         /\ cap'[a].state = s /\ cap'[a].good = cap[a].good /\ cap'[a].floppy = cap[a].floppy
         /\ \A b \in Slots : b # a => cap'[b] = cap[b]
<1>1. cap \in [Slots -> Captures] /\ cap' = [cap EXCEPT ![a].state = s]
  BY DEF TypeOK, CapState
<1>2. PICK st \in {"free", "torn", "started", "failed"} \cup Sealed, f \in Floppies \cup {"none"}, g \in SUBSET Regions :
        cap[a] = [state |-> st, floppy |-> f, good |-> g]
  BY <1>1 DEF Captures
<1>3. [cap[a] EXCEPT !.state = s] = [state |-> s, floppy |-> f, good |-> g]
  BY <1>2
<1>4. cap' = [cap EXCEPT ![a] = [state |-> s, floppy |-> f, good |-> g]]
  BY <1>1, <1>3
<1>5. [state |-> s, floppy |-> f, good |-> g] \in Captures
  BY DEF Captures
<1> QED
  BY <1>1, <1>2, <1>4, <1>5 DEF CapState

\* A charged stage has its time, and no less than the drive took of it.
LEMMA Charged ==
  ASSUME NEW s \in Stages
  PROVE  /\ Charge(s) \in Stages /\ Charge(s).since = -1
         /\ Charge(s).slot = s.slot /\ Charge(s).decoded = s.decoded
         /\ s.spent = Budget => Charge(s).spent = Budget
         /\ s.since # -1 /\ s.spent + s.since >= Budget => Charge(s).spent = Budget
         /\ \A d \in Nat : d <= Budget /\ d <= s.spent + (IF s.since = -1 THEN 0 ELSE s.since)
                             => d <= Charge(s).spent
<1>1. PICK a \in Slots, b \in BOOLEAN, p \in 0 .. Budget, q \in {-1} \cup 0 .. Budget :
        s = [slot |-> a, decoded |-> b, spent |-> p, since |-> q]
  BY DEF Stages
<1>2. CASE q = -1
  BY <1>1, <1>2, PolicyAssumption DEF Charge
<1>3. CASE q # -1
  <2> DEFINE t == IF p + q > Budget THEN Budget ELSE p + q
  <2>1. t \in 0 .. Budget /\ q \in 0 .. Budget
    BY <1>3, PolicyAssumption
  <2>2. Charge(s) = [slot |-> a, decoded |-> b, spent |-> t, since |-> -1]
    BY <1>1, <1>3 DEF Charge
  <2>3. Charge(s) \in Stages
    BY <2>1, <2>2 DEF Stages
  <2> QED
    BY <1>1, <1>3, <2>1, <2>2, <2>3, PolicyAssumption
<1> QED
  BY <1>2, <1>3

\* What the run before its end has to keep when a stage or a capture changes:
\* the decodes, and the reason for which earlier stages were passed.
Kept(n) ==
  /\ SameDecodes(n)
  /\ \A i \in 1 .. n :
       /\ Exhausted(i) => Exhausted(i)'
       /\ ~stages[i].decoded /\ ~SealedAt(stages[i].slot) => ~SealedAt(stages[i].slot)'

LEMMA PassedKept ==
  ASSUME TypeOK, NEW n \in Nat, n <= Len(stages), Kept(n), NEW i \in 1 .. n, Passed(i)
  PROVE  Passed(i)'
<1>1. SameDecodes(n) /\ stages'[i].decoded = stages[i].decoded
  BY DEF Kept, SameDecodes
<1>2. Final(i)' = Final(i)
  <2>1. \A j \in 0 .. n : Final(j)' = Final(j)
    BY <1>1, Stable
  <2> QED
    BY <2>1
<1> QED
  BY <1>1, <1>2 DEF Passed, Kept, Exhausted

\* A run goes on with its stage, or ends.
LEMMA EditInv ==
  ASSUME RecoveryInv, TypeOK', NEW n \in Nat, n <= Len(stages), n + 1 >= Len(stages'), Kept(n),
         image = "none" /\ image' = "none" /\ run'.pc # "publish",
         Running' => /\ Running /\ run'.index - 1 \in 0 .. n
                     /\ run'.index = run.index /\ run'.left = run.left /\ run'.dull = run.dull,
         \A i \in 1 .. n : i < Len(stages) \/ (Running /\ i < run.index),
         Position', SlotsApart', ClocksKept', TimeCharged'
  PROVE  RecoveryInv'
<1>0. TypeOK
  BY DEF RecoveryInv
<1>1. PassedOn'
  <2> SUFFICES ASSUME NEW i \in DOMAIN stages', i < Len(stages') \/ (Running' /\ i < run'.index)
               PROVE  Passed(i)'
    BY DEF PassedOn
  <2>1. i \in 1 .. n
    <3>1. stages' \in Seq(Stages) /\ Len(stages') \in Nat /\ DOMAIN stages' = 1 .. Len(stages')
      BY DEF TypeOK
    <3>2. run'.index \in Nat
      BY PolicyAssumption DEF TypeOK, RunRecords
    <3> QED
      BY <3>1, <3>2
  <2>2. Passed(i)
    BY <1>0, <2>1, StageTypes DEF RecoveryInv, PassedOn
  <2> QED
    BY <1>0, <2>1, <2>2, PassedKept
<1>2. Counted'
  <2> SUFFICES ASSUME Running' PROVE Counted'
    BY DEF Counted
  <2>1. \A k \in 0 .. n : Left(k)' = Left(k) /\ Streak(k)' = Streak(k) /\ Decoded(k)' = Decoded(k)
    BY Stable DEF Kept
  <2> QED
    BY <2>1 DEF RecoveryInv, Counted
<1>3. Justified'
  BY DEF Justified
<1> QED
  BY <1>1, <1>2, <1>3 DEF RecoveryInv

\* The stage of a run that reads, decodes or takes up a capture.
LEMMA OpenStage ==
  ASSUME RecoveryInv,
         run.pc \in {"read", "decode"} \/ (Pending /\ (Saved(Slot) \/ ~Exhausted(run.index)))
  PROVE  /\ TypeOK /\ Running /\ image = "none" /\ run.index = Len(stages)
         /\ run.index \in 1 .. Len(stages) /\ run.index - 1 \in Nat /\ run.index <= Passes
         /\ HasStage /\ stages[run.index].slot = Slot /\ Slot \in Slots
         /\ ~stages[run.index].decoded /\ cap[Slot] \in Captures
         /\ \A i \in DOMAIN stages : i # run.index => stages[i].slot # Slot
<1>0. TypeOK /\ Position /\ SlotsApart /\ Len(stages) <= Passes
  BY DEF RecoveryInv, TypeOK
<1>1. Running /\ HasStage /\ ~Stage.decoded /\ run.index = Len(stages)
  <2>1. CASE run.pc \in {"read", "decode"}
    BY <1>0, <2>1 DEF Position, Running
  <2>2. CASE Pending /\ (Saved(Slot) \/ ~Exhausted(run.index))
    BY <2>2, LastStage DEF Pending, Top, At, Running
  <2> QED
    BY <2>1, <2>2
<1>2. run.index \in 1 .. Len(stages) /\ Len(stages) \in Nat /\ DOMAIN stages = 1 .. Len(stages)
  BY <1>0, <1>1, StageTypes DEF HasStage
<1>3. stages[run.index].slot = Slot /\ Slot \in Slots /\ cap[Slot] \in Captures
  BY <1>0, <1>2, StageTypes DEF Stage, Slot
<1>4. \A i \in DOMAIN stages : i # run.index => stages[i].slot # Slot
  BY <1>0, <1>2, <1>3 DEF SlotsApart
<1> QED
  BY <1>0, <1>1, <1>2, <1>3, <1>4 DEF Position, Stage

\* A sealed capture is published.
LEMMA PublishCaptureInv ==
  ASSUME RecoveryInv, run.pc = "read" \/ (Pending /\ Saved(Slot)), PublishCapture(Slot),
         UNCHANGED <<durable, run, faults, drive>>
  PROVE  RecoveryInv'
<1> DEFINE n == Len(stages) - 1
<1>0. /\ TypeOK /\ Running /\ image = "none" /\ run.index = Len(stages)
      /\ run.index \in 1 .. Len(stages) /\ run.index - 1 \in Nat /\ run.index <= Passes
      /\ HasStage /\ stages[run.index].slot = Slot /\ Slot \in Slots
      /\ ~stages[run.index].decoded /\ cap[Slot] \in Captures
      /\ \A i \in DOMAIN stages : i # run.index => stages[i].slot # Slot
  BY OpenStage
<1>1. PICK a \in Slots : a = Slot
  BY <1>0
<1>2. PICK s \in {"payload", "done"} : CapState(a, s)
  BY <1>1 DEF PublishCapture
<1>3. SealedAt(a) /\ cap[a].state # "done"
  BY <1>1 DEF PublishCapture, SealedAt, Sealed
<1>4. /\ cap' \in [Slots -> Captures] /\ dec' = dec /\ litter' = litter
      /\ cap'[a].state = s /\ cap'[a].good = cap[a].good /\ cap'[a].floppy = cap[a].floppy
      /\ \A b \in Slots : b # a => cap'[b] = cap[b]
  BY <1>0, <1>2, EditCapture DEF Sealed
<1>5. TypeOK'
  BY <1>0, <1>4 DEF TypeOK, durable
<1>6. Kept(n)
  BY <1>0, <1>1, <1>3, <1>4, StageTypes DEF Kept, SameDecodes, SealedAt, Exhausted, durable
<1>7. Position'
  BY <1>0, <1>1, <1>2, <1>4, StageTypes
     DEF RecoveryInv, Position, Running, HasStage, Stage, Slot, Sealed, durable, Pending, Top, At
<1>8. SlotsApart'
  BY <1>0, <1>1, <1>3, <1>4, StageTypes DEF RecoveryInv, SlotsApart, durable
<1>9. ClocksKept' /\ TimeCharged'
  BY DEF RecoveryInv, ClocksKept, TimeCharged, Stage, durable
<1>10. /\ n \in Nat /\ n <= Len(stages) /\ n + 1 >= Len(stages')
       /\ run'.index - 1 \in 0 .. n /\ run'.pc # "publish" /\ image' = "none"
       /\ \A i \in 1 .. n : i < Len(stages)
  BY <1>0 DEF durable, Running
<1> QED
  BY <1>0, <1>5, <1>6, <1>7, <1>8, <1>9, <1>10, EditInv

LEMMA PublishStepInv == RecoveryInv /\ Publish => RecoveryInv'
BY PublishCaptureInv DEF Publish, At

LEMMA ResumeInv == RecoveryInv /\ Resume => RecoveryInv'
<1> SUFFICES ASSUME RecoveryInv, Resume PROVE RecoveryInv'
  OBVIOUS
<1> DEFINE k == run.index
<1>0. Pending /\ Saved(Slot) /\ Finishes /\ UNCHANGED <<durable, faults, drive>>
  BY DEF Resume
<1>1. CASE PublishCapture(Slot) /\ UNCHANGED run
  BY <1>0, <1>1, PublishCaptureInv
<1>2. CASE cap[Slot].state = "done" /\ To("decode") /\ UNCHANGED evidence
  <2>1. /\ TypeOK /\ Running /\ image = "none" /\ run.index = Len(stages)
        /\ run.index \in 1 .. Len(stages) /\ run.index - 1 \in Nat /\ run.index <= Passes
        /\ HasStage /\ stages[run.index].slot = Slot /\ Slot \in Slots
        /\ ~stages[run.index].decoded /\ cap[Slot] \in Captures
        /\ \A i \in DOMAIN stages : i # run.index => stages[i].slot # Slot
    BY <1>0, OpenStage
  <2>2. /\ run' \in RunRecords /\ run'.pc = "decode"
        /\ run'.index = k /\ run'.dull = run.dull /\ run'.left = run.left
    BY <1>2, <2>1, Moved DEF Steps
  <2>3. TypeOK'
    BY <1>0, <1>2, <2>1, <2>2 DEF TypeOK, evidence, durable
  <2>4. run'.index = Len(stages) /\ HasStage' /\ ~Stage'.decoded /\ cap[Stage'.slot].state = "done"
    BY <1>0, <1>2, <2>1, <2>2 DEF HasStage, Stage, Slot, durable
  <2>5. \A i \in DOMAIN stages : i < run'.index => Passed(i)
    BY <2>1, <2>2 DEF RecoveryInv, PassedOn
  <2>6. /\ run'.left = Left(run'.index - 1)
        /\ run'.dull = Cardinality(Streak(run'.index - 1))
        /\ \E m \in 1 .. run'.index :
             Streak(run'.index - 1) = {i \in Decoded(run'.index - 1) : i >= m}
    BY <2>1, <2>2 DEF RecoveryInv, Counted
  <2>7. run.pc # "read" /\ run'.index <= Len(stages) + 1
    BY <1>0, <2>1, <2>2 DEF Pending, Top, At
  <2> QED
    BY <1>0, <1>2, <2>1, <2>2, <2>3, <2>4, <2>5, <2>6, <2>7, MoveInv DEF evidence, durable
<1> QED
  BY <1>0, <1>1, <1>2 DEF Finishes

LEMMA ReadInv == RecoveryInv /\ Read => RecoveryInv'
<1> SUFFICES ASSUME RecoveryInv, NEW f \in Floppies, NEW good \in SUBSET Regions, HostDone(f, good)
             PROVE  RecoveryInv'
  BY DEF Read
<1> DEFINE n == Len(stages) - 1
<1>0. /\ TypeOK /\ Running /\ image = "none" /\ run.index = Len(stages)
      /\ run.index \in 1 .. Len(stages) /\ run.index - 1 \in Nat /\ run.index <= Passes
      /\ HasStage /\ stages[run.index].slot = Slot /\ Slot \in Slots
      /\ ~stages[run.index].decoded /\ cap[Slot] \in Captures
      /\ \A i \in DOMAIN stages : i # run.index => stages[i].slot # Slot
      /\ run.pc = "read" /\ SealCapture(Slot, f, good) /\ UNCHANGED <<durable, run, faults, drive>>
  BY OpenStage DEF HostDone, At
<1>1. PICK a \in Slots : a = Slot
  BY <1>0
<1>2. /\ cap[a].state = "started" /\ dec' = dec /\ litter' = litter
      /\ cap' = [cap EXCEPT ![a] = [state |-> "prepared", floppy |-> f, good |-> good]]
  BY <1>0, <1>1 DEF SealCapture
<1>3. /\ cap' \in [Slots -> Captures] /\ cap'[a].state = "prepared"
      /\ \A b \in Slots : b # a => cap'[b] = cap[b]
  BY <1>0, <1>2 DEF TypeOK, Captures, Sealed
<1>5. TypeOK'
  BY <1>0, <1>2, <1>3 DEF TypeOK, durable
<1>6. Kept(n)
  BY <1>0, <1>1, <1>3, StageTypes DEF Kept, SameDecodes, SealedAt, Exhausted, durable
<1>7. Position'
  BY <1>0, <1>1, <1>3, StageTypes DEF RecoveryInv, Position, Running, HasStage, Stage, Slot, Sealed, durable
<1>8. SlotsApart'
  BY <1>0, <1>1, <1>2, <1>3, StageTypes DEF RecoveryInv, SlotsApart, durable
<1>9. ClocksKept' /\ TimeCharged'
  BY <1>0 DEF RecoveryInv, ClocksKept, TimeCharged, Stage, durable
<1>10. /\ n \in Nat /\ n <= Len(stages) /\ n + 1 >= Len(stages')
       /\ run'.index - 1 \in 0 .. n /\ run'.pc # "publish" /\ image' = "none"
       /\ \A i \in 1 .. n : i < Len(stages)
  BY <1>0 DEF durable, Running
<1> QED
  BY <1>0, <1>5, <1>6, <1>7, <1>8, <1>9, <1>10, EditInv

LEMMA NewStageInv == RecoveryInv /\ NewStage => RecoveryInv'
<1> SUFFICES ASSUME RecoveryInv, NewStage PROVE RecoveryInv'
  OBVIOUS
<1> DEFINE n == Len(stages)
<1>0. /\ TypeOK /\ Running /\ image = "none" /\ run.pc = "pass"
      /\ n \in Nat /\ DOMAIN stages = 1 .. n /\ run.index \in Nat /\ run.index = n + 1 /\ n + 1 <= Passes
      /\ UNCHANGED <<evidence, result, image, run, faults, drive>>
  <2>1. /\ TypeOK /\ Running /\ run.pc = "pass" /\ ~HasStage /\ run.index <= Passes
        /\ UNCHANGED <<evidence, result, image, run, faults, drive>>
    BY DEF RecoveryInv, NewStage, Top, At, Running
  <2>2. n \in Nat /\ DOMAIN stages = 1 .. n /\ run.index \in 1 .. Passes + 1
    BY <2>1, StageTypes DEF TypeOK, RunRecords
  <2>3. run.index <= n + 1 /\ image = "none"
    BY <2>1 DEF RecoveryInv, Position
  <2> QED
    BY <2>1, <2>2, <2>3, PolicyAssumption DEF HasStage
<1>1. PICK a \in Slots : /\ NewSlot(a)
                         /\ stages' = Append(stages, [slot |-> a, decoded |-> FALSE, spent |-> 0, since |-> -1])
  BY DEF NewStage
<1>2. [slot |-> a, decoded |-> FALSE, spent |-> 0, since |-> -1] \in Stages
  BY PolicyAssumption DEF Stages
<1>3. /\ stages' \in Seq(Stages) /\ Len(stages') = n + 1 /\ DOMAIN stages' = 1 .. n + 1
      /\ stages'[n + 1] = [slot |-> a, decoded |-> FALSE, spent |-> 0, since |-> -1]
      /\ \A i \in 1 .. n : stages'[i] = stages[i]
  BY <1>0, <1>1, <1>2 DEF TypeOK
<1>4. \A i \in 1 .. n : stages[i].slot # a
  <2>1. \A i \in 1 .. n : stages[i].slot < a /\ stages[i].slot \in Nat
    BY <1>0, <1>1, StageTypes, SlotsAssumption DEF NewSlot, Slots
  <2> QED
    BY <2>1
<1>5. TypeOK'
  BY <1>0, <1>3 DEF TypeOK, evidence
<1>6. Kept(n)
  BY <1>0, <1>3 DEF Kept, SameDecodes, SealedAt, Exhausted, evidence
<1>7. Position'
  BY <1>0, <1>3 DEF Position, Running
<1>8. SlotsApart'
  <2>1. \A i \in 1 .. n + 1 : i \in 1 .. n \/ i = n + 1
    BY <1>0
  <2> QED
    BY <1>0, <1>3, <1>4, <2>1 DEF RecoveryInv, SlotsApart, evidence
<1>9. ClocksKept'
  <2>1. \A i \in 1 .. n + 1 : i \in 1 .. n \/ i = n + 1
    BY <1>0
  <2> QED
    BY <1>0, <1>3, <2>1 DEF RecoveryInv, ClocksKept
<1>10. TimeCharged'
  <2> SUFFICES ASSUME NEW i \in 1 .. Passes
               PROVE  /\ drive[i] <= Budget /\ (i > n + 1 => drive[i] = 0)
                      /\ i <= n + 1 =>
                           drive[i] <= stages'[i].spent + (IF stages'[i].since = -1 THEN 0 ELSE stages'[i].since)
    BY <1>0, <1>3 DEF TimeCharged
  <2>1. CASE i \in 1 .. n
    BY <1>0, <1>3, <2>1 DEF RecoveryInv, TimeCharged
  <2>2. CASE i = n + 1
    <3>1. drive[i] <= Budget /\ drive[i] = 0
      BY <1>0, <2>2 DEF RecoveryInv, TimeCharged
    <3> QED
      BY <1>0, <1>3, <2>2, <3>1
  <2>3. CASE i > n + 1
    BY <1>0, <2>3 DEF RecoveryInv, TimeCharged
  <2> QED
    BY <1>0, <2>1, <2>2, <2>3
<1> QED
  BY <1>0, <1>3, <1>5, <1>6, <1>7, <1>8, <1>9, <1>10, EditInv

\* The stage that takes the drive moves to a slot of its own, with its clock at zero.
LEMMA OpensStage ==
  ASSUME TypeOK, NEW k \in 1 .. Len(stages), NEW a \in Slots,
         stages' = [stages EXCEPT ![k].slot = a, ![k].since = 0]
  PROVE  /\ stages' \in Seq(Stages) /\ Len(stages') = Len(stages) /\ DOMAIN stages' = DOMAIN stages
         /\ stages'[k].slot = a /\ stages'[k].since = 0
         /\ stages'[k].decoded = stages[k].decoded /\ stages'[k].spent = stages[k].spent
         /\ \A i \in DOMAIN stages : i # k => stages'[i] = stages[i]
<1>1. PICK b \in Slots, d \in BOOLEAN, p \in 0 .. Budget, q \in {-1} \cup 0 .. Budget :
        stages[k] = [slot |-> b, decoded |-> d, spent |-> p, since |-> q]
  BY StageTypes DEF Stages
<1> DEFINE s == [slot |-> a, decoded |-> d, spent |-> p, since |-> 0]
<1>2. s \in Stages
  BY PolicyAssumption DEF Stages
<1>3. stages \in Seq(Stages) /\ k \in DOMAIN stages
  BY DEF TypeOK
<1>4. [[stages[k] EXCEPT !.slot = a] EXCEPT !.since = 0] = s
  <2>1. [stages[k] EXCEPT !.slot = a] = [slot |-> a, decoded |-> d, spent |-> p, since |-> q]
    BY <1>1
  <2>2. [[slot |-> a, decoded |-> d, spent |-> p, since |-> q] EXCEPT !.since = 0] = s
    OBVIOUS
  <2> HIDE DEF s
  <2> QED
    BY <2>1, <2>2, Zenon
<1>5. stages' = [stages EXCEPT ![k] = s]
  BY <1>3, <1>4
<1> HIDE DEF s
<1>6. /\ stages' \in Seq(Stages) /\ Len(stages') = Len(stages) /\ DOMAIN stages' = DOMAIN stages
      /\ stages'[k] = s /\ \A i \in DOMAIN stages : i # k => stages'[i] = stages[i]
  BY <1>2, <1>5, EditStage
<1> QED
  BY <1>1, <1>6 DEF s

LEMMA OpensInv ==
  ASSUME RecoveryInv, NEW a \in Slots, Opens(a), NEW s \in {"started", "torn"}, Occupied(a) = FALSE, CapState(a, s),
         run' \in RunRecords, UNCHANGED <<result, image, drive>>, faults' \in Nat,
         \/ s = "started" /\ run'.pc = "read" /\ run'.index = run.index
                          /\ run'.dull = run.dull /\ run'.left = run.left
         \/ run'.pc = "off"
  PROVE  RecoveryInv'
<1> DEFINE n == Len(stages) - 1
           k == run.index
<1>0. /\ TypeOK /\ Running /\ image = "none" /\ run.index = Len(stages)
      /\ run.index \in 1 .. Len(stages) /\ run.index - 1 \in Nat /\ run.index <= Passes
      /\ HasStage /\ stages[run.index].slot = Slot /\ Slot \in Slots
      /\ ~stages[run.index].decoded /\ cap[Slot] \in Captures
      /\ \A i \in DOMAIN stages : i # run.index => stages[i].slot # Slot
      /\ run.pc = "pass"
  BY OpenStage DEF Opens, Pending, Top, At
<1>1. /\ stages' \in Seq(Stages) /\ Len(stages') = Len(stages) /\ DOMAIN stages' = DOMAIN stages
      /\ stages'[k].slot = a /\ stages'[k].since = 0
      /\ stages'[k].decoded = stages[k].decoded /\ stages'[k].spent = stages[k].spent
      /\ \A i \in DOMAIN stages : i # k => stages'[i] = stages[i]
  <2>1. stages' = [stages EXCEPT ![k].slot = a, ![k].since = 0] /\ k \in 1 .. Len(stages)
    BY <1>0 DEF Opens
  <2>2. PICK j \in 1 .. Len(stages) : j = k
    BY <2>1
  <2> QED
    BY <1>0, <2>1, <2>2, OpensStage
<1>2. /\ cap' \in [Slots -> Captures] /\ dec' = dec /\ litter' = litter
      /\ cap'[a].state = s /\ \A b \in Slots : b # a => cap'[b] = cap[b]
  BY <1>0, EditCapture
<1>3. \A i \in DOMAIN stages : i # k => stages[i].slot # a
  <2>1. \A i \in DOMAIN stages : i # k => stages[i].slot < a /\ stages[i].slot \in Nat
    BY <1>0, StageTypes, SlotsAssumption DEF Opens, NewSlot, Slots
  <2> QED
    BY <2>1
<1>4. \A i \in DOMAIN stages : i # k => cap'[stages[i].slot] = cap[stages[i].slot]
  BY <1>0, <1>2, <1>3, StageTypes
<1>5. TypeOK'
  BY <1>0, <1>1, <1>2 DEF TypeOK
<1>6. Kept(n)
  BY <1>0, <1>1, <1>4, StageTypes DEF Kept, SameDecodes, SealedAt, Exhausted
<1>7. Position'
  BY <1>0, <1>1, <1>2, StageTypes DEF RecoveryInv, Position, Running, HasStage, Stage, Slot, Sealed
<1>8. SlotsApart'
  BY <1>0, <1>1, <1>3, <1>4, StageTypes DEF RecoveryInv, SlotsApart
<1>9. ClocksKept'
  BY <1>0, <1>1 DEF RecoveryInv, ClocksKept, Stage
<1>10. TimeCharged'
  <2>1. /\ \A i \in 1 .. Len(stages) : i # k => stages'[i] = stages[i]
        /\ stages[k].since = -1
    BY <1>0, <1>1, StageTypes, Zenon DEF RecoveryInv, ClocksKept
  <2> SUFFICES ASSUME NEW i \in 1 .. Passes
               PROVE  /\ drive[i] <= Budget /\ (i > Len(stages) => drive[i] = 0)
                      /\ i <= Len(stages) =>
                           drive[i] <= stages'[i].spent + (IF stages'[i].since = -1 THEN 0 ELSE stages'[i].since)
    BY <1>1 DEF TimeCharged
  <2>2. /\ drive[i] <= Budget /\ (i > Len(stages) => drive[i] = 0)
        /\ i <= Len(stages) =>
             drive[i] <= stages[i].spent + (IF stages[i].since = -1 THEN 0 ELSE stages[i].since)
    BY SMTT(30) DEF RecoveryInv, TimeCharged
  <2>3. CASE i = k
    BY <1>0, <1>1, <2>1, <2>2, <2>3, Zenon
  <2>4. CASE i # k
    BY <1>0, <2>1, <2>2, <2>4
  <2> QED
    BY <2>3, <2>4, SMTT(30)
<1>11. /\ n \in Nat /\ n <= Len(stages) /\ n + 1 >= Len(stages')
       /\ (Running' => run'.index - 1 \in 0 .. n) /\ run'.pc # "publish" /\ image' = "none"
       /\ \A i \in 1 .. n : i < Len(stages)
  BY <1>0, <1>1 DEF Running
<1>12. Running' => run'.index = run.index /\ run'.left = run.left /\ run'.dull = run.dull
  BY DEF Running
<1> QED
  BY <1>0, <1>5, <1>6, <1>7, <1>8, <1>9, <1>10, <1>11, <1>12, EditInv

LEMMA CaptureInv == RecoveryInv /\ (Capture \/ CaptureTorn) => RecoveryInv'
<1> SUFFICES ASSUME RecoveryInv, Capture \/ CaptureTorn PROVE RecoveryInv'
  OBVIOUS
<1>0. TypeOK
  BY DEF RecoveryInv
<1>1. CASE Capture
  <2>1. PICK a \in Slots : Opens(a) /\ ReserveCapture(a)
    BY <1>1 DEF Capture
  <2>2. /\ Occupied(a) = FALSE /\ CapState(a, "started")
    BY <2>1 DEF ReserveCapture, Occupied
  <2>3. /\ run' \in RunRecords /\ run'.pc = "read"
        /\ run'.index = run.index /\ run'.dull = run.dull /\ run'.left = run.left
    BY <1>0, <1>1, Moved DEF Capture, Steps
  <2>4. UNCHANGED <<result, image, drive>> /\ faults' \in Nat
    BY <1>0, <1>1 DEF Capture, TypeOK
  <2> QED
    BY <2>1, <2>2, <2>3, <2>4, OpensInv
<1>2. CASE CaptureTorn
  <2>1. PICK a \in Slots : Opens(a) /\ TornCapture(a)
    BY <1>2 DEF CaptureTorn
  <2>2. /\ Occupied(a) = FALSE /\ CapState(a, "torn")
    BY <2>1 DEF TornCapture, Occupied
  <2>3. run' \in RunRecords /\ run'.pc = "off"
    BY <1>2, OffType DEF CaptureTorn, RunEnds
  <2>4. UNCHANGED <<result, image, drive>> /\ faults' \in Nat
    BY <1>0, <1>2 DEF CaptureTorn, RunEnds, TypeOK
  <2> QED
    BY <2>1, <2>2, <2>3, <2>4, OpensInv
<1> QED
  BY <1>1, <1>2

\* The clock of a stage is stopped.
LEMMA StopsClock ==
  ASSUME TypeOK, TimeCharged, NEW k \in 1 .. Len(stages), stages' = [stages EXCEPT ![k] = Charge(@)],
         UNCHANGED drive
  PROVE  /\ stages' \in Seq(Stages) /\ Len(stages') = Len(stages) /\ DOMAIN stages' = DOMAIN stages
         /\ stages'[k].slot = stages[k].slot /\ stages'[k].decoded = stages[k].decoded
         /\ stages'[k].since = -1
         /\ stages[k].spent = Budget => stages'[k].spent = Budget
         /\ stages[k].since # -1 /\ stages[k].spent + stages[k].since >= Budget => stages'[k].spent = Budget
         /\ \A i \in DOMAIN stages : i # k => stages'[i] = stages[i]
         /\ TimeCharged'
<1>1. PICK s \in Stages : s = stages[k]
  BY StageTypes
<1>2. PICK c \in Stages : c = Charge(s)
  BY Charged
<1>3. stages' = [stages EXCEPT ![k] = c]
  BY <1>1, <1>2
<1>4. /\ stages' \in Seq(Stages) /\ Len(stages') = Len(stages) /\ DOMAIN stages' = DOMAIN stages
      /\ stages'[k] = c /\ \A i \in DOMAIN stages : i # k => stages'[i] = stages[i]
  BY <1>3, EditStage
<1>5. /\ c.since = -1 /\ c.slot = s.slot /\ c.decoded = s.decoded
      /\ s.spent = Budget => c.spent = Budget
      /\ s.since # -1 /\ s.spent + s.since >= Budget => c.spent = Budget
      /\ \A d \in Nat : d <= Budget /\ d <= s.spent + (IF s.since = -1 THEN 0 ELSE s.since) => d <= c.spent
  BY <1>2, Charged
<1>6. TimeCharged'
  <2> SUFFICES ASSUME NEW i \in 1 .. Passes
               PROVE  /\ drive[i] <= Budget /\ (i > Len(stages) => drive[i] = 0)
                      /\ i <= Len(stages) =>
                           drive[i] <= stages'[i].spent + (IF stages'[i].since = -1 THEN 0 ELSE stages'[i].since)
    BY <1>4 DEF TimeCharged
  <2>1. /\ drive[i] <= Budget /\ (i > Len(stages) => drive[i] = 0) /\ drive[i] \in Nat
        /\ i <= Len(stages) =>
             drive[i] <= stages[i].spent + (IF stages[i].since = -1 THEN 0 ELSE stages[i].since)
    BY DEF TypeOK, TimeCharged
  <2>2. CASE i = k
    <3>1. drive[i] <= c.spent /\ c.spent \in Nat
      BY <1>1, <1>5, <2>1, <2>2, PolicyAssumption, StageTypes, SMTT(30) DEF Stages
    <3> QED
      BY <1>4, <1>5, <2>1, <2>2, <3>1
  <2>3. CASE i # k
    BY <1>4, <2>1, <2>3, StageTypes
  <2> QED
    BY <2>2, <2>3
<1> QED
  BY <1>1, <1>4, <1>5, <1>6

LEMMA StopsInv ==
  ASSUME RecoveryInv, run.pc = "read", stages' = [stages EXCEPT ![run.index] = Charge(@)],
         UNCHANGED <<result, image, drive>>, run' \in RunRecords, faults' \in Nat,
         \/ UNCHANGED evidence \/ FailCapture(Slot),
         \/ run'.pc = "decode" /\ run'.index = run.index /\ run'.dull = run.dull /\ run'.left = run.left
             /\ UNCHANGED evidence /\ cap[Slot].state = "done"
         \/ run'.pc = "off"
  PROVE  RecoveryInv'
<1> DEFINE n == Len(stages) - 1
<1>0. /\ TypeOK /\ Running /\ image = "none" /\ run.index = Len(stages)
      /\ run.index \in 1 .. Len(stages) /\ run.index - 1 \in Nat /\ run.index <= Passes
      /\ HasStage /\ stages[run.index].slot = Slot /\ Slot \in Slots
      /\ ~stages[run.index].decoded /\ cap[Slot] \in Captures
      /\ \A i \in DOMAIN stages : i # run.index => stages[i].slot # Slot
  BY OpenStage
<1>1. PICK k \in 1 .. Len(stages) : k = run.index
  BY <1>0
<1>2. /\ stages' \in Seq(Stages) /\ Len(stages') = Len(stages) /\ DOMAIN stages' = DOMAIN stages
      /\ stages'[k].slot = stages[k].slot /\ stages'[k].decoded = stages[k].decoded
      /\ stages'[k].since = -1
      /\ \A i \in DOMAIN stages : i # k => stages'[i] = stages[i]
      /\ TimeCharged'
  BY <1>0, <1>1, StopsClock DEF RecoveryInv
<1>3. /\ cap' \in [Slots -> Captures] /\ dec' = dec /\ litter' = litter
      /\ \A b \in Slots : b # Slot => cap'[b] = cap[b]
  <2>1. CASE UNCHANGED evidence
    BY <1>0, <2>1 DEF TypeOK, evidence
  <2>2. CASE FailCapture(Slot)
    <3>1. PICK a \in Slots : a = Slot
      BY <1>0
    <3> QED
      BY <1>0, <2>2, <3>1, EditCapture DEF FailCapture
  <2> QED
    BY <2>1, <2>2
<1>4. \A i \in DOMAIN stages : i # k => cap'[stages[i].slot] = cap[stages[i].slot]
  BY <1>0, <1>1, <1>3, StageTypes, SMTT(30)
<1>5. TypeOK'
  BY <1>0, <1>2, <1>3, Zenon DEF TypeOK
<1>6. Kept(n)
  <2>1. \A i \in 1 .. n : i \in DOMAIN stages /\ i # k /\ stages'[i] = stages[i]
    BY <1>0, <1>1, <1>2, StageTypes
  <2>2. \A i \in 1 .. n : cap'[stages[i].slot] = cap[stages[i].slot]
    BY <1>4, <2>1
  <2>3. SameDecodes(n)
    BY <2>1, <2>2 DEF SameDecodes
  <2>4. \A i \in 1 .. n : Exhausted(i) => Exhausted(i)'
    BY <2>1 DEF Exhausted
  <2>5. \A i \in 1 .. n : SealedAt(stages[i].slot)' = SealedAt(stages[i].slot)
    BY <2>1, <2>2 DEF SealedAt
  <2> QED
    BY <2>3, <2>4, <2>5 DEF Kept
<1>7. Position'
  BY <1>0, <1>1, <1>2, <1>3, StageTypes DEF Position, Running, HasStage, Stage, Slot, evidence
<1>8. SlotsApart'
  BY <1>0, <1>1, <1>2, <1>4, StageTypes DEF RecoveryInv, SlotsApart
<1>9. ClocksKept'
  BY <1>0, <1>1, <1>2 DEF RecoveryInv, ClocksKept, Stage
<1>11. /\ n \in Nat /\ n <= Len(stages) /\ n + 1 >= Len(stages')
       /\ (Running' => run'.index - 1 \in 0 .. n) /\ run'.pc # "publish" /\ image' = "none"
       /\ \A i \in 1 .. n : i < Len(stages)
  <2>1. run'.pc \in {"decode", "off"} /\ (Running' => run'.index = run.index)
    BY DEF Running
  <2>2. image' = "none" /\ n \in Nat /\ n + 1 = Len(stages) /\ run.index - 1 = n
    BY <1>0
  <2> QED
    BY <1>2, <2>1, <2>2
<1>12. Running' => run'.index = run.index /\ run'.left = run.left /\ run'.dull = run.dull
  BY DEF Running
<1> QED
  BY <1>0, <1>2, <1>5, <1>6, <1>7, <1>8, <1>9, <1>11, <1>12, EditInv, Zenon

LEMMA ClockStopsInv == RecoveryInv /\ (ClockStops \/ HostFails) => RecoveryInv'
<1> SUFFICES ASSUME RecoveryInv, ClockStops \/ HostFails PROVE RecoveryInv'
  OBVIOUS
<1>0. TypeOK
  BY DEF RecoveryInv
<1>1. CASE ClockStops
  <2>1. /\ run' \in RunRecords /\ run'.pc = "decode"
        /\ run'.index = run.index /\ run'.dull = run.dull /\ run'.left = run.left
    BY <1>0, <1>1, Moved DEF ClockStops, Steps
  <2>2. faults' \in Nat
    BY <1>0, <1>1 DEF ClockStops, TypeOK
  <2> QED
    BY <1>1, <2>1, <2>2, StopsInv DEF ClockStops, At
<1>2. CASE HostFails
  <2>1. run' \in RunRecords /\ run'.pc = "off" /\ faults' \in Nat
    BY <1>0, <1>2, OffType DEF HostFails, RunEnds, TypeOK
  <2> QED
    BY <1>2, <2>1, StopsInv DEF HostFails, At
<1> QED
  BY <1>1, <1>2

LEMMA DeadlineInv == RecoveryInv /\ Deadline => RecoveryInv'
<1> SUFFICES ASSUME RecoveryInv, Deadline PROVE RecoveryInv'
  OBVIOUS
<1> DEFINE n == Len(stages) - 1
<1>0. /\ TypeOK /\ Running /\ image = "none" /\ run.index = Len(stages)
      /\ run.index \in 1 .. Len(stages) /\ run.index - 1 \in Nat /\ run.index <= Passes
      /\ HasStage /\ stages[run.index].slot = Slot /\ Slot \in Slots
      /\ ~stages[run.index].decoded /\ cap[Slot] \in Captures
      /\ \A i \in DOMAIN stages : i # run.index => stages[i].slot # Slot
      /\ run.pc = "read" /\ ~InTime /\ FailCapture(Slot)
      /\ stages' = [stages EXCEPT ![run.index] = Charge(@)] /\ UNCHANGED <<result, image, faults, drive>>
  BY OpenStage DEF Deadline, At
<1>1. CASE Decoded(Len(stages)) = {}
  <2>1. run' \in RunRecords /\ run'.pc = "off" /\ faults' \in Nat
    BY <1>0, <1>1, OffType DEF Deadline, Refuse, TypeOK
  <2> QED
    BY <1>0, <2>1, StopsInv
<1>2. CASE Decoded(Len(stages)) # {}
  <2>1. PICK k \in 1 .. Len(stages) : k = run.index
    BY <1>0
  <2>2. /\ stages' \in Seq(Stages) /\ Len(stages') = Len(stages) /\ DOMAIN stages' = DOMAIN stages
        /\ stages'[k].slot = stages[k].slot /\ stages'[k].decoded = stages[k].decoded
        /\ stages'[k].since = -1
        /\ stages[k].since # -1 /\ stages[k].spent + stages[k].since >= Budget => stages'[k].spent = Budget
        /\ \A i \in DOMAIN stages : i # k => stages'[i] = stages[i]
        /\ TimeCharged'
    BY <1>0, <2>1, StopsClock DEF RecoveryInv
  <2>3. stages'[k].spent = Budget
    <3>1. stages[k].since # -1 /\ ~(stages[k].spent + stages[k].since < Budget)
      BY <1>0, <2>1 DEF RecoveryInv, ClocksKept, InTime, Stage
    <3>2. stages[k].since \in Int /\ stages[k].spent \in Int /\ Budget \in Int
      BY <1>0, StageTypes, PolicyAssumption DEF Stages
    <3> QED
      BY <2>2, <3>1, <3>2
  <2>4. PICK a \in Slots : a = Slot
    BY <1>0
  <2>5. /\ cap' \in [Slots -> Captures] /\ dec' = dec /\ litter' = litter
        /\ cap'[a].state = "failed" /\ cap'[a].good = cap[a].good /\ cap'[a].floppy = cap[a].floppy
        /\ \A b \in Slots : b # a => cap'[b] = cap[b]
    BY <1>0, <2>4, EditCapture DEF FailCapture
  <2>6. /\ run' \in RunRecords /\ run'.pc = "pass" /\ run'.index = k + 1
        /\ run'.dull = run.dull /\ run'.left = run.left
    <3>1. k + 1 \in 1 .. Passes + 1 /\ NextPass
      BY <1>0, <1>2, <2>1, PolicyAssumption DEF Deadline
    <3> QED
      BY <1>0, <2>1, <3>1 DEF NextPass, TypeOK, RunRecords, Steps
  <2>7. \A i \in DOMAIN stages : i # k => cap'[stages[i].slot] = cap[stages[i].slot]
    BY <1>0, <2>1, <2>4, <2>5, StageTypes
  <2>8. TypeOK'
    BY <1>0, <2>2, <2>5, <2>6, Zenon DEF TypeOK
  <2>9. Kept(k)
    BY <1>0, <2>1, <2>2, <2>3, <2>4, <2>5, <2>7, StageTypes DEF Kept, SameDecodes, SealedAt, Exhausted, Sealed
  <2>10. Position'
    BY <1>0, <2>1, <2>2, <2>6 DEF Position, Running
  <2>11. SlotsApart'
    BY <1>0, <2>1, <2>2, <2>7, StageTypes DEF RecoveryInv, SlotsApart
  <2>12. ClocksKept'
    BY <1>0, <2>1, <2>2, <2>6 DEF RecoveryInv, ClocksKept
  <2>13. PassedOn'
    <3> SUFFICES ASSUME NEW i \in 1 .. k PROVE Passed(i)'
      BY <1>0, <2>1, <2>2, StageTypes DEF PassedOn
    <3>1. CASE i = k
      BY <1>0, <2>1, <2>2, <2>3, <2>4, <2>5, <3>1 DEF Passed, Exhausted, SealedAt, Sealed
    <3>2. CASE i # k
      <4>1. Passed(i) /\ k \in Nat /\ k <= Len(stages)
        BY <1>0, <2>1, <3>2, StageTypes DEF RecoveryInv, PassedOn
      <4> QED
        BY <1>0, <2>9, <4>1, PassedKept
    <3> QED
      BY <3>1, <3>2
  <2>14. Counted'
    <3>1. \A j \in 0 .. k : Left(j)' = Left(j) /\ Streak(j)' = Streak(j) /\ Decoded(j)' = Decoded(j)
      BY <1>0, <2>1, <2>9, Stable DEF Kept
    <3>2. /\ Decoded(k) = Decoded(k - 1) /\ Streak(k) = Streak(k - 1) /\ Left(k) = Left(k - 1)
          /\ k \in 0 .. k /\ k - 1 \in 0 .. k /\ run'.index - 1 = k
      BY <1>0, <2>1, <2>6, StreakStep
    <3>3. PICK m \in 1 .. k : Streak(k - 1) = {i \in Decoded(k - 1) : i >= m}
      BY <1>0, <2>1 DEF RecoveryInv, Counted
    <3>4. m \in 1 .. run'.index
      BY <1>0, <2>6
    <3>5. run'.left = Left(k) /\ run'.dull = Cardinality(Streak(k))
      BY <1>0, <2>1, <2>6, <3>2 DEF RecoveryInv, Counted
    <3>6. /\ Left(run.index - 1)' = Left(k) /\ Streak(run.index - 1)' = Streak(k)
          /\ Decoded(run.index - 1)' = Decoded(k)
      BY <3>1, <3>2
    <3> QED
      BY <3>2, <3>3, <3>4, <3>5, <3>6 DEF Counted
  <2>15. Justified'
    BY <1>0, <2>6 DEF Justified
  <2> QED
    BY <2>2, <2>8, <2>10, <2>11, <2>12, <2>13, <2>14, <2>15 DEF RecoveryInv
<1> QED
  BY <1>1, <1>2

\* The clock of a stage goes on.
LEMMA ClockGoesOn ==
  ASSUME TypeOK, NEW k \in 1 .. Len(stages), stages[k].since \in 0 .. Budget - 1,
         stages' = [stages EXCEPT ![k].since = @ + 1]
  PROVE  /\ stages' \in Seq(Stages) /\ Len(stages') = Len(stages) /\ DOMAIN stages' = DOMAIN stages
         /\ stages'[k].slot = stages[k].slot /\ stages'[k].decoded = stages[k].decoded
         /\ stages'[k].spent = stages[k].spent /\ stages'[k].since = stages[k].since + 1
         /\ \A i \in DOMAIN stages : i # k => stages'[i] = stages[i]
<1>1. PICK b \in Slots, d \in BOOLEAN, p \in 0 .. Budget, q \in {-1} \cup 0 .. Budget :
        stages[k] = [slot |-> b, decoded |-> d, spent |-> p, since |-> q]
  BY StageTypes DEF Stages
<1> DEFINE s == [slot |-> b, decoded |-> d, spent |-> p, since |-> q + 1]
<1>2. s \in Stages
  BY <1>1, PolicyAssumption DEF Stages
<1>3. stages \in Seq(Stages) /\ k \in DOMAIN stages
  BY DEF TypeOK
<1>4. stages' = [stages EXCEPT ![k] = s]
  <2>1. [stages[k] EXCEPT !.since = @ + 1] = s
    BY <1>1
  <2> HIDE DEF s
  <2> QED
    BY <1>3, <2>1
<1> HIDE DEF s
<1>5. /\ stages' \in Seq(Stages) /\ Len(stages') = Len(stages) /\ DOMAIN stages' = DOMAIN stages
      /\ stages'[k] = s /\ \A i \in DOMAIN stages : i # k => stages'[i] = stages[i]
  BY <1>2, <1>4, EditStage
<1> QED
  BY <1>1, <1>5 DEF s

LEMMA TickInv == RecoveryInv /\ Tick => RecoveryInv'
<1> SUFFICES ASSUME RecoveryInv, Tick PROVE RecoveryInv'
  OBVIOUS
<1> DEFINE n == Len(stages) - 1
<1>0. /\ TypeOK /\ Running /\ image = "none" /\ run.index = Len(stages)
      /\ run.index \in 1 .. Len(stages) /\ run.index - 1 \in Nat /\ run.index <= Passes
      /\ HasStage /\ stages[run.index].slot = Slot /\ Slot \in Slots
      /\ ~stages[run.index].decoded /\ cap[Slot] \in Captures
      /\ \A i \in DOMAIN stages : i # run.index => stages[i].slot # Slot
      /\ run.pc = "read" /\ InTime /\ cap[Slot].state = "started"
      /\ stages' = [stages EXCEPT ![run.index].since = @ + 1]
      /\ drive' = [drive EXCEPT ![run.index] = @ + 1]
      /\ UNCHANGED <<evidence, result, image, run, faults>>
  BY OpenStage DEF Tick, At
<1>1. PICK k \in 1 .. Len(stages) : k = run.index
  BY <1>0
<1>2. /\ stages[k].since \in 0 .. Budget - 1 /\ stages[k].spent \in Nat
      /\ stages[k].spent + stages[k].since < Budget
  <2>1. stages[k].since # -1 /\ stages[k].spent + stages[k].since < Budget
    BY <1>0, <1>1 DEF RecoveryInv, ClocksKept, InTime, Stage
  <2>2. stages[k].spent \in 0 .. Budget /\ stages[k].since \in {-1} \cup 0 .. Budget
    BY <1>0, StageTypes DEF Stages
  <2> QED
    BY <2>1, <2>2, PolicyAssumption
<1>3. /\ stages' \in Seq(Stages) /\ Len(stages') = Len(stages) /\ DOMAIN stages' = DOMAIN stages
      /\ stages'[k].slot = stages[k].slot /\ stages'[k].decoded = stages[k].decoded
      /\ stages'[k].spent = stages[k].spent /\ stages'[k].since = stages[k].since + 1
      /\ \A i \in DOMAIN stages : i # k => stages'[i] = stages[i]
  BY <1>0, <1>1, <1>2, ClockGoesOn
<1>4. /\ drive \in [1 .. Passes -> Nat] /\ k \in 1 .. Passes
      /\ drive' \in [1 .. Passes -> Nat] /\ drive'[k] = drive[k] + 1
      /\ \A i \in 1 .. Passes : i # k => drive'[i] = drive[i]
  BY <1>0, <1>1 DEF TypeOK
<1>5. TypeOK'
  BY <1>0, <1>3, <1>4 DEF TypeOK, evidence
<1>6. Kept(n)
  BY <1>0, <1>1, <1>3, StageTypes DEF Kept, SameDecodes, SealedAt, Exhausted, evidence
<1>7. Position'
  BY <1>0, <1>1, <1>3, StageTypes DEF RecoveryInv, Position, Running, HasStage, Stage, Slot, evidence
<1>8. SlotsApart'
  BY <1>0, <1>1, <1>3, StageTypes DEF RecoveryInv, SlotsApart, evidence
<1>9. ClocksKept'
  BY <1>0, <1>1, <1>2, <1>3 DEF RecoveryInv, ClocksKept, Stage
<1>10. TimeCharged'
  <2> SUFFICES ASSUME NEW i \in 1 .. Passes
               PROVE  /\ drive'[i] <= Budget /\ (i > Len(stages) => drive'[i] = 0)
                      /\ i <= Len(stages) =>
                           drive'[i] <= stages'[i].spent + (IF stages'[i].since = -1 THEN 0 ELSE stages'[i].since)
    BY <1>3 DEF TimeCharged
  <2>1. /\ drive[i] <= Budget /\ (i > Len(stages) => drive[i] = 0) /\ drive[i] \in Nat
        /\ i <= Len(stages) =>
             drive[i] <= stages[i].spent + (IF stages[i].since = -1 THEN 0 ELSE stages[i].since)
    BY <1>4 DEF RecoveryInv, TimeCharged
  <2>2. CASE i = k
    <3>1. /\ drive[k] <= stages[k].spent + stages[k].since /\ drive'[k] = drive[k] + 1 /\ drive[k] \in Nat
          /\ k \in Nat /\ k <= Len(stages)
      BY <1>0, <1>2, <1>4, <2>1, <2>2, StageTypes
    <3>2. stages[k].since \in Nat /\ stages[k].spent \in Nat /\ Budget \in Nat
      BY <1>2, PolicyAssumption
    <3>3. drive'[k] <= stages[k].spent + stages[k].since + 1 /\ drive'[k] <= Budget
      BY <1>2, <3>1, <3>2
    <3>4. stages'[k].since # -1 /\ drive'[k] <= stages'[k].spent + stages'[k].since
      BY <1>3, <3>2, <3>3
    <3> QED
      BY <1>0, <2>2, <3>1, <3>3, <3>4, StageTypes
  <2>3. CASE i # k
    BY <1>3, <1>4, <2>1, <2>3, StageTypes, SMTT(30)
  <2> QED
    BY <2>2, <2>3
<1>11. /\ n \in Nat /\ n <= Len(stages) /\ n + 1 >= Len(stages')
       /\ run'.index - 1 \in 0 .. n /\ run'.pc # "publish" /\ image' = "none"
       /\ \A i \in 1 .. n : i < Len(stages)
  BY <1>0, <1>3 DEF Running
<1> QED
  BY <1>0, <1>5, <1>6, <1>7, <1>8, <1>9, <1>10, <1>11, EditInv

LEMMA DowntimeInv == RecoveryInv /\ Downtime => RecoveryInv'
<1> SUFFICES ASSUME RecoveryInv, Downtime PROVE RecoveryInv'
  OBVIOUS
<1> DEFINE n == Len(stages) - 1
<1>0. /\ TypeOK /\ run.pc = "off" /\ ~Running /\ UNCHANGED <<evidence, result, image, run, faults, drive>>
      /\ Len(stages) \in Nat /\ DOMAIN stages = 1 .. Len(stages)
  BY StageTypes DEF RecoveryInv, Downtime, At, Running
<1>1. PICK k \in 1 .. Len(stages) :
        stages[k].since \in 0 .. Budget - 1 /\ stages' = [stages EXCEPT ![k].since = @ + 1]
  BY <1>0 DEF Downtime
<1>2. image = "none" /\ stages[k].spent \in Nat /\ stages[k].since \in Nat
  BY <1>0, <1>1, StageTypes, PolicyAssumption DEF RecoveryInv, ClocksKept, Stages
<1>3. /\ stages' \in Seq(Stages) /\ Len(stages') = Len(stages) /\ DOMAIN stages' = DOMAIN stages
      /\ stages'[k].slot = stages[k].slot /\ stages'[k].decoded = stages[k].decoded
      /\ stages'[k].spent = stages[k].spent /\ stages'[k].since = stages[k].since + 1
      /\ \A i \in DOMAIN stages : i # k => stages'[i] = stages[i]
  BY <1>0, <1>1, ClockGoesOn
<1>5. TypeOK'
  BY <1>0, <1>3 DEF TypeOK, evidence
<1>6. Kept(n)
  <2>1. \A i \in 1 .. n : i \in DOMAIN stages
    BY <1>0
  <2>2. \A i \in DOMAIN stages : /\ stages'[i].slot = stages[i].slot /\ stages'[i].decoded = stages[i].decoded
                                 /\ stages'[i].spent = stages[i].spent
    BY <1>3
  <2> QED
    BY <1>0, <2>1, <2>2 DEF Kept, SameDecodes, SealedAt, Exhausted, evidence
<1>7. Position' /\ ~Running'
  BY <1>0 DEF Position, Running
<1>8. SlotsApart'
  <2>1. \A i \in DOMAIN stages : stages'[i].slot = stages[i].slot /\ stages'[i].decoded = stages[i].decoded
    BY <1>3
  <2> QED
    BY <1>0, <1>3, <2>1 DEF RecoveryInv, SlotsApart, evidence
<1>9. ClocksKept'
  BY <1>0, <1>2 DEF ClocksKept
<1>10. TimeCharged'
  <2> SUFFICES ASSUME NEW i \in 1 .. Passes
               PROVE  /\ drive[i] <= Budget /\ (i > Len(stages) => drive[i] = 0)
                      /\ i <= Len(stages) =>
                           drive[i] <= stages'[i].spent + (IF stages'[i].since = -1 THEN 0 ELSE stages'[i].since)
    BY <1>0, <1>3 DEF TimeCharged
  <2>1. /\ drive[i] <= Budget /\ (i > Len(stages) => drive[i] = 0) /\ drive[i] \in Nat
        /\ i <= Len(stages) =>
             drive[i] <= stages[i].spent + (IF stages[i].since = -1 THEN 0 ELSE stages[i].since)
    BY <1>0 DEF RecoveryInv, TimeCharged, TypeOK
  <2>2. CASE i = k
    BY <1>2, <1>3, <2>1, <2>2
  <2>3. CASE i # k
    BY <1>0, <1>3, <2>1, <2>3
  <2> QED
    BY <2>2, <2>3
<1>11. /\ n \in Nat /\ n <= Len(stages) /\ n + 1 >= Len(stages')
       /\ run'.pc # "publish" /\ image' = "none" /\ \A i \in 1 .. n : i < Len(stages)
  BY <1>0, <1>1, <1>2, <1>3
<1> QED
  BY <1>2, <1>5, <1>6, <1>7, <1>8, <1>9, <1>10, <1>11, EditInv

LEMMA RecordDecodeInv == RecoveryInv /\ RecordDecode => RecoveryInv'
<1> SUFFICES ASSUME RecoveryInv, RecordDecode PROVE RecoveryInv'
  OBVIOUS
<1> DEFINE n == Len(stages) - 1
<1>0. /\ TypeOK /\ Running /\ image = "none" /\ run.index = Len(stages)
      /\ run.index \in 1 .. Len(stages) /\ run.index - 1 \in Nat /\ run.index <= Passes
      /\ HasStage /\ stages[run.index].slot = Slot /\ Slot \in Slots
      /\ ~stages[run.index].decoded /\ cap[Slot] \in Captures
      /\ \A i \in DOMAIN stages : i # run.index => stages[i].slot # Slot
      /\ run.pc = "decode" /\ stages' = [stages EXCEPT ![run.index].decoded = TRUE] /\ To("judge")
      /\ UNCHANGED <<evidence, result, image, faults, drive>>
  BY OpenStage DEF RecordDecode, At
<1>1. PICK k \in 1 .. Len(stages) : k = run.index
  BY <1>0
<1>2. /\ stages' \in Seq(Stages) /\ Len(stages') = Len(stages) /\ DOMAIN stages' = DOMAIN stages
      /\ stages'[k].slot = stages[k].slot /\ stages'[k].decoded = TRUE
      /\ stages'[k].spent = stages[k].spent /\ stages'[k].since = stages[k].since
      /\ \A i \in DOMAIN stages : i # k => stages'[i] = stages[i]
  <2>1. PICK b \in Slots, p \in 0 .. Budget, q \in {-1} \cup 0 .. Budget :
          stages[k] = [slot |-> b, decoded |-> FALSE, spent |-> p, since |-> q]
    <3>1. PICK b \in Slots, d \in BOOLEAN, p \in 0 .. Budget, q \in {-1} \cup 0 .. Budget :
            stages[k] = [slot |-> b, decoded |-> d, spent |-> p, since |-> q]
      BY <1>0, StageTypes DEF Stages
    <3>2. d = FALSE
      BY <1>0, <1>1, <3>1
    <3> QED
      BY <3>1, <3>2
  <2> DEFINE s == [slot |-> b, decoded |-> TRUE, spent |-> p, since |-> q]
  <2>2. s \in Stages
    BY DEF Stages
  <2>3. [stages[k] EXCEPT !.decoded = TRUE] = s
    <3>0. \A x, y : [[slot |-> b, decoded |-> x, spent |-> p, since |-> q] EXCEPT !.decoded = y]
                     = [slot |-> b, decoded |-> y, spent |-> p, since |-> q]
      OBVIOUS
    <3>1. [[slot |-> b, decoded |-> FALSE, spent |-> p, since |-> q] EXCEPT !.decoded = TRUE] = s
      BY <3>0, Zenon
    <3> HIDE DEF s
    <3> QED
      BY <2>1, <3>1, Zenon
  <2> HIDE DEF s
  <2>4. stages' = [stages EXCEPT ![k] = s]
    BY <1>0, <1>1, <2>3 DEF TypeOK
  <2>5. /\ stages' \in Seq(Stages) /\ Len(stages') = Len(stages) /\ DOMAIN stages' = DOMAIN stages
        /\ stages'[k] = s /\ \A i \in DOMAIN stages : i # k => stages'[i] = stages[i]
    BY <1>0, <2>2, <2>4, EditStage
  <2> QED
    BY <2>1, <2>5 DEF s
<1>3. /\ run' \in RunRecords /\ run'.pc = "judge"
      /\ run'.index = run.index /\ run'.dull = run.dull /\ run'.left = run.left
  BY <1>0, Moved DEF Steps
<1>4. cap[Slot].state = "done"
  BY <1>0 DEF RecoveryInv, Position
<1>5. TypeOK'
  BY <1>0, <1>2, <1>3 DEF TypeOK, evidence
<1>6. Kept(n)
  <2>1. \A i \in 1 .. n : stages'[i] = stages[i] /\ cap'[stages[i].slot] = cap[stages[i].slot]
    BY <1>0, <1>1, <1>2, StageTypes DEF evidence
  <2> QED
    BY <2>1 DEF Kept, SameDecodes, SealedAt, Exhausted
<1>7. Position'
  BY <1>0, <1>1, <1>2, <1>3, StageTypes DEF Position, Running, HasStage, Stage, Slot
<1>8. SlotsApart'
  <2>1. \A i \in DOMAIN stages : stages'[i].slot = stages[i].slot
    BY <1>2
  <2>2. \A i \in DOMAIN stages : i # k => stages'[i].decoded = stages[i].decoded
    BY <1>2
  <2> QED
    BY <1>0, <1>1, <1>2, <1>4, <2>1, <2>2 DEF RecoveryInv, SlotsApart, evidence
<1>9. ClocksKept' /\ TimeCharged'
  <2>1. \A i \in DOMAIN stages : stages'[i].since = stages[i].since /\ stages'[i].spent = stages[i].spent
    BY <1>2
  <2>2. \A i \in 1 .. Passes : i <= Len(stages) => i \in DOMAIN stages
    BY <1>0, StageTypes
  <2> QED
    BY <1>0, <1>2, <1>3, <2>1, <2>2 DEF RecoveryInv, ClocksKept, TimeCharged
<1>11. /\ n \in Nat /\ n <= Len(stages) /\ n + 1 >= Len(stages')
       /\ run'.index - 1 \in 0 .. n /\ run'.pc # "publish" /\ image' = "none"
       /\ \A i \in 1 .. n : i < Len(stages)
  BY <1>0, <1>2, <1>3
<1> QED
  BY <1>0, <1>3, <1>5, <1>6, <1>7, <1>8, <1>9, <1>11, EditInv

LEMMA StartInv == RecoveryInv /\ Start => RecoveryInv'
<1> SUFFICES ASSUME RecoveryInv, Start PROVE RecoveryInv'
  OBVIOUS
<1> DEFINE n == Len(stages)
<1>0. /\ TypeOK /\ run.pc = "off" /\ UNCHANGED <<evidence, result, image, faults, drive>>
      /\ n \in Nat /\ DOMAIN stages = 1 .. n
  BY StageTypes DEF RecoveryInv, Start, At
<1>1. CASE image # "none"
  <2>1. To("publish") /\ UNCHANGED stages
    BY <1>1 DEF Start
  <2>2. run' \in RunRecords /\ run'.pc = "publish"
    BY <1>0, <2>1, Moved DEF Steps
  <2>3. TypeOK'
    BY <1>0, <2>1, <2>2 DEF TypeOK, evidence
  <2>4. OneFloppy /\ GaveUp /\ \A i \in DOMAIN stages : stages[i].since = -1
    BY <1>1 DEF RecoveryInv, Justified, ClocksKept
  <2> QED
    BY <1>0, <2>1, <2>2, <2>3, <2>4, PublishInv DEF evidence
<1>2. CASE image = "none"
  <2>1. run' = [Off EXCEPT !.pc = "pass"] /\ stages' = Settle
    BY <1>2 DEF Start
  <2>2. /\ run' \in RunRecords /\ run'.pc = "pass" /\ run'.index = 1 /\ run'.dull = 0
        /\ run'.left = Cardinality(Regions)
    <3>1. Off \in RunRecords
      BY OffType
    <3> QED
      BY <2>1, <3>1 DEF Off, RunRecords, Steps
  <2>3. /\ DOMAIN stages' = 1 .. n /\ stages' \in Seq(Stages) /\ Len(stages') = n
        /\ \A i \in 1 .. n : stages'[i] = Charge(stages[i])
    <3>1. DOMAIN stages' = 1 .. n /\ \A i \in 1 .. n : stages'[i] = Charge(stages[i])
      BY <1>0, <2>1 DEF Settle
    <3>2. \A i \in 1 .. n : Charge(stages[i]) \in Stages
      BY <1>0, StageTypes, Charged
    <3>3. stages' = [i \in 1 .. n |-> Charge(stages[i])]
      BY <1>0, <2>1 DEF Settle
    <3> QED
      BY <1>0, <3>1, <3>2, <3>3
  <2>4. \A i \in 1 .. n :
          /\ stages'[i].since = -1 /\ stages'[i].slot = stages[i].slot /\ stages'[i].decoded = stages[i].decoded
          /\ stages[i].spent = Budget => stages'[i].spent = Budget
          /\ \A d \in Nat : d <= Budget /\ d <= stages[i].spent + (IF stages[i].since = -1 THEN 0 ELSE stages[i].since)
                             => d <= stages'[i].spent
    BY <1>0, <2>3, StageTypes, Charged
  <2>5. TypeOK'
    BY <1>0, <2>2, <2>3 DEF TypeOK, evidence
  <2>6. Position'
    BY <1>0, <1>2, <2>2, <2>3 DEF Position, Running
  <2>7. SlotsApart'
    BY <1>0, <2>3, <2>4 DEF RecoveryInv, SlotsApart, evidence
  <2>8. ClocksKept'
    BY <1>0, <2>2, <2>3, <2>4 DEF ClocksKept
  <2>9. TimeCharged'
    <3> SUFFICES ASSUME NEW i \in 1 .. Passes
                 PROVE  /\ drive[i] <= Budget /\ (i > n => drive[i] = 0)
                        /\ i <= n =>
                             drive[i] <= stages'[i].spent + (IF stages'[i].since = -1 THEN 0 ELSE stages'[i].since)
      BY <1>0, <2>3 DEF TimeCharged
    <3>1. /\ drive[i] <= Budget /\ (i > n => drive[i] = 0) /\ drive[i] \in Nat
          /\ i <= n => drive[i] <= stages[i].spent + (IF stages[i].since = -1 THEN 0 ELSE stages[i].since)
      BY <1>0 DEF RecoveryInv, TimeCharged, TypeOK
    <3>2. i <= n => drive[i] <= stages'[i].spent /\ stages'[i].since = -1 /\ stages'[i].spent \in Nat
      <4>1. i <= n => i \in 1 .. n
        BY <1>0
      <4>2. ASSUME i \in 1 .. n PROVE stages'[i] \in Stages
        BY <2>3, <4>2
      <4> QED
        BY <2>4, <3>1, <4>1, <4>2, PolicyAssumption DEF Stages
    <3> QED
      BY <3>1, <3>2
  <2>10. Kept(n)
    BY <1>0, <2>4 DEF Kept, SameDecodes, Exhausted, SealedAt, evidence
  <2>11. PassedOn'
    <3> SUFFICES ASSUME NEW i \in 1 .. n, i < n PROVE Passed(i)'
      BY <1>0, <2>2, <2>3 DEF PassedOn
    <3>1. Passed(i)
      BY <1>0 DEF RecoveryInv, PassedOn
    <3> QED
      BY <1>0, <2>10, <3>1, PassedKept
  <2>12. Counted'
    <3>1. Decoded(0)' = {} /\ Decoded(0) = {}
      BY DEF Decoded
    <3>2. Streak(0)' = {} /\ Sources(0)' = {}
      BY <3>1 DEF Streak, Sources
    <3>3. Unfinished({})' = Regions
      BY DEF Unfinished
    <3>4. Left(0)' = Cardinality(Regions)
      BY <3>2, <3>3 DEF Left
    <3>5. run'.index - 1 = 0
      BY <2>2
    <3>6. /\ Left(run.index - 1)' = Cardinality(Regions) /\ Streak(run.index - 1)' = {}
          /\ Decoded(run.index - 1)' = {}
      BY <3>1, <3>2, <3>4, <3>5
    <3>7. 1 \in 1 .. run'.index
      BY <2>2
    <3> QED
      BY <2>2, <3>6, <3>7, FS_EmptySet DEF Counted
  <2>13. Justified'
    BY <1>0, <1>2, <2>2 DEF Justified
  <2> QED
    BY <2>5, <2>6, <2>7, <2>8, <2>9, <2>11, <2>12, <2>13 DEF RecoveryInv
<1> QED
  BY <1>1, <1>2

-----------------------------------------------------------------------------
(* The theorems. *)

LEMMA StepInv == RecoveryInv /\ [Next]_vars => RecoveryInv'
<1> SUFFICES ASSUME RecoveryInv, [Next]_vars PROVE RecoveryInv'
  OBVIOUS
<1>1. CASE Start
  BY <1>1, StartInv
<1>2. CASE Step
  <2>1. CASE Replay \/ Resume \/ OutOfTime \/ NewStage
    BY <2>1, ReplayInv, ResumeInv, OutOfTimeInv, NewStageInv
  <2>2. CASE Capture \/ Read \/ Publish \/ ClockStops \/ Deadline
    BY <2>2, CaptureInv, ReadInv, PublishStepInv, ClockStopsInv, DeadlineInv
  <2>3. CASE Decode \/ Exception \/ RecordDecode \/ Judge \/ PassesOver \/ Disagree
    BY <2>3, StandInv, EndInv, RecordDecodeInv, JudgeInv, PassesOverInv
  <2>4. CASE ReserveImage \/ CommitImage \/ ImageRefused \/ SaveResult
    BY <2>4, StandInv, EndInv
  <2> QED
    BY <1>2, <2>1, <2>2, <2>3, <2>4 DEF Step
<1>3. CASE Tick \/ Downtime
  BY <1>3, TickInv, DowntimeInv
<1>4. CASE Fault
  BY <1>4, CaptureInv, ClockStopsInv, EndInv DEF Fault
<1>5. CASE UNCHANGED vars
  <2>1. UNCHANGED <<cap, dec, litter, stages, result, image, run, faults, drive>>
    BY <1>5 DEF vars, evidence
  <2>2. TypeOK'
    BY <2>1 DEF RecoveryInv, TypeOK
  <2> QED
    BY <2>1, <2>2, StayInv
<1> QED
  BY <1>1, <1>2, <1>3, <1>4, <1>5 DEF Next

\* Whatever stops, fails or crashes, the job file and the captures stay such that
\* the next run of flux_recovery.rs continues as the one that was interrupted
\* would have.
THEOREM RecoveryInvariant == Spec => []RecoveryInv
<1>1. Init => RecoveryInv
  BY InitInv
<1>2. RecoveryInv /\ [Next]_vars => RecoveryInv'
  BY StepInv
<1> QED
  BY <1>1, <1>2, PTL DEF Spec

\* Journal, captures, decodes and the run's counters keep their types.
THEOREM TypeCorrect == Spec => []TypeOK
<1>1. RecoveryInv => TypeOK
  BY DEF RecoveryInv
<1> QED
  BY <1>1, RecoveryInvariant, PTL

\* No number of stops, crashes and restarts gives a stage more drive time than
\* max_seconds (start_capture_clock, finish_capture_clock, capture_remaining_ms).
THEOREM BudgetIsHeld == Spec => []BudgetHeld
<1>1. RecoveryInv => BudgetHeld
  BY DEF RecoveryInv, TimeCharged, BudgetHeld
<1> QED
  BY <1>1, RecoveryInvariant, PTL

\* Two captures of an image are of one floppy, unless these have the control
\* region that aggregate compared in common.
THEOREM ImageIsOfOneFloppy == Spec => []ImageOfOneFloppy
<1>1. RecoveryInv => ImageOfOneFloppy
  BY DEF RecoveryInv, Justified, OneFloppy, ImageOfOneFloppy
<1> QED
  BY <1>1, RecoveryInvariant, PTL

\* An image is published for a reason that the stages themselves show: nothing is
\* left, no pass is left, or the last no_improvement_limit decodes brought nothing.
THEOREM GivesUpOnlyForCause == Spec => []GivesUpForCause
<1>1. RecoveryInv => GivesUpForCause
  BY DEF RecoveryInv, Justified, GaveUp, GivesUpForCause, Left, DullAt
<1> QED
  BY <1>1, RecoveryInvariant, PTL

-----------------------------------------------------------------------------
(* What was sealed is kept. *)

LEMMA SealsKept ==
  ASSUME RecoveryInv, [Next]_vars, NEW a \in Slots, SealedAt(a)
  PROVE  cap'[a].state \in Sealed /\ cap'[a].floppy = cap[a].floppy /\ cap'[a].good = cap[a].good
<1> DEFINE Fine == cap'[a].state \in Sealed /\ cap'[a].floppy = cap[a].floppy /\ cap'[a].good = cap[a].good
<1>0. TypeOK
  BY DEF RecoveryInv
<1>1. ASSUME UNCHANGED cap PROVE Fine
  BY <1>1 DEF SealedAt
<1>2. ASSUME NEW b \in Slots, NEW s \in {"started", "torn", "failed"}, CapState(b, s), ~SealedAt(b) PROVE Fine
  BY <1>0, <1>2, EditCapture DEF SealedAt
<1>3. ASSUME NEW b \in Slots, PublishCapture(b) PROVE Fine
  <2>1. PICK s \in {"payload", "done"} : CapState(b, s)
    BY <1>3 DEF PublishCapture
  <2>2. /\ cap'[b].state = s /\ cap'[b].good = cap[b].good /\ cap'[b].floppy = cap[b].floppy
        /\ \A c \in Slots : c # b => cap'[c] = cap[c]
    BY <1>0, <2>1, EditCapture DEF Sealed
  <2> QED
    BY <2>2 DEF SealedAt, Sealed
<1>4. ASSUME NEW b \in Slots, NEW f \in Floppies, NEW good \in SUBSET Regions, SealCapture(b, f, good) PROVE Fine
  <2>1. a # b
    BY <1>4 DEF SealCapture, SealedAt, Sealed
  <2> QED
    BY <1>0, <1>4, <2>1 DEF SealCapture, SealedAt, TypeOK
<1> HIDE DEF Fine
<1>5. CASE Capture \/ CaptureTorn
  <2>1. PICK b \in Slots : ReserveCapture(b) \/ TornCapture(b)
    BY <1>5 DEF Capture, CaptureTorn
  <2>2. PICK s \in {"started", "torn", "failed"} : CapState(b, s) /\ ~SealedAt(b)
    BY <2>1 DEF ReserveCapture, TornCapture, SealedAt, Sealed
  <2>3. Fine
    BY <1>2, <2>2
  <2> QED
    BY <2>3 DEF Fine
<1>6. CASE Resume \/ Publish \/ Read \/ HostFails \/ Deadline
  <2>1. run.pc = "read" \/ (Pending /\ Saved(Slot))
    BY <1>6 DEF Resume, Publish, Read, HostDone, HostFails, Deadline, At
  <2>2. PICK b \in Slots : b = Slot
    BY <2>1, OpenStage
  <2>3. Fine
    <3>1. CASE Resume \/ Publish
      BY <1>1, <1>3, <2>2, <3>1 DEF Resume, Finishes, Publish, evidence
    <3>2. CASE Read
      BY <1>4, <2>2, <3>2 DEF Read, HostDone
    <3>3. CASE HostFails \/ Deadline
      <4>1. CapState(b, "failed") /\ ~SealedAt(b)
        BY <2>2, <3>3 DEF HostFails, Deadline, FailCapture, SealedAt, Sealed
      <4> QED
        BY <1>2, <4>1
    <3> QED
      BY <1>6, <3>1, <3>2, <3>3
  <2> QED
    BY <2>3 DEF Fine
<1>7. CASE Start \/ Replay \/ OutOfTime \/ NewStage \/ ClockStops \/ Tick \/ Downtime \/ UNCHANGED vars
  <2>1. UNCHANGED cap
    BY <1>7 DEF Start, Replay, OutOfTime, NewStage, ClockStops, Tick, Downtime, vars, evidence
  <2> QED
    BY <1>1, <2>1 DEF Fine
<1>8. CASE Decode \/ Exception \/ RecordDecode \/ Judge \/ PassesOver \/ Disagree \/ DecodeFails \/ DecodeTorn
  <2>1. UNCHANGED cap
    BY <1>8 DEF Decode, Exception, RecordDecode, Judge, PassesOver, Disagree, DecodeFails, DecodeTorn,
                ReserveDecode, SealDecode, PublishDecode, FailDecode, TornDecode, DecState, evidence
  <2> QED
    BY <1>1, <2>1 DEF Fine
<1>9. CASE ReserveImage \/ CommitImage \/ ImageRefused \/ SaveResult \/ ImageTorn \/ Crash
  <2>1. UNCHANGED cap
    BY <1>9 DEF ReserveImage, CommitImage, ImageRefused, SaveResult, ImageTorn, Crash, evidence
  <2> QED
    BY <1>1, <2>1 DEF Fine
<1> QED
  BY <1>5, <1>6, <1>7, <1>8, <1>9 DEF Next, Step, Fault

LEMMA SealsStay ==
  ASSUME RecoveryInv, [Next]_vars, NEW i \in DOMAIN stages, SealedAt(stages[i].slot)
  PROVE  stages'[i].slot = stages[i].slot
<1>0. TypeOK /\ Len(stages) \in Nat /\ DOMAIN stages = 1 .. Len(stages) /\ stages \in Seq(Stages)
  BY StageTypes DEF RecoveryInv, TypeOK
<1>1. PICK s \in Stages : s = stages[i] /\ Charge(s).slot = s.slot
  BY <1>0, Charged
<1>2. CASE Start
  BY <1>0, <1>1, <1>2 DEF Start, Settle
<1>3. CASE NewStage
  <2>1. PICK t : stages' = Append(stages, t)
    BY <1>3 DEF NewStage
  <2> QED
    BY <1>0, <2>1
<1>4. CASE Capture \/ CaptureTorn
  <2>1. PICK a \in Slots : Opens(a)
    BY <1>4 DEF Capture, CaptureTorn
  <2>2. i # run.index
    BY <2>1 DEF Opens, Saved, Slot, Stage
  <2> QED
    BY <1>0, <2>1, <2>2 DEF Opens
<1>5. CASE ClockStops \/ HostFails \/ Deadline
  <2>1. stages' = [stages EXCEPT ![run.index] = Charge(@)]
    BY <1>5 DEF ClockStops, HostFails, Deadline
  <2> QED
    BY <1>0, <1>1, <2>1
<1>6. CASE Tick \/ Downtime \/ RecordDecode
  <2>1. CASE Tick
    BY <1>0, <2>1 DEF Tick, Stages
  <2>2. CASE Downtime
    BY <1>0, <2>2 DEF Downtime, Stages
  <2>3. CASE RecordDecode
    BY <1>0, <2>3 DEF RecordDecode, Stages
  <2> QED
    BY <1>6, <2>1, <2>2, <2>3
<1>7. CASE Replay \/ Resume \/ OutOfTime \/ Read \/ Publish \/ Decode \/ Exception \/ Judge \/ PassesOver \/ Disagree
  BY <1>7 DEF Replay, Resume, OutOfTime, Read, HostDone, Publish, Decode, Exception, Judge, PassesOver, Disagree, durable
<1>8. CASE ReserveImage \/ CommitImage \/ ImageRefused \/ SaveResult \/ UNCHANGED vars
  BY <1>8 DEF ReserveImage, CommitImage, ImageRefused, SaveResult, vars, durable
<1>9. CASE DecodeFails \/ DecodeTorn \/ ImageTorn \/ Crash
  BY <1>9 DEF DecodeFails, DecodeTorn, ImageTorn, Crash, durable
<1> QED
  BY <1>2, <1>3, <1>4, <1>5, <1>6, <1>7, <1>8, <1>9 DEF Next, Step, Fault

\* The capture of a stage, once sealed, is the capture of that stage for good: no
\* step of a run or of a later one reads it again or replaces it.
THEOREM SealedIsKept == Spec => SealedKept
<1>1. RecoveryInv /\ [Next]_vars =>
        [\A i \in DOMAIN stages :
           LET a == stages[i].slot IN
           SealedAt(a) => stages'[i].slot = a /\ cap'[a].state \in Sealed
                          /\ cap'[a].floppy = cap[a].floppy /\ cap'[a].good = cap[a].good]_vars
  <2> SUFFICES ASSUME RecoveryInv, [Next]_vars, NEW i \in DOMAIN stages, SealedAt(stages[i].slot)
               PROVE  /\ stages'[i].slot = stages[i].slot /\ cap'[stages[i].slot].state \in Sealed
                      /\ cap'[stages[i].slot].floppy = cap[stages[i].slot].floppy
                      /\ cap'[stages[i].slot].good = cap[stages[i].slot].good
    OBVIOUS
  <2>1. PICK a \in Slots : a = stages[i].slot
    BY StageTypes DEF RecoveryInv
  <2> QED
    BY <2>1, SealsKept, SealsStay
<1> QED
  BY <1>1, RecoveryInvariant, PTL DEF Spec, SealedKept
=============================================================================
