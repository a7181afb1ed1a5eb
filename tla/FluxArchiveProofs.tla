--------------------------- MODULE FluxArchiveProofs ---------------------------
(***************************************************************************)
(* Proofs about the storage of captures, for every set of captures,        *)
(* operators and decoders and any number of damaged files.  The inductive  *)
(* invariant adds to the type invariant that the locks exclude each other, *)
(* that a packer past the sidecar has one, that a finished task left its   *)
(* capture packed, and that what a call of enqueue saw still holds.        *)
(***************************************************************************)
EXTENDS FluxArchive, TLAPS

\* The exclusive lock of a capture is held alone.
LocksExclude ==
  /\ \A p, q \in Packers : step[p] \in Working /\ step[q] \in Working /\ p # q
       => target[p] # target[q]
  /\ \A p \in Packers, r \in Readers : step[p] \in Working /\ reading[r] # "idle"
       => target[p] # source[r]

\* What a packer has published stays.
Progress ==
  /\ \A p \in Packers : step[p] \in {"bound", "paired"} => meta[target[p]] # "none"
  /\ step[Worker] = "done" => raw[target[Worker]] = "none" /\ meta[target[Worker]] # "none"

\* What enqueue has seen still holds: a capture it verifies is packed only, and
\* before it wakes the worker, the capture has a task or is packed.
CallHolds ==
  /\ calling = "verify" => PackedOnly(given)
  /\ calling = "wake" => given \in tasks \/ PackedOnly(given)

ArchiveInv == /\ ArchiveTypeOK /\ LocksExclude /\ Progress /\ CallHolds
              /\ EvidenceSurvives /\ ReadersUndisturbed /\ NothingForgotten

\* Nothing is published, locked or entrusted at the start.
LEMMA InitInv == Init => ArchiveInv
<1> SUFFICES ASSUME Init PROVE ArchiveInv
  OBVIOUS
<1> USE ArchiveAssumption DEF Init, Packers, File, Working
<1>1. ArchiveTypeOK
  <2>1. /\ finish \in BOOLEAN /\ token \in BOOLEAN /\ open \in BOOLEAN
        /\ draining \in BOOLEAN /\ errors \in BOOLEAN /\ stop \in BOOLEAN
    OBVIOUS
  <2>2. /\ step \in [Packers -> {"idle"}] /\ target \in [Packers -> {Nobody}]
        /\ retire \in [Packers -> BOOLEAN]
    OBVIOUS
  <2>3. damage \in 0..MaxDamage
    OBVIOUS
  <2> QED
    BY <2>1, <2>2, <2>3 DEF ArchiveTypeOK
<1>2. LocksExclude
  BY DEF LocksExclude
<1>3. Progress
  BY DEF Progress
<1>4. EvidenceSurvives
  BY DEF EvidenceSurvives, Intact
<1>5. ReadersUndisturbed
  BY DEF ReadersUndisturbed
<1>6. NothingForgotten /\ CallHolds
  BY DEF NothingForgotten, CallHolds
<1> QED
  BY <1>1, <1>2, <1>3, <1>4, <1>5, <1>6 DEF ArchiveInv

LEMMA Packing ==
  ASSUME ArchiveInv, NEW p \in Packers, 
         \/ LockAndCheck(p)
         \/ Begin(p)
         \/ Build(p)
         \/ Bind(p)
         \/ CheckPair(p)
         \/ Retire(p)
         \/ PackFails(p)
  PROVE ArchiveInv'
<1> USE ArchiveAssumption
    DEF ArchiveInv, ArchiveTypeOK, LocksExclude, Progress, EvidenceSurvives,
        ReadersUndisturbed, NothingForgotten, PackedOnly, Intact, PairGood, Verifies,
        Exclusive, Shared, Packers, File, Working, Without, Abandon, Forget,
        Returns, CallHolds, Ask, files, packing, readers, call, queue, history
<1>1. CASE LockAndCheck(p)
  BY <1>1 DEF LockAndCheck
<1>2. CASE Begin(p)
  BY <1>2 DEF Begin
<1>3. CASE Build(p)
  BY <1>3 DEF Build
<1>4. CASE Bind(p)
  BY <1>4 DEF Bind
<1>5. CASE CheckPair(p)
  BY <1>5 DEF CheckPair
<1>6. CASE Retire(p)
  <2>1. ArchiveTypeOK'
    BY <1>6 DEF Retire
  <2>2. LocksExclude'
    BY <1>6 DEF Retire
  <2>3. Progress'
    BY <1>6 DEF Retire
  <2>4. EvidenceSurvives'
    BY <1>6 DEF Retire
  <2>5. ReadersUndisturbed'
    <3> SUFFICES ASSUME NEW r \in Readers,
                        reading[r] # "idle"
                 PROVE  /\ reading[r] = "raw" => raw'[source[r]] # "none"
                        /\ [of |-> r, capture |-> source[r]] \in scratch
                             => [of |-> r, capture |-> source[r]] \in scratch'
      BY <1>6 DEF Retire
    <3>1. source[r] # target[p] /\ r # p
      BY <1>6 DEF Retire
    <3>2. raw'[source[r]] = raw[source[r]]
      BY <1>6, <3>1 DEF Retire
    <3>3. scratch' = {s \in scratch : s.of # p}
      BY <1>6 DEF Retire
    <3> QED
      BY <3>1, <3>2, <3>3
  <2>6. NothingForgotten' /\ CallHolds'
    BY <1>6 DEF Retire
  <2> QED
    BY <2>1, <2>2, <2>3, <2>4, <2>5, <2>6
<1>7. CASE PackFails(p)
  BY <1>7 DEF PackFails
<1> QED
  BY <1>1, <1>2, <1>3, <1>4, <1>5, <1>6, <1>7

LEMMA Reading ==
  ASSUME ArchiveInv, NEW r \in Readers, 
         \/ \E c \in Captures : Open(r, c)
         \/ Unpack(r)
         \/ Shut(r)
         \/ ReaderKilled(r)
  PROVE ArchiveInv'
<1> USE ArchiveAssumption
    DEF ArchiveInv, ArchiveTypeOK, LocksExclude, Progress, EvidenceSurvives,
        ReadersUndisturbed, NothingForgotten, PackedOnly, Intact, PairGood, Verifies,
        Exclusive, Shared, Packers, File, Working, Without, Abandon, Forget,
        Returns, CallHolds, Ask, files, packing, readers, call, queue, history
<1>1. CASE \E c \in Captures : Open(r, c)
  BY <1>1 DEF Open
<1>2. CASE Unpack(r)
  BY <1>2 DEF Unpack
<1>3. CASE Shut(r)
  BY <1>3 DEF Shut
<1>4. CASE ReaderKilled(r)
  BY <1>4 DEF ReaderKilled
<1> QED
  BY <1>1, <1>2, <1>3, <1>4

\* The steps of enqueue leave the files, the locks and the worker alone.
LEMMA Enqueuing ==
  ASSUME ArchiveInv,
         \/ \E c \in Captures : Enqueue(c)
         \/ EnqueueVerified
         \/ FindTask
         \/ WriteTask
         \/ Wake
         \/ EnqueueFails
  PROVE ArchiveInv'
<1> USE ArchiveAssumption
    DEF ArchiveInv, EnqueueKeeps, files, packing, readers, history
<1>1. /\ EnqueueKeeps /\ producer = "feeding"
      /\ tasks \subseteq tasks' /\ tasks' \subseteq Captures
      /\ entrusted' \subseteq Captures /\ token' \in BOOLEAN
      /\ calling' \in {"none", "verify", "find", "write", "wake"}
      /\ given' \in Captures \cup {Nobody}
      /\ calling' = "none" <=> given' = Nobody
  BY DEF ArchiveTypeOK, Enqueue, EnqueueVerified, FindTask, WriteTask, Wake, EnqueueFails, Returns
<1>2. ArchiveTypeOK'
  BY <1>1 DEF ArchiveTypeOK
<1>3. LocksExclude' /\ Progress' /\ EvidenceSurvives' /\ ReadersUndisturbed'
  BY <1>1 DEF LocksExclude, Progress, EvidenceSurvives, Intact, PairGood, ReadersUndisturbed
<1>4. CallHolds' /\ NothingForgotten'
  <2> USE DEF CallHolds, NothingForgotten, PackedOnly, ArchiveTypeOK, Returns
  <2>1. CASE \E c \in Captures : Enqueue(c)
    BY <2>1, <1>1 DEF Enqueue
  <2>2. CASE EnqueueVerified
    BY <2>2, <1>1 DEF EnqueueVerified
  <2>3. CASE FindTask
    BY <2>3, <1>1 DEF FindTask
  <2>4. CASE WriteTask
    BY <2>4, <1>1 DEF WriteTask
  <2>5. CASE Wake
    BY <2>5, <1>1 DEF Wake
  <2>6. CASE EnqueueFails
    BY <2>6, <1>1 DEF EnqueueFails
  <2> QED
    BY <2>1, <2>2, <2>3, <2>4, <2>5, <2>6
<1> QED
  BY <1>2, <1>3, <1>4

LEMMA Owner ==
  ASSUME ArchiveInv, 
         \/ Start
         \/ Finish
         \/ Close
         \/ Join
         \/ RequestStop
         \/ QueueExits
  PROVE ArchiveInv'
<1> USE ArchiveAssumption
    DEF ArchiveInv, ArchiveTypeOK, LocksExclude, Progress, EvidenceSurvives,
        ReadersUndisturbed, NothingForgotten, PackedOnly, Intact, PairGood, Verifies,
        Exclusive, Shared, Packers, File, Working, Without, Abandon, Forget,
        Returns, CallHolds, Ask, files, packing, readers, call, queue, history
<1>1. CASE Start
  <2>1. ArchiveTypeOK'
    <3>1. todo' \subseteq Captures /\ open' \in BOOLEAN
      BY <1>1 DEF Start
    <3>2. producer' = "feeding" /\ pc' = "cleanup" /\ step[Worker] = "idle"
      BY <1>1 DEF Start
    <3>3. UNCHANGED <<files, scratch, tasks, packing, readers, finish, token, draining,
                      listed, attempted, errors, stop, call, history>>
      BY <1>1 DEF Start
    <3> QED
      BY <3>1, <3>2, <3>3
  <2>2. LocksExclude'
    BY <1>1 DEF Start
  <2>3. Progress'
    BY <1>1 DEF Start
  <2>4. EvidenceSurvives'
    BY <1>1 DEF Start
  <2>5. ReadersUndisturbed'
    BY <1>1 DEF Start
  <2>6. NothingForgotten' /\ CallHolds'
    BY <1>1 DEF Start
  <2> QED
    BY <2>1, <2>2, <2>3, <2>4, <2>5, <2>6
<1>2. CASE Finish
  BY <1>2 DEF Finish
<1>3. CASE Close
  <2>1. ArchiveTypeOK'
    BY <1>3, ZenonT(60) DEF Close
  <2>2. LocksExclude'
    BY <1>3 DEF Close
  <2>3. Progress'
    BY <1>3 DEF Close
  <2>4. EvidenceSurvives'
    BY <1>3 DEF Close
  <2>5. ReadersUndisturbed'
    BY <1>3 DEF Close
  <2>6. NothingForgotten' /\ CallHolds'
    BY <1>3 DEF Close
  <2> QED
    BY <2>1, <2>2, <2>3, <2>4, <2>5, <2>6
<1>4. CASE Join
  BY <1>4 DEF Join
<1>5. CASE RequestStop
  BY <1>5 DEF RequestStop
<1>6. CASE QueueExits
  <2>1. ArchiveTypeOK'
    <3>1. /\ finish' \in BOOLEAN /\ token' \in BOOLEAN /\ open' \in BOOLEAN
          /\ draining' \in BOOLEAN /\ errors' \in BOOLEAN /\ stop' \in BOOLEAN
      BY <1>6 DEF QueueExits
    <3>2. /\ producer' = "off" /\ pc' = "none" /\ calling' = "none" /\ given' = Nobody
          /\ listed' = {} /\ attempted' = {} /\ todo' = {}
          /\ UNCHANGED <<files, tasks, readers, history>>
      BY <1>6 DEF QueueExits
    <3>3. scratch' \subseteq [of : Packers \cup Readers \cup {Nobody}, capture : Captures]
      BY <1>6 DEF QueueExits
    <3>4. /\ step' = [step EXCEPT ![Worker] = "idle"]
          /\ target' = [target EXCEPT ![Worker] = Nobody]
          /\ retire' = [retire EXCEPT ![Worker] = FALSE]
      BY <1>6 DEF QueueExits
    <3> QED
      BY <3>1, <3>2, <3>3, <3>4
  <2>2. LocksExclude'
    BY <1>6 DEF QueueExits
  <2>3. Progress'
    BY <1>6 DEF QueueExits
  <2>4. EvidenceSurvives'
    BY <1>6 DEF QueueExits
  <2>5. ReadersUndisturbed'
    BY <1>6 DEF QueueExits
  <2>6. NothingForgotten' /\ CallHolds'
    BY <1>6 DEF QueueExits
  <2> QED
    BY <2>1, <2>2, <2>3, <2>4, <2>5, <2>6
<1> QED
  BY <1>1, <1>2, <1>3, <1>4, <1>5, <1>6

LEMMA WorkerKeeps ==
  ASSUME ArchiveInv, 
         \/ \E c \in Captures : Clean(c)
         \/ Cleaned
         \/ Top
         \/ List
         \/ ChooseNone
         \/ \E c \in Captures : Choose(c)
         \/ Record
         \/ Wait
  PROVE ArchiveInv'
<1> USE ArchiveAssumption
    DEF ArchiveInv, ArchiveTypeOK, LocksExclude, Progress, EvidenceSurvives,
        ReadersUndisturbed, NothingForgotten, PackedOnly, Intact, PairGood, Verifies,
        Exclusive, Shared, Packers, File, Working, Without, Abandon, Forget,
        Returns, CallHolds, Ask, files, packing, readers, call, queue, history
<1>1. CASE \E c \in Captures : Clean(c)
  <2>0. PICK c \in Captures : Clean(c)
    BY <1>1
  <2>1. ArchiveTypeOK'
    BY <2>0, ZenonT(60) DEF Clean
  <2>2. LocksExclude'
    BY <2>0 DEF Clean
  <2>3. Progress'
    BY <2>0 DEF Clean
  <2>4. EvidenceSurvives'
    BY <2>0 DEF Clean
  <2>5. ReadersUndisturbed'
    BY <2>0 DEF Clean
  <2>6. NothingForgotten' /\ CallHolds'
    BY <2>0 DEF Clean
  <2> QED
    BY <2>1, <2>2, <2>3, <2>4, <2>5, <2>6
<1>2. CASE Cleaned
  BY <1>2 DEF Cleaned
<1>3. CASE Top
  BY <1>3 DEF Top
<1>4. CASE List
  BY <1>4 DEF List
<1>5. CASE ChooseNone
  BY <1>5 DEF ChooseNone
<1>6. CASE \E c \in Captures : Choose(c)
  BY <1>6 DEF Choose
<1>7. CASE Record
  <2>1. ArchiveTypeOK'
    BY <1>7, ZenonT(60) DEF Record
  <2>2. LocksExclude'
    BY <1>7 DEF Record
  <2>3. Progress'
    BY <1>7 DEF Record
  <2>4. EvidenceSurvives'
    BY <1>7 DEF Record
  <2>5. ReadersUndisturbed'
    BY <1>7 DEF Record
  <2>6. NothingForgotten' /\ CallHolds'
    BY <1>7 DEF Record
  <2> QED
    BY <2>1, <2>2, <2>3, <2>4, <2>5, <2>6
<1>8. CASE Wait
  <2>1. ArchiveTypeOK'
    BY <1>8, ZenonT(60) DEF Wait
  <2>2. LocksExclude'
    BY <1>8 DEF Wait
  <2>3. Progress'
    BY <1>8 DEF Wait
  <2>4. EvidenceSurvives'
    BY <1>8 DEF Wait
  <2>5. ReadersUndisturbed'
    BY <1>8 DEF Wait
  <2>6. NothingForgotten' /\ CallHolds'
    BY <1>8 DEF Wait
  <2> QED
    BY <2>1, <2>2, <2>3, <2>4, <2>5, <2>6
<1> QED
  BY <1>1, <1>2, <1>3, <1>4, <1>5, <1>6, <1>7, <1>8

LEMMA Outside ==
  ASSUME ArchiveInv, 
         \/ \E p \in Operators, c \in Captures, r \in BOOLEAN : OperatorPacks(p, c, r)
         \/ \E p \in Operators : OperatorEnds(p)
         \/ \E p \in Operators : OperatorKilled(p)
         \/ \E c \in Captures : Damage(c)
  PROVE ArchiveInv'
<1> USE ArchiveAssumption
    DEF ArchiveInv, ArchiveTypeOK, LocksExclude, Progress, EvidenceSurvives,
        ReadersUndisturbed, NothingForgotten, PackedOnly, Intact, PairGood, Verifies,
        Exclusive, Shared, Packers, File, Working, Without, Abandon, Forget,
        Returns, CallHolds, Ask, files, packing, readers, call, queue, history
<1>1. CASE \E p \in Operators, c \in Captures, r \in BOOLEAN : OperatorPacks(p, c, r)
  BY <1>1 DEF OperatorPacks
<1>2. CASE \E p \in Operators : OperatorEnds(p)
  BY <1>2 DEF OperatorEnds
<1>3. CASE \E p \in Operators : OperatorKilled(p)
  BY <1>3 DEF OperatorKilled
<1>4. CASE \E c \in Captures : Damage(c)
  <2>0. PICK c \in Captures : Damage(c)
    BY <1>4
  <2>1. ArchiveTypeOK'
    BY <2>0 DEF Damage
  <2>2. LocksExclude'
    BY <2>0 DEF Damage
  <2>3. Progress'
    BY <2>0 DEF Damage
  <2>4. EvidenceSurvives'
    BY <2>0 DEF Damage
  <2>5. ReadersUndisturbed'
    <3>1. raw' = raw \/ raw' = [raw EXCEPT ![c] = "bad"]
      BY <2>0 DEF Damage
    <3>2. UNCHANGED <<scratch, reading, source>>
      BY <2>0 DEF Damage
    <3>3. \A d \in Captures : raw[d] # "none" => raw'[d] # "none"
      BY <3>1
    <3>4. \A r \in Readers : reading[r] = "raw" => source[r] \in Captures
      OBVIOUS
    <3> QED
      BY <3>1, <3>2, <3>3, <3>4
  <2>6. NothingForgotten' /\ CallHolds'
    BY <2>0 DEF Damage
  <2> QED
    BY <2>1, <2>2, <2>3, <2>4, <2>5, <2>6
<1> QED
  BY <1>1, <1>2, <1>3, <1>4

-----------------------------------------------------------------------------
\* Every step keeps the invariant.
LEMMA StepInv == ArchiveInv /\ [Next]_vars => ArchiveInv'
<1> SUFFICES ASSUME ArchiveInv, [Next]_vars PROVE ArchiveInv'
  OBVIOUS
<1>1. CASE UNCHANGED vars
  BY <1>1 DEF vars, files, packing, readers, call, call, queue, history, ArchiveInv, ArchiveTypeOK,
     LocksExclude, Progress, CallHolds, EvidenceSurvives, ReadersUndisturbed, NothingForgotten, PackedOnly, Intact, PairGood
<1>2. CASE Next
  <2>1. Worker \in Packers /\ Operators \subseteq Packers
    BY DEF Packers
  <2> QED
    BY <1>2, <2>1, Packing, Reading, Enqueuing, Owner, WorkerKeeps, Outside DEF Next, WorkerStep, PackStep
<1> QED
  BY <1>1, <1>2

\* The invariant holds throughout.
LEMMA Invariance == Spec => []ArchiveInv
  BY InitInv, StepInv, PTL DEF Spec

\* Every state of the storage is of its type, and a packer, a decoder and the
\* queue's worker each hold a capture exactly while they work on it.
THEOREM TypeCorrect == Spec => []ArchiveTypeOK
  BY Invariance, PTL DEF ArchiveInv

\* No interleaving of packers, decoders, crashes and retries loses the last
\* intact copy of a capture; only damage to that copy does.
THEOREM EvidenceAlwaysSurvives == Spec => []EvidenceSurvives
  BY Invariance, PTL DEF ArchiveInv

\* No packer and no cleanup takes away the file a decoder has open.
THEOREM ReadersNeverDisturbed == Spec => []ReadersUndisturbed
  BY Invariance, PTL DEF ArchiveInv

\* A capture handed to the queue is packed or still has its task file.
THEOREM NeverForgotten == Spec => []NothingForgotten
  BY Invariance, PTL DEF ArchiveInv
=============================================================================
