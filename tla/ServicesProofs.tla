---------------------------- MODULE ServicesProofs ----------------------------
(***************************************************************************)
(* Proofs about the services beside a session's readers: the control files *)
(* by which another process stops it, for any number of runs, stop         *)
(* commands and status commands, each of which may be killed anywhere; the *)
(* queue that processes its sealed images, for every set of tasks; and the *)
(* admission of jobs to the computer's resources, for every number of      *)
(* reads, packings and Office workers and of processors.                   *)
(*                                                                         *)
(* The queue's inductive invariant adds to the type invariant how the      *)
(* flags follow the producer, and that an idle worker with something left  *)
(* to take up has a wake-up pending: from it follow both that a waiting    *)
(* worker never needs its timeout and that a finished queue leaves nothing *)
(* behind.  That of admission says who holds what: the counters are the    *)
(* numbers of the permits, the tickets are those of the clients that wait, *)
(* and the pipeline holds nothing while it joins its workers; from it      *)
(* follows that somebody can always go on.                                 *)
(***************************************************************************)
EXTENDS RunControl, Processing, Workstation, FiniteSetTheorems, SequenceTheorems, WellFoundedInduction,
        TLAPS

-----------------------------------------------------------------------------
(* Run control. *)

\* Every variable of its type.
TypeOK ==
  /\ session \in [Runs -> {"new", "locked", "running", "ended"}]
  /\ token \in [Runs -> BOOLEAN]
  /\ control \in Runs \cup {0}
  /\ request \in [Runs -> {"none", "torn", "stop"}]
  /\ command \in [Commands -> {"new", "holding", "active", "aimed", "writing",
                               "accepted", "refused", "killed"}]
  /\ aim \in [Stops -> Runs \cup {0}]
  /\ seated \in [Runs -> SUBSET Stops]

\* The record and what a command read from it name runs that have begun.
Begun == \A g \in Runs : (control = g \/ \E c \in Stops : aim[c] = g) => session[g] # "new"

\* A command that was over when a run began never aims at that run.
OverStays == \A g \in Runs : \A c \in seated[g] : command[c] \in Over /\ aim[c] # g

\* Only a command aimed at a run leaves a request for it, and the watcher sees
\* no other.
Asked(g) == \E c \in Stops : aim[c] = g /\ command[c] \in {"writing", "accepted", "killed"}
RequestsAsked ==
  /\ \A c \in Stops : command[c] \in {"aimed", "writing"} => aim[c] \in Runs
  /\ \A g \in Runs : request[g] # "none" => Asked(g)
  /\ \A g \in Runs : token[g] => request[g] # "none"

RunInv == TypeOK /\ Begun /\ OverStays /\ RequestsAsked

LEMMA InitInv == Init => RunInv
<1> SUFFICES ASSUME Init PROVE RunInv OBVIOUS
<1> USE RunAssumption DEF Init
<1>1. 0 \notin Runs BY FS_CardinalityType
<1>2. Stops \subseteq Commands BY DEF Commands
<1>3. TypeOK BY DEF TypeOK
<1>4. Begun BY <1>1 DEF Begun
<1>5. OverStays BY DEF OverStays
<1>6. RequestsAsked BY <1>2 DEF RequestsAsked
<1> QED BY <1>3, <1>4, <1>5, <1>6 DEF RunInv

\* A request that was asked for stays asked for, whatever its command does.
LEMMA AskedStays ==
  ASSUME TypeOK, RequestsAsked, [Next]_vars, NEW g \in Runs, Asked(g)
  PROVE  Asked(g)'
<1>1. PICK c \in Stops : aim[c] = g /\ command[c] \in {"writing", "accepted", "killed"}
  BY DEF Asked
<1>2. c \in Commands BY DEF Commands
<1>3. aim'[c] = g /\ command'[c] \in {"writing", "accepted", "killed"}
  <2>1. ASSUME NEW h \in Runs, Start(h) \/ Register(h) \/ Watch(h) \/ End(h)
        PROVE  aim' = aim /\ command' = command
    BY <2>1 DEF Start, Register, Watch, End
  <2>2. ASSUME NEW d \in Commands, Probe(d) \/ Unprobe(d) \/ Kill(d)
        PROVE  aim' = aim /\ command'[c] \in {"writing", "accepted", "killed"}
    BY <1>1, <1>2, <2>2 DEF Probe, Unprobe, Kill, TypeOK
  <2>3. ASSUME NEW d \in Stops, ReadRecord(d)
        PROVE  aim'[c] = g /\ command'[c] \in {"writing", "accepted", "killed"}
    BY <1>1, <1>2, <2>3 DEF ReadRecord, TypeOK
  <2>4. ASSUME NEW d \in Stops, Create(d) \/ Write(d)
        PROVE  aim' = aim /\ command'[c] \in {"writing", "accepted", "killed"}
    <3>1. aim[d] \in Runs BY <2>4 DEF Create, Write, RequestsAsked
    <3>2. request[aim[d]] \in {"none", "torn", "stop"} BY <3>1 DEF TypeOK
    <3>3. d \in Commands BY DEF Commands
    <3>4. command[d] \in {"aimed", "writing"} BY <2>4 DEF Create, Write
    <3>5. \E v \in {"writing", "refused", "accepted"} : command' = [command EXCEPT ![d] = v]
      BY <2>4, <3>2 DEF Create, Write
    <3>6. Write(d) => command' = [command EXCEPT ![d] = "accepted"] BY DEF Write
    <3>7. Create(d) => d # c BY <1>1 DEF Create
    <3>8. aim' = aim BY <2>4 DEF Create, Write
    <3> QED BY <1>1, <1>2, <2>4, <3>3, <3>5, <3>6, <3>7, <3>8 DEF TypeOK
  <2>5. CASE UNCHANGED vars BY <1>1, <2>5 DEF vars
  <2> QED BY <1>1, <2>1, <2>2, <2>3, <2>4, <2>5 DEF Next
<1> QED BY <1>3 DEF Asked

LEMMA StepInv == RunInv /\ [Next]_vars => RunInv'
<1> SUFFICES ASSUME RunInv, [Next]_vars PROVE RunInv' OBVIOUS
<1> USE DEF RunInv
<1>1. Stops \subseteq Commands BY DEF Commands
<1>2. 0 \notin Runs BY RunAssumption, FS_CardinalityType
<1>3. \A g \in Runs : Asked(g) => Asked(g)' BY AskedStays
<1>4. ASSUME NEW g \in Runs, Start(g) PROVE RunInv'
  <2>1. UNCHANGED <<token, control, request, command, aim>> BY <1>4 DEF Start
  <2>2. /\ session' = [session EXCEPT ![g] = IF probing = None THEN "locked" ELSE "ended"]
        /\ seated' = [seated EXCEPT ![g] = {c \in Stops : command[c] \in Over}]
        /\ session[g] = "new"
    BY <1>4 DEF Start
  <2>3. TypeOK' BY <2>1, <2>2 DEF TypeOK
  <2>4. Begun' BY <2>1, <2>2 DEF Begun, TypeOK
  <2>5. \A c \in Stops : aim[c] # g BY <2>2 DEF Begun
  <2>6. OverStays' BY <2>1, <2>2, <2>5 DEF OverStays, TypeOK
  <2>7. RequestsAsked' BY <1>3, <2>1 DEF RequestsAsked
  <2> QED BY <2>3, <2>4, <2>6, <2>7
<1>5. ASSUME NEW g \in Runs, Register(g) PROVE RunInv'
  <2>1. UNCHANGED <<token, request, command, aim, seated>> BY <1>5 DEF Register
  <2>2. session' = [session EXCEPT ![g] = "running"] /\ control' = g BY <1>5 DEF Register
  <2>3. TypeOK' BY <2>1, <2>2 DEF TypeOK
  <2>4. Begun' BY <2>1, <2>2 DEF Begun, TypeOK
  <2>5. OverStays' BY <2>1 DEF OverStays
  <2>6. RequestsAsked' BY <1>3, <2>1 DEF RequestsAsked
  <2> QED BY <2>3, <2>4, <2>5, <2>6
<1>6. ASSUME NEW g \in Runs, Watch(g) PROVE RunInv'
  <2>1. UNCHANGED <<session, control, request, command, aim, seated>> BY <1>6 DEF Watch
  <2>2. token' = [token EXCEPT ![g] = TRUE] /\ request[g] = "stop" BY <1>6 DEF Watch
  <2>3. TypeOK' BY <2>1, <2>2 DEF TypeOK
  <2>4. Begun' /\ OverStays' BY <2>1 DEF Begun, OverStays
  <2>5. \A h \in Runs : token'[h] => token[h] \/ h = g BY <2>2 DEF TypeOK
  <2>6. RequestsAsked' BY <1>3, <2>1, <2>2, <2>5 DEF RequestsAsked
  <2> QED BY <2>3, <2>4, <2>6
<1>7. ASSUME NEW g \in Runs, End(g) PROVE RunInv'
  <2>1. UNCHANGED <<token, control, request, command, aim, seated>> BY <1>7 DEF End
  <2>2. session' = [session EXCEPT ![g] = "ended"] BY <1>7 DEF End
  <2>3. TypeOK' BY <2>1, <2>2 DEF TypeOK
  <2>4. Begun' BY <2>1, <2>2 DEF Begun, TypeOK
  <2>5. OverStays' BY <2>1 DEF OverStays
  <2>6. RequestsAsked' BY <1>3, <2>1 DEF RequestsAsked
  <2> QED BY <2>3, <2>4, <2>5, <2>6
<1>8. ASSUME NEW c \in Commands, Probe(c) \/ Unprobe(c) \/ Kill(c) PROVE RunInv'
  <2>1. UNCHANGED <<session, token, control, request, aim, seated>>
    BY <1>8 DEF Probe, Unprobe, Kill
  <2>2. PICK v \in {"holding", "active", "accepted", "refused", "killed"} :
          command' = [command EXCEPT ![c] = v]
    BY <1>8 DEF Probe, Unprobe, Kill
  <2>3. command[c] \notin Over BY <1>8 DEF Probe, Unprobe, Kill, Over
  <2>4. TypeOK' BY <2>1, <2>2 DEF TypeOK
  <2>5. Begun' BY <2>1 DEF Begun
  <2>6. OverStays' BY <1>1, <2>1, <2>2, <2>3 DEF OverStays, TypeOK
  <2>7. \A d \in Stops : command'[d] \in {"aimed", "writing"} => command[d] = command'[d]
    BY <1>1, <2>2 DEF TypeOK
  <2>8. RequestsAsked' BY <1>3, <2>1, <2>7 DEF RequestsAsked
  <2> QED BY <2>4, <2>5, <2>6, <2>8
<1>9. ASSUME NEW c \in Stops, ReadRecord(c) PROVE RunInv'
  <2>1. UNCHANGED <<session, token, control, request, seated>> BY <1>9 DEF ReadRecord
  <2>2. /\ aim' = [aim EXCEPT ![c] = control] /\ command[c] = "active"
        /\ command' = [command EXCEPT ![c] = IF control = 0 THEN "refused" ELSE "aimed"]
    BY <1>9 DEF ReadRecord
  <2>3. TypeOK' BY <1>1, <2>1, <2>2 DEF TypeOK
  <2>4. Begun' BY <2>1, <2>2 DEF Begun, TypeOK
  <2>5. \A g \in Runs : c \notin seated[g] BY <2>2 DEF OverStays, Over
  <2>6. \A d \in Stops : d # c => aim'[d] = aim[d] /\ command'[d] = command[d]
    BY <1>1, <2>2 DEF TypeOK
  <2>7. OverStays' BY <2>1, <2>5, <2>6 DEF OverStays, TypeOK
  <2>8. command'[c] \in {"aimed", "writing"} => aim'[c] \in Runs BY <1>1, <2>2 DEF TypeOK
  <2>9. RequestsAsked' BY <1>3, <2>1, <2>6, <2>8 DEF RequestsAsked
  <2> QED BY <2>3, <2>4, <2>7, <2>9
<1>10. ASSUME NEW c \in Stops, Create(c) \/ Write(c) PROVE RunInv'
  <2>1. UNCHANGED <<session, token, control, aim, seated>> BY <1>10 DEF Create, Write
  <2>2. command[c] \in {"aimed", "writing"} BY <1>10 DEF Create, Write
  <2>3. PICK g \in Runs : aim[c] = g BY <2>2 DEF RequestsAsked
  <2>4. PICK r \in {"torn", "stop"} : request' = [request EXCEPT ![g] = r] \/ request' = request
    <3>1. request[g] \in {"none", "torn", "stop"} BY DEF TypeOK
    <3>2. Write(c) => request' = [request EXCEPT ![g] = "stop"] BY <2>3 DEF Write
    <3>3. Create(c) => request' = [request EXCEPT ![g] = "torn"] \/ request' = request
      BY <2>3, <3>1 DEF Create
    <3> QED BY <1>10, <3>2, <3>3
  <2>5. PICK v \in {"writing", "accepted", "refused"} : command' = [command EXCEPT ![c] = v]
    BY <1>10, <2>3 DEF Create, Write, TypeOK
  <2>6. v = "refused" => request' = request BY <1>1, <1>10, <2>3, <2>5 DEF Create, Write, TypeOK
  <2>7. TypeOK' BY <1>1, <2>1, <2>3, <2>4, <2>5 DEF TypeOK
  <2>8. Begun' BY <2>1 DEF Begun
  <2>9. OverStays' BY <1>1, <2>1, <2>2, <2>5 DEF OverStays, Over, TypeOK
  <2>10. \A d \in Stops : command'[d] \in {"aimed", "writing"} => aim'[d] \in Runs
    BY <1>1, <2>1, <2>3, <2>5 DEF RequestsAsked, TypeOK
  <2>11. request' # request => Asked(g)' BY <1>1, <2>1, <2>3, <2>5, <2>6 DEF Asked, TypeOK
  <2>12. \A h \in Runs : h # g => request'[h] = request[h] BY <2>4 DEF TypeOK
  <2>13. \A h \in Runs : request'[h] # "none" => Asked(h)'
    BY <1>3, <2>11, <2>12 DEF RequestsAsked
  <2>14. \A h \in Runs : token'[h] => request'[h] # "none"
    BY <2>1, <2>4 DEF RequestsAsked, TypeOK
  <2> QED BY <2>7, <2>8, <2>9, <2>10, <2>13, <2>14 DEF RequestsAsked
<1>11. CASE UNCHANGED vars
  BY <1>11 DEF vars, TypeOK, Begun, OverStays, RequestsAsked, Asked
<1> QED BY <1>4, <1>5, <1>6, <1>7, <1>8, <1>9, <1>10, <1>11 DEF Next

-----------------------------------------------------------------------------
(* Theorems. *)

\* Sessions, records, requests and commands always have their types.
THEOREM RunTypeCorrect == Spec => []TypeOK
<1>1. RunInv => TypeOK BY DEF RunInv
<1> QED BY InitInv, StepInv, <1>1, PTL DEF Spec

\* A run is cancelled only by a stop command that was still going when it began:
\* neither a request left behind, nor a torn one, nor one for the run before
\* reaches it, whoever is killed (src/run_control.rs, watcher and request).
THEOREM OldRequestsStayHarmless == Spec => []OldRequestsHarmless
<1>1. RunInv => OldRequestsHarmless
  <2> SUFFICES ASSUME RunInv, NEW g \in Runs, token[g]
               PROVE  \E c \in Stops \ seated[g] :
                        aim[c] = g /\ command[c] \in {"writing", "accepted", "killed"}
    BY DEF OldRequestsHarmless
  <2>1. PICK c \in Stops : aim[c] = g /\ command[c] \in {"writing", "accepted", "killed"}
    BY DEF RunInv, RequestsAsked, Asked
  <2>2. c \notin seated[g] BY <2>1 DEF RunInv, OverStays
  <2> QED BY <2>1, <2>2
<1> QED BY InitInv, StepInv, <1>1, PTL DEF Spec

-----------------------------------------------------------------------------
(* The processing queue. *)

\* A task is left that the worker has not taken up.
Untaken == \E j \in Tasks : Unfinished(j) /\ j \notin attempted

ProcessingInv ==
  /\ ProcessingTypeOK
  /\ pc = "none" <=> producer = "off"
  /\ saved => producer = "feeding"
  /\ pc = "recheck" => drain
  /\ open <=> producer \in {"feeding", "closing"}
  /\ pc \in {"idle", "wait"} /\ Untaken => wake \/ saved
  /\ \A j \in pending \cup batch : Unfinished(j)
  /\ pc \in {"run", "record"} => pending = {}
  /\ producer \in {"closing", "joining", "joined"} <=> drain \/ cancel
  /\ pc = "stopped" => drain \/ cancel \/ stop \/ faulted
  /\ DrainLeavesNothing

\* The initial state has no worker and no task.
LEMMA QueueInitInv == QueueInit => ProcessingInv
  BY DEF QueueInit, ProcessingInv, ProcessingTypeOK, Statuses, Untaken, DrainLeavesNothing,
         Unfinished

\* Every step of the producer and of the worker keeps the invariant.
LEMMA QueueStepInv == ProcessingInv /\ [QueueNext]_queueVars => ProcessingInv'
<1> SUFFICES ASSUME ProcessingInv, [QueueNext]_queueVars PROVE ProcessingInv'
  OBVIOUS
<1> USE DEF ProcessingInv, ProcessingTypeOK, Statuses, Done, Pending, Unfinished, Untaken,
            DrainLeavesNothing, volatile, Producing
<1>1. CASE StartQueue
  BY <1>1 DEF StartQueue
<1>2. CASE \E j \in Tasks : Enqueue(j)
  BY <1>2 DEF Enqueue
<1>3. CASE Wake
  BY <1>3 DEF Wake
<1>4. CASE Finish
  BY <1>4 DEF Finish
<1>5. CASE Close
  BY <1>5 DEF Close
<1>6. CASE Join
  BY <1>6 DEF Join
<1>7. CASE RecordFinal
  BY <1>7 DEF RecordFinal
<1>8. CASE RequestStop
  BY <1>8 DEF RequestStop
<1>9. CASE Exit
  BY <1>9 DEF Exit
<1>10. CASE Top
  BY <1>10 DEF Top
<1>11. CASE Idle
  BY <1>11 DEF Idle
<1>12. CASE Recheck
  BY <1>12 DEF Recheck
<1>13. CASE Wait
  BY <1>13 DEF Wait
<1>14. CASE \E j \in Tasks : Validate(j)
  BY <1>14 DEF Validate
<1>15. CASE Validated
  BY <1>15 DEF Validated
<1>16. CASE Run
  BY <1>16 DEF Run
<1>17. CASE \E j \in Tasks : Record(j)
  <2>1. PICK j \in Tasks : Record(j)
    BY <1>17
  <2>2. PICK new \in Statuses :
          /\ status' = [status EXCEPT ![j] = new] \/ (status' = status /\ faulted')
          /\ new \in {"failed", "processed", "attention"}
    BY <2>1 DEF Record
  <2>3. /\ pc = "record" /\ pc' = pc /\ j \in batch /\ batch' = batch \ {j}
        /\ UNCHANGED <<Producing, wake, pending, attempted, result>>
        /\ faulted' \in BOOLEAN
    BY <2>1 DEF Record
  <2>4. \A i \in pending' \cup batch' : Unfinished(i)'
    BY <2>2, <2>3
  <2> QED
    BY <2>2, <2>3, <2>4
<1>18. CASE Recorded
  BY <1>18 DEF Recorded
<1>19. CASE Fault
  BY <1>19 DEF Fault
<1>20. CASE UNCHANGED queueVars
  BY <1>20 DEF queueVars
<1> QED
  BY <1>1, <1>2, <1>3, <1>4, <1>5, <1>6, <1>7, <1>8, <1>9, <1>10,
     <1>11, <1>12, <1>13, <1>14, <1>15, <1>16, <1>17, <1>18, <1>19, <1>20
  DEF QueueNext, Worker, Producer

\* A task leaves the finished statuses by no step: what is validated or recorded
\* was unfinished when it was read.
LEMMA StepKeepsFinished ==
  ProcessingInv /\ [QueueNext]_queueVars
    => [\A j \in Tasks : status[j] \in Done => status'[j] \in Done]_queueVars
<1> SUFFICES ASSUME ProcessingInv, QueueNext,
                    NEW i \in Tasks, status[i] \in Done
             PROVE status'[i] \in Done
  BY DEF queueVars
<1> USE DEF ProcessingInv, ProcessingTypeOK, Statuses, Done, Unfinished
<1>1. CASE Worker
  <2>1. CASE \E j \in Tasks : Validate(j)
    BY <2>1 DEF Validate
  <2>2. CASE \E j \in Tasks : Record(j)
    BY <2>2 DEF Record
  <2>3. CASE UNCHANGED status
    BY <2>3
  <2> QED
    BY <1>1, <2>1, <2>2, <2>3
       DEF Worker, Top, Idle, Recheck, Wait, Validated, Run, Recorded, Fault
<1>2. CASE Producer
  <2>1. CASE \E j \in Tasks : Enqueue(j)
    BY <2>1 DEF Enqueue
  <2>2. CASE RecordFinal
    BY <2>2 DEF RecordFinal
  <2>3. CASE UNCHANGED status
    BY <2>3
  <2> QED
    BY <1>2, <2>1, <2>2, <2>3
       DEF Producer, StartQueue, Wake, Finish, Close, Join, RequestStop, Exit
<1> QED
  BY <1>1, <1>2 DEF QueueNext

\* The invariant holds in every reachable state.
THEOREM ProcessingInvariant == QueueSpec => []ProcessingInv
  BY QueueInitInv, QueueStepInv, PTL DEF QueueSpec

\* The queue is always typed.
THEOREM ProcessingTypeCorrect == QueueSpec => []ProcessingTypeOK
<1>1. ProcessingInv => ProcessingTypeOK
  BY DEF ProcessingInv
<1> QED
  BY <1>1, ProcessingInvariant, PTL

\* A queue that was finished without an error took up every enqueued task.
THEOREM DrainIsComplete == QueueSpec => []DrainLeavesNothing
<1>1. ProcessingInv => DrainLeavesNothing
  BY DEF ProcessingInv
<1> QED
  BY <1>1, ProcessingInvariant, PTL

\* A waiting worker is never left asleep beside a task.
THEOREM WakeupsAreKept == QueueSpec => []NoLostWakeup
<1>1. ProcessingInv => NoLostWakeup
  BY DEF ProcessingInv, NoLostWakeup, Untaken
<1> QED
  BY <1>1, ProcessingInvariant, PTL

\* A finished task is never taken up again.
THEOREM FinishedTasksStay == QueueSpec => FinishedStays
  BY ProcessingInvariant, StepKeepsFinished, PTL DEF QueueSpec, FinishedStays

-----------------------------------------------------------------------------
(* Admission: who holds what, and who waits.                               *)

\* Every client where it can stand.
Stands(c) ==
  {"start"} \cup Final \cup
  (IF c \in Reads THEN {"reading", "gated"}
   ELSE Waiting \cup (IF c = Pipe THEN Holding \cup {"converting"} ELSE {"holding"}))
WorkTypeOK ==
  /\ DOMAIN at = Clients /\ \A c \in Clients : at[c] \in Stands(c)
  /\ round \in {1, 2} /\ seen \in [Clients -> BOOLEAN]
  /\ waiting \in Seq(Background) /\ gate \in Clients \cup {Nobody}
  /\ foreground \in Nat /\ background \in Nat /\ bulk_io \in Nat
  /\ scarce \in BOOLEAN /\ shortages \in 0 .. MaxScarce

\* Who holds a permit: a read, anybody else, and of those who take the bulk slot.
Reader == {"reading", "gated"}
ReadsAdmitted == {c \in Reads : at[c] \in Reader}
Admitted == {c \in Background : at[c] \in Holding}
BulkAdmitted == {c \in Background : Bulk(c) /\ at[c] \in Holding}

\* The counters count the permits, and keep to the slots.
PermitsCounted ==
  /\ foreground = Cardinality(ReadsAdmitted)
  /\ background = Cardinality(Admitted) /\ background <= Slots(0)
  /\ bulk_io = Cardinality(BulkAdmitted) /\ bulk_io <= 1

\* A ticket is drawn by whoever waits, once, and by nobody else.
TicketsDrawn ==
  /\ \A i, j \in DOMAIN waiting : waiting[i] = waiting[j] => i = j
  /\ \A c \in Clients : at[c] \in Waiting <=> \E i \in DOMAIN waiting : waiting[i] = c

\* The gate is held by the one that stands in it.
GateHeld == \A c \in Clients : gate = c <=> at[c] = "gated"

\* While an Office worker is at work the pipeline has no permit and asks for none.
NothingNested == \A c \in Offices : at[c] \in Waiting \cup Holding => at[Pipe] = "converting"

WorkInv == WorkTypeOK /\ PermitsCounted /\ TicketsDrawn /\ GateHeld /\ NothingNested

\* Where one client goes on, the others stay.
LEMMA Moves ==
  ASSUME WorkTypeOK, NEW c \in Clients, NEW p \in Stands(c), at' = [at EXCEPT ![c] = p]
  PROVE  /\ DOMAIN at' = Clients /\ at'[c] = p /\ \A d \in Clients : d # c => at'[d] = at[d]
         /\ \A d \in Clients : at'[d] \in Stands(d)
<1>1. DOMAIN at = Clients BY DEF WorkTypeOK
<1>2. DOMAIN at' = Clients /\ at'[c] = p /\ \A d \in Clients : d # c => at'[d] = at[d] BY <1>1
<1> QED BY <1>2 DEF WorkTypeOK

\* There are finitely many clients.
LEMMA FinitelyMany ==
  /\ IsFiniteSet(ReadsAdmitted) /\ IsFiniteSet(Admitted) /\ IsFiniteSet(BulkAdmitted)
  /\ Cardinality(ReadsAdmitted) \in Nat /\ Cardinality(Admitted) \in Nat /\ Cardinality(BulkAdmitted) \in Nat
<1>1. ReadsAdmitted \in SUBSET Clients /\ Admitted \in SUBSET Clients /\ BulkAdmitted \in SUBSET Clients
  BY DEF ReadsAdmitted, Admitted, BulkAdmitted, Clients, Background
<1>2. IsFiniteSet(ReadsAdmitted) /\ IsFiniteSet(Admitted) /\ IsFiniteSet(BulkAdmitted)
  BY <1>1, BudgetAssumption, FS_Subset
<1> QED BY <1>2, FS_CardinalityType

\* A client that neither takes nor returns a permit is counted as before.
LEMMA CountsStay ==
  ASSUME WorkTypeOK, PermitsCounted, NEW c \in Clients, NEW p \in Stands(c), at' = [at EXCEPT ![c] = p],
         c \in Reads => (p \in Reader <=> at[c] \in Reader),
         c \notin Reads => (p \in Holding <=> at[c] \in Holding),
         UNCHANGED <<foreground, background, bulk_io>>
  PROVE  PermitsCounted'
<1>1. at'[c] = p /\ \A d \in Clients : d # c => at'[d] = at[d] BY Moves
<1>2. Reads \subseteq Clients /\ Background \subseteq Clients BY DEF Clients, Background
<1>3. ReadsAdmitted' = ReadsAdmitted BY <1>1, <1>2 DEF ReadsAdmitted
<1>4. \A d \in Background : at'[d] \in Holding <=> at[d] \in Holding BY <1>1, <1>2 DEF Background
<1>5. Admitted' = Admitted /\ BulkAdmitted' = BulkAdmitted BY <1>4 DEF Admitted, BulkAdmitted, Bulk
<1> QED BY <1>3, <1>5 DEF PermitsCounted, Slots

\* A permit is granted.
LEMMA CountsGrant ==
  ASSUME WorkTypeOK, PermitsCounted, NEW c \in Background, NEW p \in Stands(c), at' = [at EXCEPT ![c] = p],
         p \in Holding, at[c] \notin Holding, background < Slots(0), Bulk(c) => bulk_io < 1,
         background' = background + 1, bulk_io' = IF Bulk(c) THEN bulk_io + 1 ELSE bulk_io,
         UNCHANGED foreground
  PROVE  PermitsCounted'
<1>1. c \in Clients /\ c \notin Reads BY DEF Background
<1>2. at'[c] = p /\ \A d \in Clients : d # c => at'[d] = at[d] BY <1>1, Moves
<1>3. Reads \subseteq Clients /\ Background \subseteq Clients BY DEF Clients, Background
<1>4. ReadsAdmitted' = ReadsAdmitted BY <1>1, <1>2, <1>3 DEF ReadsAdmitted
<1>5. Admitted' = Admitted \cup {c} /\ c \notin Admitted BY <1>2, <1>3 DEF Admitted
<1>6. Cardinality(Admitted') = Cardinality(Admitted) + 1 BY <1>5, FinitelyMany, FS_AddElement
<1>7. CASE Bulk(c)
  <2>1. BulkAdmitted' = BulkAdmitted \cup {c} /\ c \notin BulkAdmitted BY <1>2, <1>3, <1>7 DEF BulkAdmitted, Bulk
  <2>2. Cardinality(BulkAdmitted') = Cardinality(BulkAdmitted) + 1 BY <2>1, FinitelyMany, FS_AddElement
  <2> QED BY <1>4, <1>6, <1>7, <2>2, FinitelyMany, BudgetAssumption DEF PermitsCounted, Slots
<1>8. CASE ~Bulk(c)
  <2>1. BulkAdmitted' = BulkAdmitted BY <1>2, <1>3, <1>8 DEF BulkAdmitted, Bulk
  <2> QED BY <1>4, <1>6, <1>8, <2>1, FinitelyMany, BudgetAssumption DEF PermitsCounted, Slots
<1> QED BY <1>7, <1>8

\* It is returned.
LEMMA CountsRelease ==
  ASSUME WorkTypeOK, PermitsCounted, NEW c \in Background, NEW p \in Stands(c), at' = [at EXCEPT ![c] = p],
         p \notin Holding, at[c] \in Holding, Release(c)
  PROVE  PermitsCounted' /\ background' \in Nat /\ bulk_io' \in Nat
<1>1. c \in Clients /\ c \notin Reads BY DEF Background
<1>2. at'[c] = p /\ \A d \in Clients : d # c => at'[d] = at[d] BY <1>1, Moves
<1>3. Reads \subseteq Clients /\ Background \subseteq Clients BY DEF Clients, Background
<1>4. ReadsAdmitted' = ReadsAdmitted BY <1>1, <1>2, <1>3 DEF ReadsAdmitted
<1>5. Admitted' = Admitted \ {c} /\ c \in Admitted BY <1>2, <1>3 DEF Admitted
<1>6. Cardinality(Admitted') = Cardinality(Admitted) - 1 /\ Cardinality(Admitted') \in Nat
  BY <1>5, FinitelyMany, FS_RemoveElement, FS_CardinalityType
<1>7. background' = background - 1 /\ bulk_io' = (IF Bulk(c) THEN bulk_io - 1 ELSE bulk_io) /\ UNCHANGED foreground
  BY DEF Release
<1>8. CASE Bulk(c)
  <2>1. BulkAdmitted' = BulkAdmitted \ {c} /\ c \in BulkAdmitted BY <1>2, <1>3, <1>8 DEF BulkAdmitted, Bulk
  <2>2. Cardinality(BulkAdmitted') = Cardinality(BulkAdmitted) - 1 /\ Cardinality(BulkAdmitted') \in Nat
    BY <2>1, FinitelyMany, FS_RemoveElement, FS_CardinalityType
  <2> QED BY <1>4, <1>6, <1>7, <1>8, <2>2, FinitelyMany, BudgetAssumption DEF PermitsCounted, Slots
<1>9. CASE ~Bulk(c)
  <2>1. BulkAdmitted' = BulkAdmitted BY <1>2, <1>3, <1>9 DEF BulkAdmitted, Bulk
  <2> QED BY <1>4, <1>6, <1>7, <1>9, <2>1, FinitelyMany, BudgetAssumption DEF PermitsCounted, Slots
<1> QED BY <1>8, <1>9

\* A read begins ...
LEMMA CountsRead ==
  ASSUME WorkTypeOK, PermitsCounted, NEW c \in Reads, NEW p \in Stands(c), at' = [at EXCEPT ![c] = p],
         p \in Reader, at[c] \notin Reader, foreground' = foreground + 1, UNCHANGED <<background, bulk_io>>
  PROVE  PermitsCounted'
<1>1. c \in Clients /\ c \notin Background BY DEF Background, Clients
<1>2. at'[c] = p /\ \A d \in Clients : d # c => at'[d] = at[d] BY <1>1, Moves
<1>3. Reads \subseteq Clients /\ Background \subseteq Clients BY DEF Clients, Background
<1>4. ReadsAdmitted' = ReadsAdmitted \cup {c} /\ c \notin ReadsAdmitted BY <1>2, <1>3 DEF ReadsAdmitted
<1>5. Cardinality(ReadsAdmitted') = Cardinality(ReadsAdmitted) + 1 BY <1>4, FinitelyMany, FS_AddElement
<1>6. \A d \in Background : at'[d] = at[d] BY <1>1, <1>2, <1>3
<1>7. Admitted' = Admitted /\ BulkAdmitted' = BulkAdmitted BY <1>6 DEF Admitted, BulkAdmitted, Bulk
<1> QED BY <1>5, <1>7 DEF PermitsCounted, Slots

\* ... and ends.
LEMMA CountsEndRead ==
  ASSUME WorkTypeOK, PermitsCounted, NEW c \in Reads, NEW p \in Final, at[c] \in Reader, EndRead(c, p)
  PROVE  PermitsCounted' /\ foreground' \in Nat
<1>1. c \in Clients /\ c \notin Background /\ p \in Stands(c) BY DEF Background, Clients, Stands
<1>2. at' = [at EXCEPT ![c] = p] /\ foreground' = foreground - 1 /\ UNCHANGED <<background, bulk_io>> BY DEF EndRead
<1>3. at'[c] = p /\ \A d \in Clients : d # c => at'[d] = at[d] BY <1>1, <1>2, Moves
<1>4. Reads \subseteq Clients /\ Background \subseteq Clients BY DEF Clients, Background
<1>5. p \notin Reader BY DEF Final, Reader
<1>6. ReadsAdmitted' = ReadsAdmitted \ {c} /\ c \in ReadsAdmitted BY <1>3, <1>4, <1>5 DEF ReadsAdmitted
<1>7. Cardinality(ReadsAdmitted') = Cardinality(ReadsAdmitted) - 1 /\ Cardinality(ReadsAdmitted') \in Nat
  BY <1>6, FinitelyMany, FS_RemoveElement, FS_CardinalityType
<1>8. \A d \in Background : at'[d] = at[d] BY <1>1, <1>3, <1>4
<1>9. Admitted' = Admitted /\ BulkAdmitted' = BulkAdmitted BY <1>8 DEF Admitted, BulkAdmitted, Bulk
<1> QED BY <1>2, <1>7, <1>9 DEF PermitsCounted, Slots

\* One ticket less: the others keep their order.
LEMMA OneLess ==
  ASSUME NEW S, NEW s \in Seq(S), NEW k \in DOMAIN s
  PROVE  /\ RemoveAt(s, k) \in Seq(S)
         /\ DOMAIN RemoveAt(s, k) = 1 .. Len(s) - 1
         /\ \A i \in 1 .. Len(s) - 1 : RemoveAt(s, k)[i] = IF i < k THEN s[i] ELSE s[i + 1]
<1>1. k \in 1 .. Len(s) /\ Len(s) \in Nat OBVIOUS
<1>2. PICK a, b : a = SubSeq(s, 1, k - 1) /\ b = SubSeq(s, k + 1, Len(s)) OBVIOUS
<1>3. a \in Seq(S) /\ Len(a) = k - 1 /\ \A i \in 1 .. k - 1 : a[i] = s[i] BY <1>1, <1>2
<1>4. b \in Seq(S) /\ Len(b) = Len(s) - k /\ \A i \in 1 .. Len(s) - k : b[i] = s[k + i] BY <1>1, <1>2
<1>5. RemoveAt(s, k) = a \o b BY <1>2 DEF RemoveAt
<1>6. a \o b \in Seq(S) /\ Len(a \o b) = Len(s) - 1 BY <1>1, <1>3, <1>4
<1>7. ASSUME NEW i \in 1 .. Len(s) - 1 PROVE (a \o b)[i] = IF i < k THEN s[i] ELSE s[i + 1]
  <2>1. CASE i < k
    <3>1. i \in 1 .. Len(a) /\ i \in 1 .. k - 1 BY <1>1, <1>3, <2>1
    <3>2. (a \o b)[i] = a[i] BY <1>3, <1>4, <3>1
    <3> QED BY <1>3, <2>1, <3>1, <3>2
  <2>2. CASE ~(i < k)
    <3>1. i - Len(a) \in 1 .. Len(b) /\ i \in Len(a) + 1 .. Len(a) + Len(b) /\ i - Len(a) \in 1 .. Len(s) - k
      BY <1>1, <1>3, <1>4, <2>2
    <3>2. (a \o b)[i] = b[i - Len(a)]
      <4>1. i \in 1 .. Len(a) + Len(b) /\ ~(i <= Len(a)) /\ Len(a) \in Nat /\ Len(b) \in Nat BY <1>1, <1>3, <1>4, <2>2
      <4> QED BY <1>3, <1>4, <4>1, ConcatProperties
    <3>3. k + (i - Len(a)) = i + 1 BY <1>1, <1>3
    <3> QED BY <1>4, <2>2, <3>1, <3>2, <3>3
  <2> QED BY <2>1, <2>2
<1> QED BY <1>5, <1>6, <1>7

\* A client that neither begins nor ends to wait leaves the tickets alone.
LEMMA TicketsStay ==
  ASSUME WorkTypeOK, TicketsDrawn, NEW c \in Clients, NEW p \in Stands(c), at' = [at EXCEPT ![c] = p],
         p \in Waiting <=> at[c] \in Waiting, UNCHANGED waiting
  PROVE  TicketsDrawn'
BY Moves DEF TicketsDrawn

\* A ticket is drawn.
LEMMA TicketDrawn ==
  ASSUME WorkTypeOK, TicketsDrawn, NEW c \in Background, NEW p \in Stands(c), at' = [at EXCEPT ![c] = p],
         p \in Waiting, at[c] \notin Waiting, waiting' = Append(waiting, c)
  PROVE  TicketsDrawn' /\ waiting' \in Seq(Background)
<1>1. c \in Clients BY DEF Background
<1>2. at'[c] = p /\ \A d \in Clients : d # c => at'[d] = at[d] BY <1>1, Moves
<1>3. waiting \in Seq(Background) /\ Len(waiting) \in Nat /\ DOMAIN waiting = 1 .. Len(waiting) BY DEF WorkTypeOK
<1>4. /\ waiting' \in Seq(Background) /\ DOMAIN waiting' = 1 .. Len(waiting) + 1
      /\ waiting'[Len(waiting) + 1] = c /\ \A i \in 1 .. Len(waiting) : waiting'[i] = waiting[i]
  BY <1>3
<1>5. \A i \in DOMAIN waiting : waiting[i] # c BY <1>1 DEF TicketsDrawn
<1>6. \A i \in DOMAIN waiting' : i \in DOMAIN waiting \/ i = Len(waiting) + 1 BY <1>3, <1>4
<1>7. ASSUME NEW i \in DOMAIN waiting', NEW j \in DOMAIN waiting', waiting'[i] = waiting'[j] PROVE i = j
  BY <1>3, <1>4, <1>5, <1>6, <1>7 DEF TicketsDrawn
<1>8. ASSUME NEW d \in Clients PROVE at'[d] \in Waiting <=> \E i \in DOMAIN waiting' : waiting'[i] = d
  <2>1. CASE d = c
    <3>1. Len(waiting) + 1 \in DOMAIN waiting' BY <1>3, <1>4
    <3> QED BY <1>2, <1>4, <2>1, <3>1
  <2>2. CASE d # c
    <3>1. at[d] \in Waiting <=> \E i \in DOMAIN waiting : waiting[i] = d BY DEF TicketsDrawn
    <3>2. \A i \in DOMAIN waiting : i \in DOMAIN waiting' /\ waiting'[i] = waiting[i] BY <1>3, <1>4
    <3>3. \A i \in DOMAIN waiting' : waiting'[i] = d => i \in DOMAIN waiting BY <1>4, <1>6, <2>2
    <3> QED BY <1>2, <2>2, <3>1, <3>2, <3>3
  <2> QED BY <2>1, <2>2
<1> QED BY <1>4, <1>7, <1>8 DEF TicketsDrawn

\* A ticket is given back: granted, or its request given up.
LEMMA TicketGone ==
  ASSUME WorkTypeOK, TicketsDrawn, NEW c \in Clients, NEW p \in Stands(c), at' = [at EXCEPT ![c] = p],
         p \notin Waiting, at[c] \in Waiting, waiting' = Without(c)
  PROVE  TicketsDrawn' /\ waiting' \in Seq(Background)
<1>1. at'[c] = p /\ \A d \in Clients : d # c => at'[d] = at[d] BY Moves
<1>2. waiting \in Seq(Background) /\ Len(waiting) \in Nat /\ DOMAIN waiting = 1 .. Len(waiting) BY DEF WorkTypeOK
<1>3. \E i \in DOMAIN waiting : waiting[i] = c BY DEF TicketsDrawn
<1>4. PICK k : k = Ticket(c) OBVIOUS
<1>5. k \in DOMAIN waiting /\ waiting[k] = c BY <1>3, <1>4 DEF Ticket
<1>6. waiting' = RemoveAt(waiting, k) BY <1>4 DEF Without
<1>7. /\ waiting' \in Seq(Background) /\ DOMAIN waiting' = 1 .. Len(waiting) - 1
      /\ \A i \in 1 .. Len(waiting) - 1 : waiting'[i] = IF i < k THEN waiting[i] ELSE waiting[i + 1]
  BY <1>2, <1>5, <1>6, OneLess
<1>8. \A i, j \in DOMAIN waiting : waiting[i] = waiting[j] => i = j BY DEF TicketsDrawn
<1>9. k \in 1 .. Len(waiting) /\ k \in Nat BY <1>2, <1>5
<1> DEFINE old(i) == IF i < k THEN i ELSE i + 1
<1>10. ASSUME NEW i \in DOMAIN waiting'
       PROVE  i \in Nat /\ old(i) \in DOMAIN waiting /\ old(i) # k /\ waiting'[i] = waiting[old(i)]
  <2>1. i \in 1 .. Len(waiting) - 1 BY <1>7
  <2>2. waiting'[i] = IF i < k THEN waiting[i] ELSE waiting[i + 1] BY <1>7, <2>1
  <2> QED BY <1>2, <1>9, <2>1, <2>2
<1>11. ASSUME NEW i \in DOMAIN waiting', NEW j \in DOMAIN waiting', waiting'[i] = waiting'[j] PROVE i = j
  <2>1. old(i) = old(j) BY <1>8, <1>10, <1>11
  <2>2. i \in Nat /\ j \in Nat BY <1>10
  <2> QED BY <1>9, <2>1, <2>2
<1>12. ASSUME NEW n \in DOMAIN waiting, n # k PROVE \E i \in DOMAIN waiting' : old(i) = n
  <2>1. n \in 1 .. Len(waiting) BY <1>2
  <2>2. CASE n < k
    <3>1. n \in 1 .. Len(waiting) - 1 BY <1>2, <1>9, <2>1, <2>2
    <3> QED BY <1>7, <2>2, <3>1
  <2>3. CASE n > k
    <3>1. n - 1 \in 1 .. Len(waiting) - 1 /\ ~(n - 1 < k) /\ (n - 1) + 1 = n BY <1>2, <1>9, <2>1, <2>3
    <3> QED BY <1>7, <3>1
  <2> QED BY <1>9, <1>12, <2>1, <2>2, <2>3
<1> HIDE DEF old
<1>13. ASSUME NEW d \in Clients PROVE at'[d] \in Waiting <=> \E i \in DOMAIN waiting' : waiting'[i] = d
  <2>1. CASE d = c
    <3>1. \A i \in DOMAIN waiting' : waiting'[i] # c BY <1>5, <1>8, <1>10
    <3> QED BY <1>1, <2>1, <3>1
  <2>2. CASE d # c
    <3>1. at[d] \in Waiting <=> \E i \in DOMAIN waiting : waiting[i] = d BY DEF TicketsDrawn
    <3>2. ASSUME NEW n \in DOMAIN waiting, waiting[n] = d PROVE \E i \in DOMAIN waiting' : waiting'[i] = d
      <4>1. n # k BY <1>5, <2>2, <3>2
      <4>2. PICK i \in DOMAIN waiting' : old(i) = n BY <1>12, <4>1
      <4> QED BY <1>10, <3>2, <4>2
    <3>3. ASSUME NEW i \in DOMAIN waiting', waiting'[i] = d PROVE \E n \in DOMAIN waiting : waiting[n] = d
      BY <1>10, <3>3
    <3> QED BY <1>1, <2>2, <3>1, <3>2, <3>3
  <2> QED BY <2>1, <2>2
<1> QED BY <1>7, <1>11, <1>13 DEF TicketsDrawn

\* The gate stays with whom it was.
LEMMA GateStays ==
  ASSUME WorkTypeOK, GateHeld, NEW c \in Clients, NEW p \in Stands(c), at' = [at EXCEPT ![c] = p],
         p = "gated" <=> at[c] = "gated", UNCHANGED gate
  PROVE  GateHeld'
BY Moves DEF GateHeld

\* It is left, by the one that had it if any.
LEMMA GateLeft ==
  ASSUME WorkTypeOK, GateHeld, NEW c \in Clients, NEW p \in Stands(c), at' = [at EXCEPT ![c] = p],
         p # "gated", gate' = IF gate = c THEN Nobody ELSE gate
  PROVE  GateHeld'
<1>1. at'[c] = p /\ \A d \in Clients : d # c => at'[d] = at[d] BY Moves
<1>2. Nobody \notin Clients BY BudgetAssumption
<1> QED BY <1>1, <1>2 DEF GateHeld

\* A client that takes part in no conversion, before or after, changes nothing about it.
LEMMA NestingStays ==
  ASSUME WorkTypeOK, NothingNested, NEW c \in Clients, NEW p \in Stands(c), at' = [at EXCEPT ![c] = p],
         c = Pipe => at[c] # "converting",
         c \in Offices => p \notin Waiting \cup Holding \/ at[c] \in Waiting \cup Holding
  PROVE  NothingNested'
<1>1. at'[c] = p /\ \A d \in Clients : d # c => at'[d] = at[d] BY Moves
<1>2. Pipe \in Clients /\ Offices \subseteq Clients /\ Pipe \notin Offices BY BudgetAssumption DEF Clients
<1> QED BY <1>1, <1>2 DEF NothingNested

\* Where each client may stand.
LEMMA Standing ==
  /\ \A c \in Clients : {"start", "done", "failed"} \subseteq Stands(c)
  /\ \A c \in Background : c \in Clients /\ c \notin Reads /\ {"waiting", "probed", "holding"} \subseteq Stands(c)
  /\ \A c \in Reads : c \in Clients /\ c \notin Background /\ {"reading", "gated"} \subseteq Stands(c)
  /\ Pipe \in Clients /\ Pipe \in Background /\ Pipe \notin Offices
  /\ {"gated", "gateless", "converting"} \subseteq Stands(Pipe)
  /\ Offices \subseteq Background /\ Packings \subseteq Background
<1>1. Pipe \in Clients /\ Pipe \in Background /\ Pipe \notin Reads /\ Pipe \notin Offices
  BY BudgetAssumption DEF Background, Clients
<1>2. Offices \subseteq Background /\ Packings \subseteq Background BY BudgetAssumption DEF Background, Clients
<1>3. \A c \in Reads : c \in Clients /\ c \notin Background BY DEF Background, Clients
<1>4. \A c \in Background : c \in Clients /\ c \notin Reads BY DEF Background
<1> QED BY <1>1, <1>2, <1>3, <1>4 DEF Stands, Final, Waiting, Holding

LEMMA WorkInvInit == WorkInit => WorkInv
<1> SUFFICES ASSUME WorkInit PROVE WorkInv OBVIOUS
<1> USE DEF WorkInit
<1>1. \A c \in Clients : at[c] = "start" OBVIOUS
<1>2. "start" \notin Waiting \cup Holding \cup Reader BY DEF Waiting, Holding, Reader
<1>3. WorkTypeOK
  <2>1. waiting \in Seq(Background) OBVIOUS
  <2>2. DOMAIN at = Clients /\ \A c \in Clients : at[c] \in Stands(c) BY <1>1, Standing
  <2>3. seen \in [Clients -> BOOLEAN] OBVIOUS
  <2>4. scarce \in BOOLEAN /\ shortages \in 0 .. MaxScarce
    <3>1. MaxScarce \in Nat BY BudgetAssumption
    <3>2. scarce \in BOOLEAN BY Zenon
    <3>3. shortages = 0 BY Zenon
    <3>4. 0 \in 0 .. MaxScarce BY <3>1
    <3> QED BY <3>2, <3>3, <3>4, Zenon
  <2> QED BY <2>1, <2>2, <2>3, <2>4 DEF WorkTypeOK
<1>4. ReadsAdmitted = {} /\ Admitted = {} /\ BulkAdmitted = {}
  BY <1>1, <1>2, Standing DEF ReadsAdmitted, Admitted, BulkAdmitted
<1>5. PermitsCounted BY <1>4, FS_EmptySet, BudgetAssumption DEF PermitsCounted, Slots
<1>6. TicketsDrawn BY <1>1, <1>2 DEF TicketsDrawn
<1>7. GateHeld BY <1>1, BudgetAssumption DEF GateHeld
<1>8. NothingNested BY <1>1, <1>2, Standing DEF NothingNested
<1> QED BY <1>3, <1>5, <1>6, <1>7, <1>8 DEF WorkInv

\* A client that asks, waits, or gives up.
LEMMA AskingKeeps ==
  ASSUME WorkInv, NEW c \in Clients, Request(c) \/ ProbeHost(c) \/ Defer(c) \/ GiveUp(c)
  PROVE  WorkInv'
<1> USE DEF WorkInv
<1>1. CASE Request(c)
  <2>1. /\ c \in Background /\ at[c] = "start" /\ at' = [at EXCEPT ![c] = "waiting"]
        /\ waiting' = Append(waiting, c) /\ (c \in Offices => at[Pipe] = "converting")
        /\ UNCHANGED <<round, foreground, background, bulk_io, seen, host, gate>>
    BY <1>1 DEF Request, MayStart
  <2>2. "waiting" \in Stands(c) /\ "waiting" \in Waiting /\ "waiting" \notin Holding \cup Reader \cup {"gated"}
        /\ at[c] \notin Waiting \cup Holding \cup Reader \cup {"gated"}
    BY <2>1, Standing DEF Waiting, Holding, Reader
  <2>3. waiting' \in Seq(Background) /\ TicketsDrawn' BY <2>1, <2>2, TicketDrawn
  <2>4. PermitsCounted' BY <2>1, <2>2, CountsStay
  <2>5. GateHeld' BY <2>1, <2>2, GateStays
  <2>6. DOMAIN at' = Clients /\ (\A d \in Clients : at'[d] \in Stands(d)) /\ at'[c] = "waiting" /\ \A d \in Clients : d # c => at'[d] = at[d]
    BY <2>1, <2>2, Moves
  <2>7. NothingNested' BY <2>1, <2>2, <2>6, Standing DEF NothingNested
  <2>8. WorkTypeOK' BY <2>1, <2>3, <2>6 DEF WorkTypeOK, host
  <2> QED BY <2>3, <2>4, <2>5, <2>7, <2>8
<1>2. CASE ProbeHost(c) \/ Defer(c)
  <2>1. PICK p \in Waiting : at' = [at EXCEPT ![c] = p] BY <1>2 DEF ProbeHost, Defer, Waiting
  <2>2. at[c] \in Waiting /\ UNCHANGED <<round, governor, host, gate>> BY <1>2 DEF ProbeHost, Defer, Waiting
  <2>3. c \in Background /\ p \in Stands(c)
    <3>1. at[c] \in Stands(c) BY DEF WorkTypeOK
    <3> QED BY <2>2, <3>1 DEF Stands, Waiting, Final, Background
  <2>4. p \notin Holding \cup Reader \cup {"gated"} /\ at[c] \notin Holding \cup Reader \cup {"gated", "converting"}
    BY <2>2 DEF Waiting, Holding, Reader
  <2>5. UNCHANGED <<waiting, foreground, background, bulk_io>> BY <2>2 DEF governor
  <2>6. TicketsDrawn' BY <2>1, <2>2, <2>3, <2>5, TicketsStay
  <2>7. PermitsCounted' BY <2>1, <2>3, <2>4, <2>5, CountsStay
  <2>8. GateHeld' BY <2>1, <2>2, <2>3, <2>4, GateStays
  <2>9. NothingNested' BY <2>1, <2>2, <2>3, <2>4, NestingStays
  <2>10. DOMAIN at' = Clients /\ \A d \in Clients : at'[d] \in Stands(d) BY <2>1, <2>3, Moves
  <2>11. seen' \in [Clients -> BOOLEAN] BY <1>2 DEF ProbeHost, Defer, WorkTypeOK
  <2>12. WorkTypeOK' BY <2>2, <2>5, <2>10, <2>11 DEF WorkTypeOK, host
  <2> QED BY <2>6, <2>7, <2>8, <2>9, <2>12
<1>3. CASE GiveUp(c)
  <2>1. /\ at[c] \in Waiting /\ at' = [at EXCEPT ![c] = "failed"] /\ waiting' = Without(c)
        /\ UNCHANGED <<round, foreground, background, bulk_io, seen, host, gate>>
    BY <1>3 DEF GiveUp
  <2>2. /\ "failed" \in Stands(c) /\ "failed" \notin Waiting \cup Holding \cup Reader \cup {"gated"}
        /\ at[c] \notin Holding \cup Reader \cup {"gated", "converting"}
    BY <2>1, Standing DEF Waiting, Holding, Reader
  <2>3. waiting' \in Seq(Background) /\ TicketsDrawn' BY <2>1, <2>2, TicketGone
  <2>4. PermitsCounted' BY <2>1, <2>2, CountsStay
  <2>5. GateHeld' BY <2>1, <2>2, GateStays
  <2>6. NothingNested' BY <2>1, <2>2, NestingStays
  <2>7. DOMAIN at' = Clients /\ \A d \in Clients : at'[d] \in Stands(d) BY <2>1, <2>2, Moves
  <2>8. WorkTypeOK' BY <2>1, <2>3, <2>7 DEF WorkTypeOK, host
  <2> QED BY <2>3, <2>4, <2>5, <2>6, <2>8
<1> QED BY <1>1, <1>2, <1>3

\* A request that is granted.
LEMMA GrantKeeps ==
  ASSUME WorkInv, NEW c \in Clients, Grant(c)
  PROVE  WorkInv'
<1> USE DEF WorkInv
<1>1. /\ at[c] = "probed" /\ ~Deferred(c) /\ at' = [at EXCEPT ![c] = "holding"] /\ waiting' = Without(c)
      /\ background' = background + 1 /\ bulk_io' = (IF Bulk(c) THEN bulk_io + 1 ELSE bulk_io)
      /\ UNCHANGED <<round, foreground, seen, host, gate>>
  BY DEF Grant
<1>2. c \in Background
  <2>1. at[c] \in Stands(c) BY DEF WorkTypeOK
  <2> QED BY <1>1, <2>1 DEF Stands, Final, Background
<1>3. /\ "holding" \in Stands(c) /\ "holding" \notin Waiting \cup Reader \cup {"gated"} /\ "holding" \in Holding
      /\ at[c] \in Waiting /\ at[c] \notin Holding \cup Reader \cup {"gated", "converting"}
  BY <1>1, <1>2, Standing DEF Waiting, Holding, Reader
<1>4. background < Slots(0) /\ (Bulk(c) => bulk_io < 1)
  <2>1. ~(background >= Slots(foreground)) /\ ~(Bulk(c) /\ bulk_io >= 1) BY <1>1 DEF Deferred
  <2>2. Slots(foreground) \in Nat /\ Slots(0) \in Nat /\ Slots(foreground) <= Slots(0)
    BY BudgetAssumption DEF Slots, WorkTypeOK
  <2> QED BY <2>1, <2>2 DEF WorkTypeOK
<1>5. waiting' \in Seq(Background) /\ TicketsDrawn' BY <1>1, <1>3, TicketGone
<1>6. PermitsCounted' BY <1>1, <1>2, <1>3, <1>4, CountsGrant
<1>7. GateHeld' BY <1>1, <1>3, GateStays
<1>8. NothingNested' BY <1>1, <1>3, NestingStays
<1>9. DOMAIN at' = Clients /\ \A d \in Clients : at'[d] \in Stands(d) BY <1>1, <1>3, Moves
<1>10. background' \in Nat /\ bulk_io' \in Nat BY <1>1 DEF WorkTypeOK
<1>11. WorkTypeOK' BY <1>1, <1>5, <1>9, <1>10 DEF WorkTypeOK, host
<1> QED BY <1>5, <1>6, <1>7, <1>8, <1>11

\* A read that begins or ends.
LEMMA ReadKeeps ==
  ASSUME WorkInv, NEW c \in Clients, StartRead(c) \/ Publish(c) \/ ReadFails(c)
  PROVE  WorkInv'
<1> USE DEF WorkInv
<1>1. CASE StartRead(c)
  <2>1. c \in Reads /\ at[c] = "start" /\ UNCHANGED <<round, waiting, background, bulk_io, seen, host, gate>>
    BY <1>1 DEF StartRead
  <2>2. PICK p \in {"reading", "failed"} :
          /\ at' = [at EXCEPT ![c] = p]
          /\ IF p = "reading" THEN foreground' = foreground + 1 ELSE UNCHANGED foreground
    BY <1>1 DEF StartRead
  <2>3. /\ p \in Stands(c) /\ p \notin Waiting \cup Holding /\ p # "gated" /\ (p \in Reader <=> p = "reading")
        /\ at[c] \notin Waiting \cup Holding \cup Reader \cup {"gated", "converting"}
    BY <2>1, <2>2, Standing DEF Waiting, Holding, Reader
  <2>4. foreground' \in Nat BY <2>2 DEF WorkTypeOK
  <2>5. PermitsCounted'
    <3>1. CASE p = "reading" BY <2>1, <2>2, <2>3, <3>1, CountsRead
    <3>2. CASE p = "failed" BY <2>1, <2>2, <2>3, <3>2, CountsStay
    <3> QED BY <3>1, <3>2
  <2>6. TicketsDrawn' BY <2>1, <2>2, <2>3, TicketsStay
  <2>7. GateHeld' BY <2>1, <2>2, <2>3, GateStays
  <2>8. NothingNested' BY <2>1, <2>2, <2>3, NestingStays
  <2>9. DOMAIN at' = Clients /\ \A d \in Clients : at'[d] \in Stands(d) BY <2>2, <2>3, Moves
  <2>10. WorkTypeOK' BY <2>1, <2>4, <2>9 DEF WorkTypeOK, host
  <2> QED BY <2>5, <2>6, <2>7, <2>8, <2>10
<1>2. CASE Publish(c) \/ ReadFails(c)
  <2>1. c \in Reads /\ at[c] \in Reader BY <1>2 DEF Publish, ReadFails, Reader
  <2>2. PICK p \in Final : EndRead(c, p) BY <1>2 DEF Publish, ReadFails, Final
  <2>3. gate' = IF gate = c THEN Nobody ELSE gate
    <3>1. CASE Publish(c)
      <4>1. gate = c /\ gate' = Nobody BY <3>1 DEF Publish, GateHeld
      <4> QED BY <4>1
    <3>2. CASE ReadFails(c) BY <3>2 DEF ReadFails
    <3> QED BY <1>2, <3>1, <3>2
  <2>4. at' = [at EXCEPT ![c] = p] /\ UNCHANGED <<round, waiting, background, bulk_io, seen, host>> BY <2>2 DEF EndRead
  <2>5. /\ p \in Stands(c) /\ p \notin Waiting \cup Holding \cup Reader \cup {"gated"}
        /\ at[c] \notin Waiting /\ at[c] # "converting" /\ c \notin Offices
    BY <2>1, <2>2, Standing DEF Waiting, Holding, Reader, Final
  <2>6. PermitsCounted' /\ foreground' \in Nat BY <2>1, <2>2, CountsEndRead
  <2>7. TicketsDrawn' BY <2>4, <2>5, TicketsStay
  <2>8. GateHeld' BY <2>3, <2>4, <2>5, GateLeft
  <2>9. NothingNested' BY <2>4, <2>5, NestingStays
  <2>10. DOMAIN at' = Clients /\ \A d \in Clients : at'[d] \in Stands(d) BY <2>4, <2>5, Moves
  <2>11. gate' \in Clients \cup {Nobody} BY <2>3 DEF WorkTypeOK
  <2>12. WorkTypeOK' BY <2>4, <2>6, <2>10, <2>11 DEF WorkTypeOK, host
  <2> QED BY <2>6, <2>7, <2>8, <2>9, <2>12
<1> QED BY <1>1, <1>2

\* A client that enters the gate, or the pipeline that leaves it and keeps its permit.
LEMMA GateKeeps ==
  ASSUME WorkInv, NEW c \in Clients, EnterGate(c) \/ (c = Pipe /\ LeaveGate)
  PROVE  WorkInv'
<1> USE DEF WorkInv
<1>1. PICK p \in {"gated", "gateless"} : at' = [at EXCEPT ![c] = p] BY DEF EnterGate, LeaveGate
<1>2. UNCHANGED <<round, governor, seen, host>> BY DEF EnterGate, LeaveGate
<1>3. UNCHANGED <<waiting, foreground, background, bulk_io>> BY <1>2 DEF governor
<1>4. /\ p \in Stands(c) /\ p \notin Waiting /\ at[c] \notin Waiting /\ at[c] # "converting" /\ c \notin Offices
      /\ c \in Reads => (p \in Reader <=> at[c] \in Reader)
      /\ c \notin Reads => (p \in Holding <=> at[c] \in Holding)
  <2>1. CASE EnterGate(c)
    <3>1. at'[c] = "gated" /\ at'[c] = p BY <1>1, <2>1 DEF EnterGate, WorkTypeOK
    <3> QED BY <2>1, <3>1, Standing DEF EnterGate, Waiting, Holding, Reader
  <2>2. CASE c = Pipe /\ LeaveGate
    <3>1. at'[c] = "gateless" /\ at'[c] = p BY <1>1, <2>2 DEF LeaveGate, WorkTypeOK
    <3> QED BY <2>2, <3>1, Standing DEF LeaveGate, Waiting, Holding, Reader
  <2> QED BY <2>1, <2>2
<1>5. PermitsCounted' BY <1>1, <1>3, <1>4, CountsStay
<1>6. TicketsDrawn' BY <1>1, <1>3, <1>4, TicketsStay
<1>7. NothingNested' BY <1>1, <1>4, NestingStays
<1>8. /\ DOMAIN at' = Clients /\ at'[c] = p /\ \A d \in Clients : at'[d] \in Stands(d)
      /\ \A d \in Clients : d # c => at'[d] = at[d]
  BY <1>1, <1>4, Moves
<1>9. GateHeld' /\ gate' \in Clients \cup {Nobody}
  <2>1. CASE EnterGate(c)
    <3>1. gate = Nobody /\ gate' = c /\ at'[c] = "gated" BY <1>8, <2>1 DEF EnterGate, WorkTypeOK
    <3>2. Nobody \notin Clients BY BudgetAssumption
    <3> QED BY <1>8, <3>1, <3>2 DEF GateHeld
  <2>2. CASE c = Pipe /\ LeaveGate
    <3>1. at[c] = "gated" /\ gate' = Nobody /\ at'[c] = "gateless" BY <1>8, <2>2 DEF LeaveGate, WorkTypeOK
    <3>2. gate = c BY <3>1 DEF GateHeld
    <3>3. Nobody \notin Clients BY BudgetAssumption
    <3> QED BY <1>8, <3>1, <3>2, <3>3 DEF GateHeld
  <2> QED BY <2>1, <2>2
<1>10. WorkTypeOK' BY <1>2, <1>3, <1>8, <1>9 DEF WorkTypeOK, host
<1> QED BY <1>5, <1>6, <1>7, <1>9, <1>10

\* A client that returns its permit, and leaves the gate if it had it.
LEMMA ReturnKeeps ==
  ASSUME WorkInv, NEW c \in Background, NEW p \in Final \cup (IF c = Pipe THEN {"converting"} ELSE {}),
         at[c] \in Holding, at' = [at EXCEPT ![c] = p], Release(c),
         gate' = IF gate = c THEN Nobody ELSE gate, UNCHANGED <<round, seen, host>>
  PROVE  WorkInv'
<1> USE DEF WorkInv
<1>1. c \in Clients /\ c \notin Reads BY Standing
<1>2. /\ p \in Stands(c) /\ p \notin Waiting \cup Holding \cup {"gated"} /\ at[c] \notin Waiting /\ at[c] # "converting"
  BY <1>1, Standing DEF Waiting, Holding, Final
<1>3. UNCHANGED waiting /\ UNCHANGED foreground BY DEF Release
<1>4. PermitsCounted' /\ background' \in Nat /\ bulk_io' \in Nat BY <1>2, CountsRelease
<1>5. TicketsDrawn' BY <1>1, <1>2, <1>3, TicketsStay
<1>6. GateHeld' BY <1>1, <1>2, GateLeft
<1>7. NothingNested' BY <1>1, <1>2, NestingStays
<1>8. DOMAIN at' = Clients /\ \A d \in Clients : at'[d] \in Stands(d) BY <1>1, <1>2, Moves
<1>9. gate' \in Clients \cup {Nobody} BY DEF WorkTypeOK
<1>10. WorkTypeOK' BY <1>3, <1>4, <1>8, <1>9 DEF WorkTypeOK, host
<1> QED BY <1>4, <1>5, <1>6, <1>7, <1>10

\* The Office workers were joined: none of them waits or works.
LEMMA JoinedKeeps ==
  ASSUME WorkInv, Converted
  PROVE  WorkInv'
<1> USE DEF WorkInv
<1>1. /\ at[Pipe] = "converting" /\ (\A c \in Offices : at[c] \in Final) /\ at' = [at EXCEPT ![Pipe] = "start"]
      /\ round' = 2 /\ UNCHANGED <<governor, seen, host, gate>>
  BY DEF Converted
<1>2. UNCHANGED <<waiting, foreground, background, bulk_io>> BY <1>1 DEF governor
<1>3. /\ Pipe \in Clients /\ Pipe \notin Reads /\ "start" \in Stands(Pipe)
      /\ "start" \notin Waiting \cup Holding \cup {"gated"} /\ at[Pipe] \notin Waiting \cup Holding \cup {"gated"}
  BY <1>1, Standing DEF Waiting, Holding
<1>4. PermitsCounted' BY <1>1, <1>2, <1>3, CountsStay
<1>5. TicketsDrawn' BY <1>1, <1>2, <1>3, TicketsStay
<1>6. GateHeld' BY <1>1, <1>3, GateStays
<1>7. /\ DOMAIN at' = Clients /\ \A d \in Clients : at'[d] \in Stands(d)
      /\ \A d \in Clients : d # Pipe => at'[d] = at[d]
  BY <1>1, <1>3, Moves
<1>8. NothingNested'
  <2>1. \A c \in Offices : at'[c] \in Final BY <1>1, <1>7, Standing
  <2>2. Final \cap (Waiting \cup Holding) = {} BY DEF Final, Waiting, Holding
  <2> QED BY <2>1, <2>2 DEF NothingNested
<1>9. WorkTypeOK' BY <1>1, <1>2, <1>7 DEF WorkTypeOK, host
<1> QED BY <1>4, <1>5, <1>6, <1>8, <1>9

LEMMA WorkInvStep == WorkInv /\ [WorkNext]_shared => WorkInv'
<1> SUFFICES ASSUME WorkInv, [WorkNext]_shared PROVE WorkInv' OBVIOUS
<1>1. ASSUME NEW c \in Clients, Step(c) PROVE WorkInv'
  <2>1. CASE Request(c) \/ ProbeHost(c) \/ Defer(c) BY <2>1, AskingKeeps
  <2>2. CASE Grant(c) BY <2>2, GrantKeeps
  <2>3. CASE StartRead(c) \/ Publish(c) BY <2>3, ReadKeeps
  <2>4. CASE EnterGate(c) BY <2>4, GateKeeps
  <2>5. CASE Work(c)
    <3>1. /\ c \in Background /\ c # Pipe /\ at[c] = "holding" /\ at' = [at EXCEPT ![c] = "done"] /\ Release(c)
          /\ UNCHANGED <<round, seen, host, gate>>
      BY <2>5, Standing, BudgetAssumption DEF Work
    <3>2. gate # c BY <3>1, Standing DEF WorkInv, GateHeld
    <3>3. "done" \in Final /\ at[c] \in Holding BY <3>1 DEF Final, Holding
    <3> QED BY <3>1, <3>2, <3>3, ReturnKeeps
  <2> QED BY <1>1, <2>1, <2>2, <2>3, <2>4, <2>5 DEF Step
<1>2. CASE PipeStep
  <2>1. CASE LeaveGate BY <2>1, Standing, GateKeeps
  <2>2. CASE Convert
    <3>1. /\ at[Pipe] = "gateless" /\ at' = [at EXCEPT ![Pipe] = "converting"] /\ Release(Pipe)
          /\ UNCHANGED <<round, seen, host, gate>>
      BY <2>2 DEF Convert
    <3>2. gate # Pipe BY <3>1, Standing DEF WorkInv, GateHeld
    <3>3. at[Pipe] \in Holding BY <3>1 DEF Holding
    <3> QED BY <3>1, <3>2, <3>3, Standing, ReturnKeeps
  <2>3. CASE Converted BY <2>3, JoinedKeeps
  <2>4. CASE Audited
    <3>1. /\ at[Pipe] = "gated" /\ gate' = Nobody /\ at' = [at EXCEPT ![Pipe] = "done"] /\ Release(Pipe)
          /\ UNCHANGED <<round, seen, host>>
      BY <2>4 DEF Audited
    <3>2. gate = Pipe BY <3>1, Standing DEF WorkInv, GateHeld
    <3>3. "done" \in Final /\ at[Pipe] \in Holding BY <3>1 DEF Final, Holding
    <3> QED BY <3>1, <3>2, <3>3, Standing, ReturnKeeps
  <2> QED BY <1>2, <2>1, <2>2, <2>3, <2>4 DEF PipeStep
\* The computer runs short, or no longer, or nothing happens.
<1>3. CASE Shortage \/ UNCHANGED shared
  <2>1. UNCHANGED <<at, round, governor, seen, gate>> BY <1>3 DEF Shortage, shared
  <2>2. UNCHANGED <<waiting, foreground, background, bulk_io>> BY <2>1 DEF governor
  <2>3. scarce' \in BOOLEAN /\ shortages' \in 0 .. MaxScarce
    <3>1. MaxScarce \in Nat BY BudgetAssumption
    <3>2. scarce \in BOOLEAN /\ shortages \in 0 .. MaxScarce BY DEF WorkInv, WorkTypeOK
    <3>3. CASE Shortage
      <4>1. scarce' \in BOOLEAN BY <3>3, Zenon DEF Shortage
      <4>2. (shortages < MaxScarce /\ shortages' = shortages + 1) \/ shortages' = shortages
        BY <3>3, Zenon DEF Shortage
      <4>3. shortages' \in 0 .. MaxScarce BY <3>1, <3>2, <4>2
      <4> QED BY <4>1, <4>3
    <3>4. CASE UNCHANGED shared BY <3>2, <3>4 DEF shared, host
    <3> QED BY <1>3, <3>3, <3>4
  <2>4. WorkTypeOK' BY <2>1, <2>2, <2>3 DEF WorkInv, WorkTypeOK
  <2>5. PermitsCounted'
    BY <2>1, <2>2 DEF WorkInv, PermitsCounted, ReadsAdmitted, Admitted, BulkAdmitted, Bulk, Slots
  <2>6. TicketsDrawn' /\ GateHeld' /\ NothingNested' BY <2>1, <2>2 DEF WorkInv, TicketsDrawn, GateHeld, NothingNested
  <2> QED BY <2>4, <2>5, <2>6 DEF WorkInv
<1>4. ASSUME NEW c \in Clients, GiveUp(c) \/ ReadFails(c) \/ WorkFails(c) PROVE WorkInv'
  <2>1. CASE GiveUp(c) BY <2>1, AskingKeeps
  <2>2. CASE ReadFails(c) BY <2>2, ReadKeeps
  <2>3. CASE WorkFails(c)
    <3>1. /\ c \in Background /\ at[c] \in Holding /\ at' = [at EXCEPT ![c] = "failed"] /\ Release(c)
          /\ gate' = (IF gate = c THEN Nobody ELSE gate) /\ UNCHANGED <<round, seen, host>>
      BY <2>3 DEF WorkFails
    <3>2. "failed" \in Final BY DEF Final
    <3> QED BY <3>1, <3>2, ReturnKeeps
  <2> QED BY <1>4, <2>1, <2>2, <2>3
<1> QED BY <1>1, <1>2, <1>3, <1>4 DEF WorkNext, Progress

\* Whoever works, waits, fails or gives up, in whatever order: the governor's
\* counters are the numbers of the permits that are held, and never exceed its
\* slots; a ticket is drawn exactly for those that wait (src/resource_budget.rs,
\* Governor::background and the two drops).
THEOREM AdmissionIsCounted == WorkSpec => [](WorkTypeOK /\ PermitsCounted /\ TicketsDrawn)
<1>1. WorkInv => WorkTypeOK /\ PermitsCounted /\ TicketsDrawn BY DEF WorkInv
<1> QED BY WorkInvInit, WorkInvStep, <1>1, PTL DEF WorkSpec

\* One at a time is in the snapshot gate, and no Office worker runs while the
\* pipeline that waits for it has a permit or asks for one (src/project_work.rs,
\* snapshot; src/pipeline.rs, run_pipeline_mode).
THEOREM NothingIsNested == WorkSpec => [](GateHeld /\ NothingNested)
<1>1. WorkInv => GateHeld /\ NothingNested BY DEF WorkInv
<1> QED BY WorkInvInit, WorkInvStep, <1>1, PTL DEF WorkSpec

\* A client that can go on without another's doing and without a timeout.
Goes(c) ==
  \/ at[c] = "start" /\ MayStart(c)
  \/ at[c] \in Waiting /\ ~Deferred(c)
  \/ (at[c] = "reading" \/ (c = Pipe /\ at[c] = "holding")) /\ gate = Nobody
  \/ c # Pipe /\ at[c] = "holding"
  \/ at[c] \in {"gated", "gateless"}
  \/ at[c] = "converting" /\ \A o \in Offices : at[o] \in Final
SomebodyGoes == AllFinal \/ \E c \in Clients : Goes(c)

\* Numbers below a bound have a least: the intervals that end in them are
\* ordered by inclusion.
LEMMA FirstOf ==
  ASSUME NEW N \in Nat, NEW A, A \subseteq 0 .. N, A # {}
  PROVE \E x \in A : \A y \in A : x <= y
<1> DEFINE S == 0 .. N
           T == {0 .. n : n \in A}
           R == StrictSubsetOrdering(S)
<1>1. IsWellFoundedOn(R, SUBSET S)
  <2>1. IsFiniteSet(S) BY FS_Interval
  <2> QED BY <2>1, FS_StrictSubsetOrderingWellFounded, FS_FiniteSubsetsOfFinite
<1>2. T \subseteq SUBSET S /\ T # {}
  <2>1. \A n \in A : 0 .. n \in SUBSET (0 .. N) OBVIOUS
  <2> QED BY <2>1
<1> HIDE DEF T, R
<1>3. PICK X \in T : \A Y \in T : ~ (<<Y, X>> \in R) BY <1>1, <1>2, WFMin
<1> USE DEF T, R
<1>4. PICK x \in A : X = 0 .. x OBVIOUS
<1>5. ASSUME NEW y \in A, y < x PROVE FALSE
  <2>1. x \in X /\ x \notin 0 .. y /\ 0 .. y \subseteq X BY <1>4, <1>5
  <2>2. 0 .. y \in T /\ 0 .. y # X BY <2>1
  <2>3. <<0 .. y, X>> \in R BY <2>1, <2>2, <1>2, <1>3 DEF StrictSubsetOrdering
  <2> QED BY <1>3, <2>2, <2>3
<1> QED BY <1>5

\* When no permit is held, whoever has the first ticket of the most urgent kind
\* is not deferred.
LEMMA FirstIsAdmitted ==
  ASSUME WorkInv, background = 0, bulk_io = 0, waiting # <<>>
  PROVE  \E c \in Clients : at[c] \in Waiting /\ ~Deferred(c)
<1>1. waiting \in Seq(Background) /\ Len(waiting) \in Nat /\ DOMAIN waiting = 1 .. Len(waiting) /\ DOMAIN waiting # {}
  <2>1. waiting \in Seq(Background) BY DEF WorkInv, WorkTypeOK
  <2> QED BY <2>1
<1> DEFINE kinds == {Kind(waiting[i]) : i \in DOMAIN waiting}
<1>2. kinds \subseteq 0 .. 2 /\ kinds # {} BY <1>1 DEF Kind
<1>3. PICK k \in kinds : \A l \in kinds : k <= l
  <2> HIDE DEF kinds
  <2> QED BY <1>2, FirstOf
<1> DEFINE urgent == {i \in DOMAIN waiting : Kind(waiting[i]) = k}
<1>4. urgent \subseteq 0 .. Len(waiting) /\ urgent # {} BY <1>1, <1>3
<1>5. PICK i \in urgent : \A j \in urgent : i <= j
  <2> HIDE DEF urgent
  <2> QED BY <1>1, <1>4, FirstOf
<1>6. PICK c : c = waiting[i] OBVIOUS
<1>7. c \in Clients /\ at[c] \in Waiting BY <1>1, <1>6, Standing DEF WorkInv, TicketsDrawn
<1>8. Ticket(c) = i
  <2>1. \A m \in DOMAIN waiting : waiting[m] = c => m = i BY <1>6 DEF WorkInv, TicketsDrawn
  <2> QED BY <1>6, <2>1 DEF Ticket
<1>9. \A j \in DOMAIN waiting : k <= Kind(waiting[j]) BY <1>3
<1>10. Kind(c) = k BY <1>6
<1>11. k \in Nat /\ i \in Nat BY <1>1, <1>2, <1>3
<1>12. ASSUME NEW j \in DOMAIN waiting PROVE ~(Kind(waiting[j]) < Kind(c)) /\ ~(Kind(waiting[j]) = Kind(c) /\ j < Ticket(c))
  <2>1. Kind(waiting[j]) \in Nat /\ j \in Nat BY <1>1 DEF Kind
  <2>2. ~(Kind(waiting[j]) < Kind(c)) BY <1>9, <1>10, <1>11, <2>1
  <2>3. Kind(waiting[j]) = Kind(c) => i <= j BY <1>5, <1>10
  <2> QED BY <1>8, <1>11, <2>1, <2>2, <2>3
<1>13. ~(background >= Slots(foreground)) BY BudgetAssumption DEF Slots, WorkInv, WorkTypeOK
<1>14. ~Deferred(c) BY <1>12, <1>13 DEF Deferred
<1> QED BY <1>7, <1>14

\* Unless everybody is through, somebody can go on, and needs neither a timeout
\* nor a failure of another for it, as soon as the computer is not short: there
\* is no deadlock between slots, bulk slot, tickets, gate and joined workers
\* (src/resource_budget.rs, slot_reason; src/project_work.rs, snapshot).
THEOREM NoDeadlockOfResources == WorkSpec => []SomebodyGoes
<1>1. WorkInv => SomebodyGoes
  <2> SUFFICES ASSUME WorkInv, \A c \in Clients : ~Goes(c) PROVE AllFinal BY DEF SomebodyGoes
  <2>1. \A c \in Clients : at[c] \in Stands(c) BY DEF WorkInv, WorkTypeOK
  <2>2. \A c \in Clients : at[c] # "gated" BY DEF Goes
  <2>3. gate = Nobody BY <2>2 DEF WorkInv, WorkTypeOK, GateHeld
  <2>4. \A c \in Clients : at[c] \notin Holding \cup Reader BY <2>2, <2>3 DEF Goes, Holding, Reader
  <2>5. Admitted = {} /\ BulkAdmitted = {} BY <2>4, Standing DEF Admitted, BulkAdmitted
  <2>6. background = 0 /\ bulk_io = 0 BY <2>5, FS_EmptySet DEF WorkInv, PermitsCounted
  <2>7. \A c \in Clients : at[c] \notin Waiting
    <3>1. waiting = <<>> BY <2>6, FirstIsAdmitted DEF Goes
    <3> QED BY <3>1 DEF WorkInv, TicketsDrawn
  <2>8. \A c \in Clients : at[c] \in {"start", "converting"} \cup Final
    BY <2>1, <2>4, <2>7 DEF Stands, Reader, Waiting, Holding
  <2>9. \A c \in Clients \ {Pipe} : at[c] # "converting" BY <2>1 DEF Stands, Final, Waiting
  <2>10. \A c \in Clients : at[c] = "start" => c \in Offices /\ at[Pipe] # "converting" BY DEF Goes, MayStart
  <2>11. at[Pipe] # "converting"
    <3>1. SUFFICES ASSUME at[Pipe] = "converting" PROVE FALSE OBVIOUS
    <3>2. \A o \in Offices : at[o] \in Final BY <2>8, <2>9, <2>10, <3>1, Standing DEF Clients
    <3> QED BY <3>1, <3>2, Standing DEF Goes
  <2>12. \A c \in Clients : at[c] \in Final \/ (at[c] = "start" /\ c \in Offices) BY <2>8, <2>9, <2>10, <2>11
  <2>13. Offices \subseteq Clients BY DEF Clients
  <2> QED BY <2>12, <2>13 DEF AllFinal
<1> QED BY WorkInvInit, WorkInvStep, <1>1, PTL DEF WorkSpec
=============================================================================
