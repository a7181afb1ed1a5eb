------------------------------ MODULE Processing ------------------------------
(***************************************************************************)
(* The background processing queue (src/processing.rs).  A producer writes *)
(* one durable task file per sealed image and wakes the worker through a   *)
(* channel of one slot; the worker reads the task files, verifies and runs *)
(* what is pending as one batch and records the outcome file by file.      *)
(* finish() sets the drain flag, closes the channel and joins; dropping    *)
(* the queue cancels instead.  Task files survive the process, everything  *)
(* else is lost with it.                                                   *)
(*                                                                         *)
(* The image files a task is verified against are not modelled: a          *)
(* verification succeeds or fails, and so does a run of the pipeline.      *)
(* A fault is an I/O error of the worker's own bookkeeping; it is reported *)
(* in the outcome.                                                         *)
(***************************************************************************)
EXTENDS Naturals, FiniteSets

CONSTANT Tasks   \* one per acquisition attempt that may be sealed

VARIABLES
  status,     \* task -> its file's status on disk, "none" before it is written
  producer,   \* the owning thread
  saved,      \* the producer still has to wake the worker for a task it saved
  drain, cancel, stop,   \* the queue's two flags, and the session's token
  wake, open,           \* the wake channel: its one slot, and its sender
  pc,         \* the worker
  pending,    \* the worker's last reading of the task files, what is left of it
  attempted,  \* tasks this worker has taken up
  batch,      \* tasks of the current run, then those left to record
  result,     \* outcome of the current run
  faulted     \* the worker's outcome reports an error of its bookkeeping

volatile == <<saved, drain, cancel, stop, wake, open, pc, pending, attempted,
              batch, result, faulted>>
queueVars == <<status, producer, volatile>>

Statuses == {"none", "queued", "processing", "failed", "processed", "attention"}
Done     == {"processed", "attention"}
Pending(j) == status[j] \in {"queued", "processing", "failed"}

ProcessingTypeOK ==
  /\ status \in [Tasks -> Statuses]
  /\ producer \in {"off", "feeding", "closing", "joining", "joined"}
  /\ pc \in {"none", "top", "idle", "recheck", "wait", "validate", "run", "record", "stopped"}
  /\ {saved, drain, cancel, stop, wake, open, faulted} \subseteq BOOLEAN
  /\ pending \subseteq Tasks /\ attempted \subseteq Tasks
  /\ batch \subseteq attempted
  /\ result \in {"none", "ok", "error"}

-----------------------------------------------------------------------------
(* The producer. *)

StartQueue ==
  /\ producer = "off"
  /\ producer' = "feeding"
  /\ pc' = "top"
  /\ open' = TRUE
  /\ UNCHANGED <<status, saved, drain, cancel, stop, wake, pending, attempted, batch,
                 result, faulted>>

\* (mutant) an existing task file is written again.
EnqueueAgain(j) ==
  /\ producer = "feeding" /\ ~saved
  /\ status' = [status EXCEPT ![j] = "queued"]
  /\ saved' = TRUE
  /\ UNCHANGED <<producer, drain, cancel, stop, wake, open, pc, pending, attempted,
                 batch, result, faulted>>

\* enqueue_attempt: a task file that exists is kept as it is.
Enqueue(j) ==
  /\ producer = "feeding" /\ ~saved
  /\ status' = [status EXCEPT ![j] = IF @ = "none" THEN "queued" ELSE @]
  /\ saved' = TRUE
  /\ UNCHANGED <<producer, drain, cancel, stop, wake, open, pc, pending, attempted,
                 batch, result, faulted>>

\* try_send: a wake-up that finds the slot taken is dropped.
Wake ==
  /\ saved
  /\ saved' = FALSE
  /\ wake' = TRUE
  /\ UNCHANGED <<status, producer, drain, cancel, stop, open, pc, pending, attempted,
                 batch, result, faulted>>

\* finish() drains, drop() cancels; then the channel is closed.
Finish ==
  /\ producer = "feeding" /\ ~saved
  /\ producer' = "closing"
  /\ \/ drain' = TRUE /\ UNCHANGED cancel
     \/ cancel' = TRUE /\ UNCHANGED drain
  /\ UNCHANGED <<status, saved, stop, wake, open, pc, pending, attempted, batch,
                 result, faulted>>

Close ==
  /\ producer = "closing"
  /\ producer' = "joining"
  /\ open' = FALSE
  /\ UNCHANGED <<status, saved, drain, cancel, stop, wake, pc, pending, attempted,
                 batch, result, faulted>>

Join ==
  /\ producer = "joining" /\ pc = "stopped"
  /\ producer' = "joined"
  /\ UNCHANGED <<status, volatile>>

\* record_final: the audit at the end of the session updates finished tasks.
RecordFinal ==
  /\ producer = "joined" /\ ~stop
  /\ status' \in {new \in [Tasks -> Statuses] : \A j \in Tasks :
       IF status[j] \in Done THEN new[j] \in Done ELSE new[j] = status[j]}
  /\ UNCHANGED <<producer, volatile>>

RequestStop ==
  /\ producer # "off" /\ ~stop
  /\ stop' = TRUE
  /\ UNCHANGED <<status, producer, saved, drain, cancel, wake, open, pc, pending,
                 attempted, batch, result, faulted>>

\* The process ends or is killed; only the task files stay.
Exit ==
  /\ producer # "off"
  /\ producer' = "off" /\ pc' = "none"
  /\ saved' = FALSE /\ drain' = FALSE /\ cancel' = FALSE /\ stop' = FALSE
  /\ wake' = FALSE /\ open' = FALSE
  /\ pending' = {} /\ attempted' = {} /\ batch' = {}
  /\ result' = "none" /\ faulted' = FALSE
  /\ UNCHANGED status

-----------------------------------------------------------------------------
(* The worker. *)

Producing == <<producer, saved, drain, cancel, stop, open>>

Top ==
  /\ pc = "top"
  /\ IF cancel \/ stop THEN pc' = "stopped" /\ UNCHANGED pending
     ELSE /\ pending' = {j \in Tasks : Pending(j) /\ j \notin attempted}
          /\ pc' = IF pending' = {} THEN "idle" ELSE "validate"
  /\ UNCHANGED <<status, Producing, wake, attempted, batch, result, faulted>>

\* (mutant) the reading that found nothing decides, also when draining.
IdleFinal ==
  /\ pc = "idle"
  /\ pc' = IF drain THEN "stopped" ELSE "wait"
  /\ UNCHANGED <<status, Producing, wake, pending, attempted, batch, result, faulted>>

\* Nothing pending: the drain flag is read after the task files.
Idle ==
  /\ pc = "idle"
  /\ pc' = IF drain THEN "recheck" ELSE "wait"
  /\ UNCHANGED <<status, Producing, wake, pending, attempted, batch, result, faulted>>

Recheck ==
  /\ pc = "recheck"
  /\ pc' = IF \E j \in Tasks : Pending(j) /\ j \notin attempted THEN "top" ELSE "stopped"
  /\ UNCHANGED <<status, Producing, wake, pending, attempted, batch, result, faulted>>

\* recv_timeout: a wake-up, 5 seconds, or a closed and empty channel.
Wait ==
  /\ pc = "wait"
  /\ \/ wake /\ wake' = FALSE /\ pc' = "top"
     \/ ~wake /\ open /\ pc' = "top" /\ UNCHANGED wake
     \/ ~wake /\ ~open /\ pc' = "stopped" /\ UNCHANGED wake
  /\ UNCHANGED <<status, Producing, pending, attempted, batch, result, faulted>>

\* (mutant) a session does not remember what it tried.
ValidateAgain(j) ==
  /\ pc = "validate" /\ j \in pending
  /\ pending' = pending \ {j}
  /\ \/ status' = [status EXCEPT ![j] = "processing"] /\ batch' = batch \cup {j}
     \/ status' = [status EXCEPT ![j] = "failed"] /\ UNCHANGED batch
  /\ UNCHANGED <<Producing, wake, pc, result, attempted, faulted>>

\* One task of the reading: its image binding holds, or the task fails.
Validate(j) ==
  /\ pc = "validate" /\ j \in pending
  /\ pending' = pending \ {j}
  /\ attempted' = attempted \cup {j}
  /\ \/ status' = [status EXCEPT ![j] = "processing"] /\ batch' = batch \cup {j}
     \/ status' = [status EXCEPT ![j] = "failed"] /\ UNCHANGED batch
  /\ UNCHANGED <<Producing, wake, pc, result, faulted>>

Validated ==
  /\ pc = "validate" /\ pending = {}
  /\ pc' = IF batch = {} THEN "top" ELSE "run"
  /\ UNCHANGED <<status, Producing, wake, pending, attempted, batch, result, faulted>>

Run ==
  /\ pc = "run"
  /\ pc' = "record"
  /\ result' \in {"ok", "error"}
  /\ UNCHANGED <<status, Producing, wake, pending, attempted, batch, faulted>>

\* Each task of the batch gets its status; one that cannot be written is reported.
Record(j) ==
  /\ pc = "record" /\ j \in batch
  /\ batch' = batch \ {j}
  /\ \/ /\ status' \in {[status EXCEPT ![j] = s] : s \in IF result = "ok" THEN Done ELSE {"failed"}}
        /\ UNCHANGED faulted
     \/ faulted' = TRUE /\ UNCHANGED status
  /\ UNCHANGED <<Producing, wake, pc, pending, attempted, result>>

Recorded ==
  /\ pc = "record" /\ batch = {}
  /\ pc' = "top"
  /\ result' = "none"
  /\ UNCHANGED <<status, Producing, wake, pending, attempted, batch, faulted>>

\* Task files or the status file cannot be read or written, or the worker
\* panics: it ends, and the outcome says so.
Fault ==
  /\ pc \in {"top", "idle", "recheck", "validate", "run", "record"}
  /\ pc' = "stopped"
  /\ faulted' = TRUE
  /\ UNCHANGED <<status, Producing, wake, pending, attempted, batch, result>>

-----------------------------------------------------------------------------
QueueInit ==
  /\ status = [j \in Tasks |-> "none"]
  /\ producer = "off" /\ pc = "none"
  /\ saved = FALSE /\ drain = FALSE /\ cancel = FALSE /\ stop = FALSE
  /\ wake = FALSE /\ open = FALSE
  /\ pending = {} /\ attempted = {} /\ batch = {}
  /\ result = "none" /\ faulted = FALSE

Worker ==
  \/ Top \/ Idle \/ Recheck \/ Wait \/ Validated \/ Run \/ Recorded \/ Fault
  \/ \E j \in Tasks : Validate(j) \/ Record(j)

Producer ==
  \/ StartQueue \/ Wake \/ Finish \/ Close \/ Join \/ RecordFinal \/ RequestStop \/ Exit
  \/ \E j \in Tasks : Enqueue(j)

QueueNext == Worker \/ Producer

QueueSpec == QueueInit /\ [][QueueNext]_queueVars

\* Both threads run: a verification and a pipeline run end (their tools have
\* time limits), and a producer that began to finish goes on to the join.
FairQueueSpec == QueueSpec /\ WF_queueVars(Worker) /\ WF_queueVars(Close) /\ WF_queueVars(Join)

-----------------------------------------------------------------------------
(* Properties. *)

Unfinished(j) == status[j] \in {"queued", "processing", "failed"}

\* A queue that was finished, not cancelled, and reports no error took up every
\* task that was enqueued before the finish, also one saved while the worker
\* was finding nothing to do, and also one that a crash left half processed.
DrainLeavesNothing ==
  pc = "stopped" /\ drain /\ ~cancel /\ ~stop /\ ~faulted =>
    \A j \in Tasks : Unfinished(j) => j \in attempted

\* A worker that waits has a wake-up coming for every task it has not taken up:
\* the five-second timeout is not needed, and closing the channel loses nothing.
NoLostWakeup ==
  pc = "wait" /\ (\E j \in Tasks : Unfinished(j) /\ j \notin attempted) => wake \/ saved

\* A finished task is never taken up again, by no replay and no restart.
FinishedStays == [][\A j \in Tasks : status[j] \in Done => status'[j] \in Done]_queueVars

\* finish() and drop() return: a failing task is not retried within a session.
FinishEnds == producer \in {"closing", "joining"} ~> producer \in {"joined", "off"}

=============================================================================
