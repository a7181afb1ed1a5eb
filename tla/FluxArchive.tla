------------------------------ MODULE FluxArchive ------------------------------
(***************************************************************************)
(* Lossless storage of finished captures (src/flux_archive.rs) and its     *)
(* scratch directories (src/flux_storage_work.rs).  A capture is kept raw, *)
(* or packed: an archive and the sidecar that binds it to the original     *)
(* bytes.  Packing publishes the archive, then the sidecar, verifies the   *)
(* pair and only then retires the raw file.  It runs under the capture's   *)
(* exclusive file lock, which is tried and never waited for; whoever reads *)
(* a capture holds the lock shared, and waits for it.                      *)
(*                                                                         *)
(* One worker per project packs what durable task files name; an operator  *)
(* may pack at the same time from another process.  Every process may be   *)
(* killed at any step: its locks go with it, its scratch stays.  A file    *)
(* may be damaged at any step, except between the last verification of a   *)
(* capture and the removal of its raw file, which are one step here.       *)
(***************************************************************************)
EXTENDS Naturals, FiniteSets

CONSTANTS
  Captures,
  Worker,      \* the packing worker of the queue
  Operators,   \* `fv storage pack`, each a process of its own
  Readers,     \* decoders, each a process of its own
  MaxDamage,   \* how many files may go bad
  Nobody       \* the owner of scratch whose process ended; no capture

ASSUME ArchiveAssumption ==
  /\ Worker \notin Operators /\ Nobody \notin {Worker} \cup Operators \cup Readers
  /\ ({Worker} \cup Operators) \cap Readers = {}
  /\ Nobody \notin Captures
  /\ MaxDamage \in Nat

Packers == {Worker} \cup Operators

VARIABLES
  raw, zip, meta,   \* capture -> its three files
  scratch,          \* scratch directories: whose, and of which capture
  tasks,            \* captures with a durable task file
  step, target, retire,   \* packer -> where it stands, on what, --retire-raw
  reading, source,        \* reader -> where it stands, the capture it opened
  producer, finish, token, open,   \* the queue's owner, its flag, its channel
  calling, given,   \* where the owner's call of enqueue stands, its capture
  pc, draining, listed, attempted, todo, errors, stop,  \* the queue's worker
  entrusted,        \* history: captures whose enqueue succeeded
  struck,           \* history: captures whose only intact copy was damaged
  damage            \* how many files went bad

files     == <<raw, zip, meta>>
packing   == <<step, target, retire>>
readers   == <<reading, source>>
call      == <<calling, given>>
queue     == <<call, producer, finish, token, open, pc, draining, listed,
               attempted, todo, errors, stop>>
history   == <<entrusted, struck, damage>>
vars == <<files, scratch, tasks, packing, readers, queue, history>>

File == {"none", "good", "bad"}
Working == {"checked", "building", "built", "bound", "paired"}   \* under the lock

ArchiveTypeOK ==
  /\ raw \in [Captures -> File] /\ zip \in [Captures -> File] /\ meta \in [Captures -> File]
  /\ scratch \subseteq [of : Packers \cup Readers \cup {Nobody}, capture : Captures]
  /\ tasks \subseteq Captures
  /\ step \in [Packers -> {"idle", "asked", "done", "failed"} \cup Working]
  /\ target \in [Packers -> Captures \cup {Nobody}] /\ retire \in [Packers -> BOOLEAN]
  /\ reading \in [Readers -> {"idle", "unpacking", "raw", "copy"}]
  /\ source \in [Readers -> Captures \cup {Nobody}]
  /\ producer \in {"off", "feeding", "closing", "joining", "joined"}
  /\ calling \in {"none", "verify", "find", "write", "wake"}
  /\ given \in Captures \cup {Nobody}
  /\ pc \in {"none", "cleanup", "top", "list", "chosen", "pack", "wait", "stopped"}
  /\ finish \in BOOLEAN /\ token \in BOOLEAN /\ open \in BOOLEAN
  /\ draining \in BOOLEAN /\ errors \in BOOLEAN /\ stop \in BOOLEAN
  /\ listed \subseteq Captures /\ attempted \subseteq Captures /\ todo \subseteq Captures
  /\ entrusted \subseteq Captures /\ struck \subseteq Captures
  /\ damage \in 0..MaxDamage
  /\ \A p \in Packers : step[p] = "idle" <=> target[p] = Nobody
  /\ \A r \in Readers : reading[r] = "idle" <=> source[r] = Nobody
  /\ calling = "none" <=> given = Nobody
  /\ calling # "none" => producer = "feeding"
  /\ pc = "none" <=> producer = "off"
  /\ pc = "pack" <=> step[Worker] # "idle"
  /\ pc = "pack" => retire[Worker] /\ target[Worker] \in attempted

-----------------------------------------------------------------------------
(* Files and locks. *)

\* record + unpack: the published pair binds and restores the original bytes.
PairGood(c) == meta[c] = "good" /\ zip[c] = "good"

\* verify_unlocked
Verifies(c) == /\ meta[c] = "none" \/ PairGood(c)
               /\ raw[c] # "bad"
               /\ raw[c] = "none" => meta[c] # "none"

Exclusive(c) == \E p \in Packers : step[p] \in Working /\ target[p] = c
Shared(c)    == \E r \in Readers : reading[r] # "idle" /\ source[r] = c

\* A verified copy of the capture from which the program can restore it.
Intact(c) == raw[c] = "good" \/ PairGood(c)

\* The raw file is retired and the sidecar names the archive.
PackedOnly(c) == raw[c] = "none" /\ meta[c] # "none"

\* Work::drop
Without(owner) == {s \in scratch : s.of # owner}

-----------------------------------------------------------------------------
(* Packing one capture: pack_inner. *)

\* pack: resources are admitted before the lock is tried.
Ask(p, c, r) ==
  /\ step[p] = "idle"
  /\ step' = [step EXCEPT ![p] = "asked"]
  /\ target' = [target EXCEPT ![p] = c]
  /\ retire' = [retire EXCEPT ![p] = r]

\* The packer is through with its capture.
Forget(p) ==
  /\ step' = [step EXCEPT ![p] = "idle"]
  /\ target' = [target EXCEPT ![p] = Nobody]
  /\ retire' = [retire EXCEPT ![p] = FALSE]

\* (mutant) the lock is not tried.
LockAnyway(p) ==
  LET c == target[p] IN
  /\ step[p] = "asked"
  /\ IF Verifies(c)
       THEN /\ step' = [step EXCEPT ![p] = "checked"]
            /\ scratch' = {s \in scratch : s.capture # c}
       ELSE /\ step' = [step EXCEPT ![p] = "failed"]
            /\ UNCHANGED scratch
  /\ UNCHANGED <<files, tasks, target, retire, readers, queue, history>>

\* A busy capture is an error; so is one that does not verify.  Abandoned
\* scratch is pruned only after the verification.
LockAndCheck(p) ==
  LET c == target[p] IN
  /\ step[p] = "asked"
  /\ IF ~Exclusive(c) /\ ~Shared(c) /\ Verifies(c)
       THEN /\ step' = [step EXCEPT ![p] = "checked"]
            /\ scratch' = {s \in scratch : s.capture # c}
       ELSE /\ step' = [step EXCEPT ![p] = "failed"]
            /\ UNCHANGED scratch
  /\ UNCHANGED <<files, tasks, target, retire, readers, queue, history>>

\* A published sidecar goes straight to the verification of its pair.
Begin(p) ==
  LET c == target[p] IN
  /\ step[p] = "checked"
  /\ IF meta[c] # "none"
       THEN step' = [step EXCEPT ![p] = "bound"] /\ UNCHANGED scratch
       ELSE /\ step' = [step EXCEPT ![p] = "building"]
            /\ scratch' = scratch \cup {[of |-> p, capture |-> c]}
  /\ UNCHANGED <<files, tasks, target, retire, readers, queue, history>>

\* The archive is written and verified in scratch, then published; one that
\* an interrupted packing published is kept.
Build(p) ==
  LET c == target[p] IN
  /\ step[p] = "building"
  /\ IF zip[c] # "none" THEN step' = [step EXCEPT ![p] = "built"] /\ UNCHANGED zip
     ELSE IF raw[c] = "good"
       THEN step' = [step EXCEPT ![p] = "built"] /\ zip' = [zip EXCEPT ![c] = "good"]
       ELSE step' = [step EXCEPT ![p] = "failed"] /\ UNCHANGED zip
  /\ UNCHANGED <<raw, meta, scratch, tasks, target, retire, readers, queue, history>>

\* The published archive is unpacked again before the sidecar names its hash.
Bind(p) ==
  LET c == target[p] IN
  /\ step[p] = "built"
  /\ IF zip[c] = "good"
       THEN step' = [step EXCEPT ![p] = "bound"] /\ meta' = [meta EXCEPT ![c] = "good"]
       ELSE step' = [step EXCEPT ![p] = "failed"] /\ UNCHANGED meta
  /\ UNCHANGED <<raw, zip, scratch, tasks, target, retire, readers, queue, history>>

\* The published pair is opened again.
CheckPair(p) ==
  /\ step[p] = "bound"
  /\ step' = [step EXCEPT ![p] = IF PairGood(target[p]) THEN "paired" ELSE "failed"]
  /\ UNCHANGED <<files, scratch, tasks, target, retire, readers, queue, history>>

\* (mutant) the raw file is removed without a last verification.
RetireUnverified(p) ==
  LET c == target[p] IN
  /\ step[p] = "paired"
  /\ step' = [step EXCEPT ![p] = "done"]
  /\ raw' = IF retire[p] THEN [raw EXCEPT ![c] = "none"] ELSE raw
  /\ scratch' = Without(p)
  /\ UNCHANGED <<zip, meta, tasks, target, retire, readers, queue, history>>

\* Everything is verified once more, then the raw file is removed; scratch
\* is dropped before the lock.
Retire(p) ==
  LET c == target[p] IN
  /\ step[p] = "paired"
  /\ IF ~retire[p] \/ Verifies(c)
       THEN /\ step' = [step EXCEPT ![p] = "done"]
            /\ raw' = IF retire[p] THEN [raw EXCEPT ![c] = "none"] ELSE raw
       ELSE step' = [step EXCEPT ![p] = "failed"] /\ UNCHANGED raw
  /\ scratch' = Without(p)
  /\ UNCHANGED <<zip, meta, tasks, target, retire, readers, queue, history>>

\* A full disk, a failed write, a refused admission, a cancelled hash.
PackFails(p) ==
  /\ step[p] \in {"asked"} \cup Working
  /\ step' = [step EXCEPT ![p] = "failed"]
  /\ scratch' = Without(p)
  /\ UNCHANGED <<files, tasks, target, retire, readers, queue, history>>

-----------------------------------------------------------------------------
(* Reading a capture: open_source. *)

\* A present raw file is used where it lies; otherwise the pair is decoded
\* into scratch.  The lock is waited for.
Open(r, c) ==
  /\ reading[r] = "idle" /\ ~Exclusive(c)
  /\ \/ /\ raw[c] # "none" /\ Verifies(c)
        /\ reading' = [reading EXCEPT ![r] = "raw"]
        /\ UNCHANGED scratch
     \/ /\ raw[c] = "none" /\ PairGood(c)
        /\ reading' = [reading EXCEPT ![r] = "unpacking"]
        /\ scratch' = scratch \cup {[of |-> r, capture |-> c]}
  /\ source' = [source EXCEPT ![r] = c]
  /\ UNCHANGED <<files, tasks, packing, queue, history>>

Unpack(r) ==
  /\ reading[r] = "unpacking"
  /\ zip[source[r]] = "good"
  /\ reading' = [reading EXCEPT ![r] = "copy"]
  /\ UNCHANGED <<files, scratch, tasks, packing, source, queue, history>>

\* The source is dropped after the host decode, or an error unwinds it.
Shut(r) ==
  /\ reading[r] # "idle"
  /\ reading' = [reading EXCEPT ![r] = "idle"]
  /\ source' = [source EXCEPT ![r] = Nobody]
  /\ scratch' = Without(r)
  /\ UNCHANGED <<files, tasks, packing, queue, history>>

-----------------------------------------------------------------------------
(* The queue's owner. *)

Start ==
  /\ producer = "off"
  /\ producer' = "feeding" /\ open' = TRUE
  /\ pc' = "cleanup"
  /\ todo' = {s.capture : s \in scratch}
  /\ UNCHANGED <<files, scratch, tasks, packing, readers, finish, token, draining,
                 listed, attempted, errors, stop, call, history>>

\* The call of enqueue is over.
Returns == calling' = "none" /\ given' = Nobody

\* What enqueue leaves alone beside the tasks, the wake-up and its own place.
EnqueueKeeps == UNCHANGED <<files, scratch, packing, readers, producer, finish, open, pc,
                            draining, listed, attempted, todo, errors, stop, struck, damage>>

\* enqueue holds no lock: between its steps the worker may pack the capture
\* and remove its task.  The files are looked at first.
Enqueue(c) ==
  /\ producer = "feeding" /\ calling = "none"
  /\ calling' = IF PackedOnly(c) THEN "verify" ELSE "find"
  /\ given' = c
  /\ EnqueueKeeps /\ UNCHANGED <<tasks, token, entrusted>>

\* A capture that is packed only is verified, under the shared lock, instead
\* of queued.
EnqueueVerified ==
  /\ calling = "verify" /\ ~Exclusive(given) /\ PairGood(given)
  /\ entrusted' = entrusted \cup {given}
  /\ Returns
  /\ EnqueueKeeps /\ UNCHANGED <<tasks, token>>

\* A task that is there already is left as it is.
FindTask ==
  /\ calling = "find"
  /\ calling' = IF given \in tasks THEN "wake" ELSE "write"
  /\ EnqueueKeeps /\ UNCHANGED <<given, tasks, token, entrusted>>

\* The task is written aside and renamed into place.
WriteTask ==
  /\ calling = "write"
  /\ tasks' = tasks \cup {given}
  /\ calling' = "wake"
  /\ EnqueueKeeps /\ UNCHANGED <<given, token, entrusted>>

\* (mutant) the worker is not woken.
WakeForgotten ==
  /\ calling = "wake"
  /\ entrusted' = entrusted \cup {given}
  /\ Returns
  /\ EnqueueKeeps /\ UNCHANGED <<tasks, token>>

\* try_send: a wake-up that still waits is enough.
Wake ==
  /\ calling = "wake"
  /\ token' = TRUE
  /\ entrusted' = entrusted \cup {given}
  /\ Returns
  /\ EnqueueKeeps /\ UNCHANGED tasks

\* The pair does not verify, or a file cannot be read or written.
EnqueueFails ==
  /\ calling \in {"verify", "find", "write"}
  /\ Returns
  /\ EnqueueKeeps /\ UNCHANGED <<tasks, token, entrusted>>

\* finish takes the queue from its owner, who is then not calling it.
Finish ==
  /\ producer = "feeding" /\ calling = "none"
  /\ producer' = "closing" /\ finish' = TRUE
  /\ UNCHANGED <<files, scratch, tasks, packing, readers, token, open, pc, draining,
                 listed, attempted, todo, errors, stop, call, history>>

\* (mutant) the worker is joined before the sender is dropped.
CloseKeeps ==
  /\ producer = "closing"
  /\ producer' = "joining"
  /\ UNCHANGED <<files, scratch, tasks, packing, readers, finish, token, open, pc, draining,
                 listed, attempted, todo, errors, stop, call, history>>

Close ==
  /\ producer = "closing"
  /\ producer' = "joining" /\ open' = FALSE
  /\ UNCHANGED <<files, scratch, tasks, packing, readers, finish, token, pc, draining,
                 listed, attempted, todo, errors, stop, call, history>>

Join ==
  /\ producer = "joining" /\ pc = "stopped"
  /\ producer' = "joined"
  /\ UNCHANGED <<files, scratch, tasks, packing, readers, finish, token, open, pc,
                 draining, listed, attempted, todo, errors, stop, call, history>>

RequestStop ==
  /\ producer # "off" /\ ~stop
  /\ stop' = TRUE
  /\ UNCHANGED <<files, scratch, tasks, packing, readers, producer, finish, token, open,
                 pc, draining, listed, attempted, todo, errors, call, history>>

-----------------------------------------------------------------------------
(* The queue's worker. *)

\* cleanup_project_scratch: a busy capture is skipped, one that does not
\* verify keeps its scratch.
Clean(c) ==
  /\ pc = "cleanup" /\ c \in todo
  /\ todo' = todo \ {c}
  /\ IF Exclusive(c) \/ Shared(c) THEN UNCHANGED <<scratch, errors>>
     ELSE IF Verifies(c)
       THEN scratch' = {s \in scratch : s.capture # c} /\ UNCHANGED errors
       ELSE errors' = TRUE /\ UNCHANGED scratch
  /\ UNCHANGED <<files, tasks, packing, readers, producer, finish, token, open, pc,
                 draining, listed, attempted, stop, call, history>>

Cleaned ==
  /\ pc = "cleanup" /\ todo = {}
  /\ pc' = "top"
  /\ UNCHANGED <<files, scratch, tasks, packing, readers, producer, finish, token, open,
                 draining, listed, attempted, todo, errors, stop, call, history>>

\* The finish flag is read before the task files are listed.
Top ==
  /\ pc = "top"
  /\ IF stop THEN pc' = "stopped" /\ UNCHANGED draining
     ELSE pc' = "list" /\ draining' = finish
  /\ UNCHANGED <<files, scratch, tasks, packing, readers, producer, finish, token, open,
                 listed, attempted, todo, errors, stop, call, history>>

List ==
  /\ pc = "list"
  /\ listed' = tasks \ attempted
  /\ pc' = "chosen"
  /\ UNCHANGED <<files, scratch, tasks, packing, readers, producer, finish, token, open,
                 draining, attempted, todo, errors, stop, call, history>>

\* With nothing listed the worker ends if it was draining, else it waits.
ChooseNone ==
  /\ pc = "chosen" /\ listed = {}
  /\ pc' = IF draining THEN "stopped" ELSE "wait"
  /\ UNCHANGED <<files, scratch, tasks, packing, readers, producer, finish, token, open,
                 draining, listed, attempted, todo, errors, stop, call, history>>

\* Tasks always retire the raw file.
Choose(c) ==
  /\ pc = "chosen" /\ c \in listed
  /\ pc' = "pack"
  /\ attempted' = attempted \cup {c}
  /\ Ask(Worker, c, TRUE)
  /\ UNCHANGED <<files, scratch, tasks, readers, producer, finish, token, open, draining,
                 listed, todo, errors, stop, call, history>>

\* (mutant) the task is removed whatever became of it.
RecordAlways ==
  /\ pc = "pack" /\ step[Worker] \in {"done", "failed"}
  /\ tasks' = tasks \ {target[Worker]}
  /\ pc' = "top"
  /\ Forget(Worker)
  /\ UNCHANGED <<files, scratch, readers, producer, finish, token, open,
                 draining, listed, attempted, todo, errors, stop, call, history>>

\* A packed capture loses its task file; a failed one keeps it, as does one
\* whose task file cannot be removed.  Both are reported.
Record ==
  /\ pc = "pack" /\ step[Worker] \in {"done", "failed"}
  /\ \/ /\ step[Worker] = "done"
        /\ tasks' = tasks \ {target[Worker]}
        /\ UNCHANGED errors
     \/ errors' = TRUE /\ UNCHANGED tasks
  /\ pc' = "top"
  /\ Forget(Worker)
  /\ UNCHANGED <<files, scratch, readers, producer, finish, token, open,
                 draining, listed, attempted, todo, stop, call, history>>

\* recv: a message that was sent is delivered also after the sender is gone.
Wait ==
  /\ pc = "wait" /\ (token \/ ~open)
  /\ pc' = IF token THEN "top" ELSE "stopped"
  /\ token' = FALSE
  /\ UNCHANGED <<files, scratch, tasks, packing, readers, producer, finish, open, draining,
                 listed, attempted, todo, errors, stop, call, history>>

-----------------------------------------------------------------------------
(* `fv storage pack`, and what may go wrong. *)

OperatorPacks(p, c, r) ==
  /\ Ask(p, c, r)
  /\ UNCHANGED <<files, scratch, tasks, readers, queue, history>>

OperatorEnds(p) ==
  /\ step[p] \in {"done", "failed"}
  /\ Forget(p)
  /\ UNCHANGED <<files, scratch, tasks, readers, queue, history>>

Abandon(owner) == {IF s.of = owner THEN [s EXCEPT !.of = Nobody] ELSE s : s \in scratch}

\* The owner of the queue ends, or is killed, with its worker.
QueueExits ==
  /\ producer # "off"
  /\ producer' = "off" /\ pc' = "none"
  /\ finish' = FALSE /\ token' = FALSE /\ open' = FALSE /\ draining' = FALSE
  /\ listed' = {} /\ attempted' = {} /\ todo' = {} /\ errors' = FALSE /\ stop' = FALSE
  /\ Returns
  /\ Forget(Worker)
  /\ scratch' = Abandon(Worker)
  /\ UNCHANGED <<files, tasks, readers, history>>

OperatorKilled(p) ==
  /\ step[p] # "idle"
  /\ Forget(p)
  /\ scratch' = Abandon(p)
  /\ UNCHANGED <<files, tasks, readers, queue, history>>

ReaderKilled(r) ==
  /\ reading[r] # "idle"
  /\ reading' = [reading EXCEPT ![r] = "idle"]
  /\ source' = [source EXCEPT ![r] = Nobody]
  /\ scratch' = Abandon(r)
  /\ UNCHANGED <<files, tasks, packing, queue, history>>

\* A file goes bad; losing the only intact copy is nobody's fault but its.
Damage(c) ==
  /\ damage < MaxDamage
  /\ damage' = damage + 1
  /\ \/ raw[c] = "good"  /\ raw'  = [raw  EXCEPT ![c] = "bad"] /\ UNCHANGED <<zip, meta>>
     \/ zip[c] = "good"  /\ zip'  = [zip  EXCEPT ![c] = "bad"] /\ UNCHANGED <<raw, meta>>
     \/ meta[c] = "good" /\ meta' = [meta EXCEPT ![c] = "bad"] /\ UNCHANGED <<raw, zip>>
  /\ struck' = IF Intact(c) /\ ~Intact(c)' THEN struck \cup {c} ELSE struck
  /\ UNCHANGED <<scratch, tasks, packing, readers, queue, entrusted>>

-----------------------------------------------------------------------------
Init ==
  /\ raw = [c \in Captures |-> "good"]
  /\ zip = [c \in Captures |-> "none"] /\ meta = [c \in Captures |-> "none"]
  /\ scratch = {} /\ tasks = {}
  /\ step = [p \in Packers |-> "idle"]
  /\ target = [p \in Packers |-> Nobody]
  /\ retire = [p \in Packers |-> FALSE]
  /\ reading = [r \in Readers |-> "idle"]
  /\ source = [r \in Readers |-> Nobody]
  /\ producer = "off" /\ calling = "none" /\ given = Nobody /\ pc = "none"
  /\ finish = FALSE /\ token = FALSE /\ open = FALSE /\ draining = FALSE
  /\ listed = {} /\ attempted = {} /\ todo = {} /\ errors = FALSE /\ stop = FALSE
  /\ entrusted = {} /\ struck = {} /\ damage = 0

PackStep(p) == \/ LockAndCheck(p) \/ Begin(p) \/ Build(p) \/ Bind(p)
               \/ CheckPair(p) \/ Retire(p)

WorkerStep == \/ \E c \in Captures : Clean(c) \/ Choose(c)
              \/ Cleaned \/ Top \/ List \/ ChooseNone \/ Record \/ Wait
              \/ PackStep(Worker)

Next ==
  \/ WorkerStep
  \/ Start \/ Finish \/ Close \/ Join \/ RequestStop \/ QueueExits
  \/ \E c \in Captures : Enqueue(c) \/ Damage(c)
  \/ EnqueueVerified \/ FindTask \/ WriteTask \/ Wake \/ EnqueueFails
  \/ \E p \in Operators : PackStep(p) \/ OperatorEnds(p) \/ OperatorKilled(p)
  \/ \E p \in Operators, c \in Captures, r \in BOOLEAN : OperatorPacks(p, c, r)
  \/ \E p \in Packers : PackFails(p)
  \/ \E r \in Readers : Unpack(r) \/ Shut(r) \/ ReaderKilled(r)
  \/ \E r \in Readers, c \in Captures : Open(r, c)

Spec == Init /\ [][Next]_vars

\* The threads of the queue run; nothing is assumed of operators and readers.
FairSpec == Spec /\ WF_vars(WorkerStep) /\ WF_vars(Close) /\ WF_vars(Join)

-----------------------------------------------------------------------------
(* Properties. *)

\* No packing, cleanup, crash or retry costs a capture its last intact copy:
\* only damage that struck the only one does (pack_inner, lines 411-520).
EvidenceSurvives == \A c \in Captures : c \notin struck => Intact(c)

\* While a decoder has a source open, the file it reads is neither retired
\* nor pruned by a packer or by the cleanup of another process.
ReadersUndisturbed ==
  \A r \in Readers :
    /\ reading[r] = "raw" => raw[source[r]] # "none"
    /\ reading[r] \in {"unpacking", "copy"} => [of |-> r, capture |-> source[r]] \in scratch

\* A capture that enqueue accepted is packed only, or its task file is still
\* there to be retried, across any crash and any failure, and although the
\* worker may pack it and remove its task at any step of the call.
NothingForgotten ==
  \A c \in entrusted : c \in tasks \/ PackedOnly(c)

\* finish() returns (or the process ends), and when it returns without an error
\* and nobody asked to stop, whatever was entrusted to the queue is packed:
\* neither the finish flag nor the last wake-up is missed.  A task may be left
\* behind, of a capture that the worker packed while enqueue, which had seen
\* it unpacked, was about to write its task.
FinishDrains ==
  producer = "joining" ~>
    \/ producer = "off"
    \/ producer = "joined" /\ (errors \/ stop \/ \A c \in tasks \cup entrusted : PackedOnly(c))
=============================================================================
