------------------------------ MODULE Workstation ------------------------------
(***************************************************************************)
(* What the threads of one controller process share while they work on a   *)
(* project: the admission of jobs to the computer's resources              *)
(* (src/resource_budget.rs) and the gate between publications and the      *)
(* stages that read what is published (project_work::snapshot).  The       *)
(* clients are the real ones: a read that publishes an image, the pipeline *)
(* with the Office workers it joins, the packer.                           *)
(*                                                                         *)
(* A host is short of memory or disk space, or it is not; how much a job   *)
(* needs is not modelled.  What was probed before the lock was taken may   *)
(* have changed when it is used.  Waiting is bounded in the code: 30 s of  *)
(* pressure, 900 s for a slot, 120 s for the gate.  Each may run out at any *)
(* time, and none has to.                                                  *)
(***************************************************************************)
EXTENDS Naturals, FiniteSets, Sequences, SequencesExt

CONSTANTS
  Reads, Packings, Offices,   \* clients, one thread each
  Pipe,                       \* the pipeline's thread
  Cpus,
  MaxScarce                   \* how often the host may run short

Clients == Reads \cup Packings \cup Offices \cup {Pipe}
Background == Clients \ Reads
Nobody == "nobody"

ASSUME BudgetAssumption ==
  /\ Cpus \in Nat /\ MaxScarce \in Nat
  /\ IsFiniteSet(Clients) /\ Nobody \notin Clients
  /\ Pipe \notin Reads \cup Packings \cup Offices
  /\ Reads \cap Packings = {} /\ Reads \cap Offices = {} /\ Packings \cap Offices = {}

VARIABLES
  at,          \* client -> where it stands
  round,       \* the pipeline's request: 1 recovery and extraction, 2 audit
  waiting,     \* waiting tickets, in the order they were drawn
  foreground, background, bulk_io,   \* the governor's counters
  seen,        \* client -> the host was short when it last probed
  scarce, shortages,                 \* the host is short; how often it became so
  gate         \* who holds the snapshot gate, or nobody

governor == <<waiting, foreground, background, bulk_io>>
host == <<scarce, shortages>>
shared == <<at, round, governor, seen, host, gate>>

Waiting == {"waiting", "probed"}
Holding == {"holding", "gated", "gateless"}   \* a background permit is held
Final   == {"done", "failed"}

Kind(c) == IF c \in Packings THEN 0 ELSE IF c \in Offices THEN 2 ELSE 1
Bulk(c) == c \notin Offices

\* The place of a waiting client in the queue of tickets.
Ticket(c) == CHOOSE i \in DOMAIN waiting : waiting[i] = c
Without(c) == RemoveAt(waiting, Ticket(c))

\* slots: one processor stays free, two while a disk is read; never none.
Slots(reading) ==
  LET spare == IF reading > 0 THEN 2 ELSE 1
  IN IF Cpus > spare THEN Cpus - spare ELSE 1

-----------------------------------------------------------------------------
(* Governor::background. *)

\* An Office worker is spawned by the pipeline's conversion stage.
MayStart(c) == c \in Offices => at[Pipe] = "converting"

Request(c) ==
  /\ c \in Background /\ at[c] = "start" /\ MayStart(c)
  /\ at' = [at EXCEPT ![c] = "waiting"]
  /\ waiting' = Append(waiting, c)
  /\ UNCHANGED <<round, foreground, background, bulk_io, seen, host, gate>>

\* The host is probed before the governor is locked.
ProbeHost(c) ==
  /\ at[c] = "waiting"
  /\ at' = [at EXCEPT ![c] = "probed"]
  /\ seen' = [seen EXCEPT ![c] = scarce]
  /\ UNCHANGED <<round, governor, host, gate>>

\* slot_reason: no slot, the bulk slot taken, or somebody goes first.
Deferred(c) ==
  \/ background >= Slots(foreground)
  \/ Bulk(c) /\ bulk_io >= 1
  \/ \E i \in DOMAIN waiting : LET d == waiting[i] IN
       \/ Kind(d) < Kind(c)
       \/ Kind(d) = Kind(c) /\ i < Ticket(c)

Grant(c) ==
  /\ at[c] = "probed" /\ ~seen[c] /\ ~Deferred(c)
  /\ at' = [at EXCEPT ![c] = "holding"]
  /\ waiting' = Without(c)
  /\ background' = background + 1
  /\ bulk_io' = IF Bulk(c) THEN bulk_io + 1 ELSE bulk_io
  /\ UNCHANGED <<round, foreground, seen, host, gate>>

\* It sleeps for a while and tries again.
Defer(c) ==
  /\ at[c] = "probed" /\ (seen[c] \/ Deferred(c))
  /\ at' = [at EXCEPT ![c] = "waiting"]
  /\ UNCHANGED <<round, governor, seen, host, gate>>

\* Timeout, cancellation or a failed probe; the ticket goes with the request.
GiveUp(c) ==
  /\ at[c] \in Waiting
  /\ at' = [at EXCEPT ![c] = "failed"]
  /\ waiting' = Without(c)
  /\ UNCHANGED <<round, foreground, background, bulk_io, seen, host, gate>>

\* Permit::drop
Release(c) ==
  /\ background' = background - 1
  /\ bulk_io' = IF Bulk(c) THEN bulk_io - 1 ELSE bulk_io
  /\ UNCHANGED <<waiting, foreground>>

-----------------------------------------------------------------------------
(* A read: Governor::foreground, then the publication of its image. *)

\* A read never waits: it starts at once, or not at all.
StartRead(c) ==
  /\ c \in Reads /\ at[c] = "start"
  /\ \/ /\ at' = [at EXCEPT ![c] = "reading"]
        /\ foreground' = foreground + 1
     \/ scarce /\ at' = [at EXCEPT ![c] = "failed"] /\ UNCHANGED foreground
  /\ UNCHANGED <<round, waiting, background, bulk_io, seen, host, gate>>

EndRead(c, how) ==
  /\ foreground' = foreground - 1
  /\ at' = [at EXCEPT ![c] = how]
  /\ UNCHANGED <<round, waiting, background, bulk_io, seen, host>>

\* The image is published under the gate while the permit is still held.
EnterGate(c) ==
  /\ gate = Nobody
  /\ gate' = c
  /\ \/ c \in Reads /\ at[c] = "reading"
     \/ c = Pipe /\ at[c] = "holding"
  /\ at' = [at EXCEPT ![c] = "gated"]
  /\ UNCHANGED <<round, governor, seen, host>>

Publish(c) ==
  /\ c \in Reads /\ at[c] = "gated"
  /\ gate' = Nobody
  /\ EndRead(c, "done")

ReadFails(c) ==
  /\ c \in Reads /\ at[c] \in {"reading", "gated"}
  /\ gate' = IF gate = c THEN Nobody ELSE gate
  /\ EndRead(c, "failed")

-----------------------------------------------------------------------------
(* The pipeline, its Office workers, and the packer. *)

\* Recovery and extraction are over: the gate is left, then the permit.
LeaveGate ==
  /\ at[Pipe] = "gated" /\ round = 1
  /\ gate' = Nobody
  /\ at' = [at EXCEPT ![Pipe] = "gateless"]
  /\ UNCHANGED <<round, governor, seen, host>>

\* (mutant) the pipeline keeps its permit while Office runs.
ConvertNested ==
  /\ at[Pipe] = "gateless"
  /\ at' = [at EXCEPT ![Pipe] = "converting"]
  /\ UNCHANGED <<round, governor, seen, host, gate>>

Convert ==
  /\ at[Pipe] = "gateless"
  /\ at' = [at EXCEPT ![Pipe] = "converting"]
  /\ Release(Pipe)
  /\ UNCHANGED <<round, seen, host, gate>>

\* The workers are joined; the audit asks for a permit of its own.
Converted ==
  /\ at[Pipe] = "converting"
  /\ \A c \in Offices : at[c] \in Final
  /\ at' = [at EXCEPT ![Pipe] = "start"]
  /\ round' = 2
  /\ UNCHANGED <<governor, seen, host, gate>>

Audited ==
  /\ at[Pipe] = "gated" /\ round = 2
  /\ gate' = Nobody
  /\ at' = [at EXCEPT ![Pipe] = "done"]
  /\ Release(Pipe)
  /\ UNCHANGED <<round, seen, host>>

\* An Office document is converted, a capture packed.
Work(c) ==
  /\ c \in Offices \cup Packings /\ at[c] = "holding"
  /\ at' = [at EXCEPT ![c] = "done"]
  /\ Release(c)
  /\ UNCHANGED <<round, seen, host, gate>>

\* An error unwinds whoever holds a permit, in the order gate, permit.
WorkFails(c) ==
  /\ c \in Background /\ at[c] \in Holding
  /\ at' = [at EXCEPT ![c] = "failed"]
  /\ gate' = IF gate = c THEN Nobody ELSE gate
  /\ Release(c)
  /\ UNCHANGED <<round, seen, host>>

Shortage ==
  \/ /\ ~scarce /\ shortages < MaxScarce
     /\ scarce' = TRUE /\ shortages' = shortages + 1
     /\ UNCHANGED <<at, round, governor, seen, gate>>
  \/ /\ scarce
     /\ scarce' = FALSE
     /\ UNCHANGED <<shortages, at, round, governor, seen, gate>>

-----------------------------------------------------------------------------
WorkInit ==
  /\ at = [c \in Clients |-> "start"] /\ round = 1
  /\ waiting = <<>> /\ foreground = 0 /\ background = 0 /\ bulk_io = 0
  /\ seen = [c \in Clients |-> FALSE]
  /\ scarce = FALSE /\ shortages = 0 /\ gate = Nobody

Step(c) == \/ Request(c) \/ ProbeHost(c) \/ Grant(c) \/ Defer(c)
           \/ StartRead(c) \/ EnterGate(c) \/ Publish(c) \/ Work(c)
PipeStep == LeaveGate \/ Convert \/ Converted \/ Audited

\* Nothing is left to do, or the offices have lost their pipeline.
AllFinal == /\ \A c \in Clients \ Offices : at[c] \in Final
            /\ \A c \in Offices : at[c] \in Final \cup {"start"}

Progress == (\E c \in Clients : Step(c)) \/ PipeStep \/ Shortage
WorkNext == \/ Progress
            \/ \E c \in Clients : GiveUp(c) \/ ReadFails(c) \/ WorkFails(c)
            \/ AllFinal /\ UNCHANGED shared
WorkSpec == WorkInit /\ [][WorkNext]_shared

\* Every thread runs, the gate is won by whoever keeps trying, shortages end.
Fairness == /\ \A c \in Clients : WF_shared(Step(c) /\ at[c] # "reading")
            /\ \A c \in Clients : SF_shared(EnterGate(c))
            /\ WF_shared(PipeStep)
            /\ WF_shared(scarce /\ Shortage)
FairWorkSpec == WorkSpec /\ Fairness

-----------------------------------------------------------------------------
(* Properties. *)

\* Everybody gets to an end although no timeout has to run out and nothing has
\* to fail: permits and gate are taken in one order, a permit is never held
\* while another is asked for, and no priority starves a client.
EverybodyEnds == <>AllFinal
=============================================================================
