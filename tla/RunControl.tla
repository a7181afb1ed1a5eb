------------------------------ MODULE RunControl ------------------------------
(***************************************************************************)
(* Stopping a run from a second console (src/run_control.rs).  A session   *)
(* holds the project's control lock, writes a record with a generation of  *)
(* its own and watches for a request file named after that generation.     *)
(* `fv stop` probes the lock by trying it, reads the record and creates    *)
(* the request file; `fv run status` only probes.  The lock, the record    *)
(* and the request are separate files: sessions, stop commands and probes  *)
(* interleave between them, and each may be killed.                        *)
(*                                                                         *)
(* Runs are numbered in the order in which they take the lock, which is    *)
(* the order of their generations.                                         *)
(***************************************************************************)
EXTENDS Naturals, FiniteSets

CONSTANTS
  Runs,      \* 1..n, every session is one run with its generation
  Stops,     \* stop commands, each run once
  Probes     \* status commands

ASSUME RunAssumption == Runs = 1..Cardinality(Runs) /\ IsFiniteSet(Runs)

VARIABLES
  session,    \* run -> "new", "locked", "running", "ended"
  token,      \* run -> its cancellation token was requested
  control,    \* the generation in the record file, 0 without one
  request,    \* generation -> its request file: "none", "torn", "stop"
  probing,    \* the probe that holds the control lock for a moment, or none
  command,    \* stop or status command -> where it stands
  aim,        \* stop command -> the generation it read
  seated      \* history: run -> stop commands that were over when it began

vars == <<session, token, control, request, probing, command, aim, seated>>

None == "none"
Commands == Stops \cup Probes
Live == {"locked", "running"}
Over == {"accepted", "refused", "killed"}

\* The session that owns the control lock, 0 when there is none.
Owner == IF \E g \in Runs : session[g] \in Live
         THEN CHOOSE g \in Runs : session[g] \in Live ELSE 0

-----------------------------------------------------------------------------
(* Session::start, its watcher and its end. *)

\* The lock is tried, not waited for: a momentary probe refuses a session too.
Start(g) ==
  /\ session[g] = "new" /\ \A h \in Runs : h < g => session[h] = "ended"
  /\ session' = [session EXCEPT ![g] = IF probing = None THEN "locked" ELSE "ended"]
  /\ seated' = [seated EXCEPT ![g] = {c \in Stops : command[c] \in Over}]
  /\ UNCHANGED <<token, control, request, probing, command, aim>>

\* The record replaces the one the run before left behind.
Register(g) ==
  /\ session[g] = "locked"
  /\ session' = [session EXCEPT ![g] = "running"]
  /\ control' = g
  /\ UNCHANGED <<token, request, probing, command, aim, seated>>

\* (mutant) any request in the project is honoured.
WatchAny(g) ==
  /\ session[g] = "running" /\ ~token[g]
  /\ \E h \in Runs : request[h] = "stop"
  /\ token' = [token EXCEPT ![g] = TRUE]
  /\ UNCHANGED <<session, control, request, probing, command, aim, seated>>

\* The watcher honours a complete request of its own generation.
Watch(g) ==
  /\ session[g] = "running" /\ ~token[g]
  /\ request[g] = "stop"
  /\ token' = [token EXCEPT ![g] = TRUE]
  /\ UNCHANGED <<session, control, request, probing, command, aim, seated>>

\* The operation returns, or its process is killed: the lock is free.
End(g) ==
  /\ session[g] \in Live
  /\ session' = [session EXCEPT ![g] = "ended"]
  /\ UNCHANGED <<token, control, request, probing, command, aim, seated>>

-----------------------------------------------------------------------------
(* `fv stop` and `fv run status`. *)

\* active(): the lock is tried.  Whoever fails takes the project for active,
\* be it a session or only another probe that holds the lock.
Probe(c) ==
  /\ command[c] = "new"
  /\ IF Owner = 0 /\ probing = None
       THEN probing' = c /\ command' = [command EXCEPT ![c] = "holding"]
       ELSE /\ command' = [command EXCEPT ![c] = IF c \in Stops THEN "active" ELSE "accepted"]
            /\ UNCHANGED probing
  /\ UNCHANGED <<session, token, control, request, aim, seated>>

\* Nobody was there: the lock is given back and the command refused.
Unprobe(c) ==
  /\ command[c] = "holding"
  /\ probing' = None
  /\ command' = [command EXCEPT ![c] = "refused"]
  /\ UNCHANGED <<session, token, control, request, aim, seated>>

ReadRecord(c) ==
  /\ command[c] = "active"
  /\ aim' = [aim EXCEPT ![c] = control]
  /\ command' = [command EXCEPT ![c] = IF control = 0 THEN "refused" ELSE "aimed"]
  /\ UNCHANGED <<session, token, control, request, probing, seated>>

\* A request that exists must be a complete one; a new file is still empty.
Create(c) ==
  /\ command[c] = "aimed"
  /\ LET g == aim[c] IN
     CASE request[g] = "none" -> /\ request' = [request EXCEPT ![g] = "torn"]
                                 /\ command' = [command EXCEPT ![c] = "writing"]
       [] request[g] = "torn" -> /\ command' = [command EXCEPT ![c] = "refused"]
                                 /\ UNCHANGED request
       [] request[g] = "stop" -> /\ command' = [command EXCEPT ![c] = "accepted"]
                                 /\ UNCHANGED request
  /\ UNCHANGED <<session, token, control, probing, aim, seated>>

\* (mutant) success is reported before the request is complete.
WriteNothing(c) ==
  /\ command[c] = "writing"
  /\ command' = [command EXCEPT ![c] = "accepted"]
  /\ UNCHANGED <<session, token, control, request, probing, aim, seated>>

Write(c) ==
  /\ command[c] = "writing"
  /\ request' = [request EXCEPT ![aim[c]] = "stop"]
  /\ command' = [command EXCEPT ![c] = "accepted"]
  /\ UNCHANGED <<session, token, control, probing, aim, seated>>

\* A command dies; a half-written request stays.
Kill(c) ==
  /\ command[c] \in {"holding", "active", "aimed", "writing"}
  /\ command' = [command EXCEPT ![c] = "killed"]
  /\ probing' = IF probing = c THEN None ELSE probing
  /\ UNCHANGED <<session, token, control, request, aim, seated>>

-----------------------------------------------------------------------------
Init ==
  /\ session = [g \in Runs |-> "new"] /\ token = [g \in Runs |-> FALSE]
  /\ control = 0 /\ request = [g \in Runs |-> "none"]
  /\ probing = None
  /\ command = [c \in Commands |-> "new"]
  /\ aim = [c \in Stops |-> 0]
  /\ seated = [g \in Runs |-> {}]

Ended == (\A g \in Runs : session[g] = "ended") /\ (\A c \in Commands : command[c] \in Over)

Next ==
  \/ \E g \in Runs : Start(g) \/ Register(g) \/ Watch(g) \/ End(g)
  \/ \E c \in Commands : Probe(c) \/ Unprobe(c)
  \/ \E c \in Stops : ReadRecord(c) \/ Create(c) \/ Write(c)
  \/ \E c \in Commands : Kill(c)
  \/ Ended /\ UNCHANGED vars

Spec == Init /\ [][Next]_vars

\* The watcher polls every 100 ms; nothing else has to go on.
FairSpec == Spec /\ \A g \in Runs : WF_vars(Watch(g))

-----------------------------------------------------------------------------
(* Properties. *)

\* A run is only ever cancelled by a stop command that was still going when
\* the run began: what an earlier command left behind cancels nothing.
OldRequestsHarmless ==
  \A g \in Runs : token[g] =>
    \E c \in Stops \ seated[g] : aim[c] = g /\ command[c] \in {"writing", "accepted", "killed"}

\* A stop command that reported success ends the run it was recorded for.
AcceptedStopEnds ==
  \A c \in Stops : command[c] = "accepted" ~>
    (command[c] = "accepted" => token[aim[c]] \/ session[aim[c]] = "ended")
=============================================================================
