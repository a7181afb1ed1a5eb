------------------------------ MODULE Conversion ------------------------------
(***************************************************************************)
(* Office conversion of recovered files (src/conversion_run.rs) and the    *)
(* publication of its outputs (src/conversion_publication.rs).  A run owns *)
(* the conversion lock.  For every output it replays a sealed receipt, or  *)
(* recognises the file at the target by a hash an earlier run saved, or    *)
(* has the host tool make it, seals a private copy and links it to the     *)
(* target.  What the run found is saved only at its end, first as a record *)
(* of the history and then as the state of the next run.                   *)
(*                                                                         *)
(* A receipt is bound to the path of the source, which moves with every    *)
(* new extraction attempt although the bytes stay the same; the saved rows *)
(* are bound to what does not move.                                        *)
(***************************************************************************)
EXTENDS Naturals, FiniteSets, Sequences

CONSTANTS
  Outputs,      \* the files to make, one for each job and format
  Bytes,        \* what a run of the host tool may make of a source
  Generations,  \* the extraction attempts that may hold the source, from 1
  Workers,      \* outputs a run works on at a time
  MaxRuns,      \* bound: conversion runs
  MaxEdits      \* bound: edits in the delivery folder by hand

ASSUME ConversionAssumption ==
  /\ Workers \in Nat \ {0} /\ {"none", "edited"} \cap Bytes = {}
  /\ Generations \subseteq Nat /\ 1 \in Generations

VARIABLES
  target,     \* output -> the bytes in the delivery folder
  sealed,     \* <<output, generation>> -> the bytes sealed with a receipt
  state,      \* the saved rows of the last run, or none
  history,    \* saved rows of all runs, newest first
  generation, \* the attempt that is selected for extraction now
  run,        \* the run in progress: phase, kind, cancelled, rows of earlier runs
  work,       \* output -> step, bytes made, attempts, result (lost in a crash)
  runs, edits, \* counters for the bounds
  touched     \* history: outputs edited or removed by hand

durable == <<target, sealed, state, history, generation>>
vars == <<target, sealed, state, history, generation, run, work, runs, edits, touched>>

NoRow == [done |-> FALSE, sha |-> "none", saved |-> FALSE]
Row(done, sha) == [done |-> done, sha |-> sha, saved |-> TRUE]
Rows == {NoRow, Row(FALSE, "none")} \cup {Row(TRUE, b) : b \in Bytes}

Idle == [phase |-> "idle", kind |-> "full", selected |-> {}, cancelled |-> FALSE,
         previous |-> [o \in Outputs |-> NoRow]]
Untried == [step |-> "todo", made |-> "none", tries |-> 0, row |-> NoRow, spoiled |-> FALSE]

Receipt(o) == <<o, generation>>
Busy == {o \in Outputs : work[o].step \notin {"todo", "done"}}
Converts(o) == o \in run.selected /\ ~(run.kind = "incremental" /\ run.previous[o].saved)

-----------------------------------------------------------------------------
(* What earlier runs saved of an output: the row of the last one, with a   *)
(* hash it lacks taken from an older success whose bytes are still there.  *)

Known(o) ==
  LET last == IF state # <<>> THEN state[1][o]
              ELSE IF history # <<>> THEN history[1][o] ELSE NoRow
      older == {Row(TRUE, history[i][o].sha) :
                  i \in {j \in DOMAIN history : history[j][o].done /\ history[j][o].sha = target[o]}}
  IN IF last.sha = "none" /\ older # {} THEN CHOOSE r \in older : TRUE ELSE last

\* A full run, a retry of selected outputs after a saved run, or the pipeline's
\* run after each disk, which does not try again what was tried before.
Begin(kind, selected) ==
  /\ run.phase = "idle" /\ runs < MaxRuns
  /\ IF kind = "retry" THEN selected # {} /\ state # <<>> ELSE selected = Outputs
  /\ run' = [phase |-> "working", kind |-> kind, selected |-> selected, cancelled |-> FALSE,
             previous |-> [o \in Outputs |-> Known(o)]]
  /\ work' = [o \in Outputs |-> Untried]
  /\ runs' = runs + 1
  /\ UNCHANGED <<target, sealed, state, history, generation, edits, touched>>

-----------------------------------------------------------------------------
(* One output. *)

Finished(o, row) == work' = [work EXCEPT ![o].step = "done", ![o].row = row]
Broken(o) == work' = [work EXCEPT ![o].step = "done", ![o].row = Row(FALSE, "none"),
                                  ![o].spoiled = TRUE]
Goes(o, step) == work' = [work EXCEPT ![o].step = step]

Taken(o) == run.phase = "working" /\ work[o].step = "todo" /\ Cardinality(Busy) < Workers

\* (mutant) receipts are never looked at.
ReplayNothing(o) == Taken(o) /\ Goes(o, "check") /\ UNCHANGED <<target>>

\* (mutant) a receipt counts only while its output is in place.
ReplayPresent(o) ==
  /\ Taken(o)
  /\ IF target[o] \in sealed[Receipt(o)] THEN Finished(o, Row(TRUE, target[o])) ELSE Goes(o, "check")
  /\ UNCHANGED <<target>>

\* A sealed output is recognised, or put back where it is missing.  Two that
\* differ, or another file in its place, are left to the operator.
Replay(o) ==
  /\ Taken(o)
  /\ LET found == sealed[Receipt(o)] IN
     \/ found = {} /\ Goes(o, "check") /\ UNCHANGED target
     \/ /\ found # {} /\ ~run.cancelled /\ \E b \in found : found = {b}
        /\ \E b \in found :
             IF target[o] = "none" THEN Finished(o, Row(TRUE, b)) /\ target' = [target EXCEPT ![o] = b]
             ELSE /\ Finished(o, IF target[o] = b THEN Row(TRUE, b) ELSE Row(FALSE, "none"))
                  /\ UNCHANGED target
     \/ /\ found # {} /\ (run.cancelled \/ ~\E b \in found : found = {b})
        /\ Finished(o, Row(FALSE, "none")) /\ UNCHANGED target

\* A file in place is taken over when a saved success has its hash.
Check(o) ==
  /\ run.phase = "working" /\ work[o].step = "check"
  /\ LET old == run.previous[o] IN
     CASE target[o] # "none" ->
            Finished(o, IF old.done /\ old.sha = target[o] THEN old ELSE Row(FALSE, "none"))
       [] target[o] = "none" /\ Converts(o) -> Goes(o, "host")
       [] OTHER -> Finished(o, Row(FALSE, "none"))
  /\ UNCHANGED target

\* The host tool makes an output; a failure or a timeout is tried once more.
Host(o) ==
  /\ run.phase = "working" /\ work[o].step = "host"
  /\ \/ /\ ~run.cancelled
        /\ \E b \in Bytes : work' = [work EXCEPT ![o].step = "made", ![o].made = b]
     \/ /\ ~run.cancelled /\ work[o].tries = 0
        /\ work' = [work EXCEPT ![o].step = "todo", ![o].tries = 1]
     \/ Broken(o)
  /\ UNCHANGED target

\* (mutant) the retry is not limited to what never reached a receipt.
SealRetried(o) ==
  /\ work[o].step = "made"
  /\ sealed' = [sealed EXCEPT ![Receipt(o)] = @ \cup {work[o].made}]
  /\ \/ Goes(o, "sealed")
     \/ work[o].tries = 0 /\ work' = [work EXCEPT ![o].step = "host", ![o].tries = 1]
  /\ UNCHANGED target

\* The private copy and its receipt; nothing is sealed once a file appeared.
Seal(o) ==
  /\ work[o].step = "made"
  /\ IF target[o] = "none"
       THEN sealed' = [sealed EXCEPT ![Receipt(o)] = @ \cup {work[o].made}] /\ Goes(o, "sealed")
       ELSE Finished(o, Row(FALSE, "none")) /\ UNCHANGED sealed
  /\ UNCHANGED target

\* (mutant) the output replaces whatever is at the target.
PromoteOver(o) ==
  /\ work[o].step = "sealed"
  /\ target' = [target EXCEPT ![o] = work[o].made] /\ Finished(o, Row(TRUE, work[o].made))

\* The link fails where a file has appeared; an error may follow the link.
Promote(o) ==
  /\ work[o].step = "sealed"
  /\ IF target[o] = "none" /\ ~run.cancelled
       THEN /\ target' = [target EXCEPT ![o] = work[o].made]
            /\ Finished(o, Row(TRUE, work[o].made)) \/ Broken(o)
       ELSE Finished(o, Row(FALSE, "none")) /\ UNCHANGED target

\* Any step of an output may meet an error: a full disk, a changed source, no
\* permit, a process that cannot be started.
Fail(o) == /\ work[o].step \in {"check", "host", "made", "sealed"} \/ Taken(o)
           /\ Broken(o) /\ UNCHANGED target

Convert(o) ==
  /\ \/ Replay(o) /\ UNCHANGED sealed
     \/ Check(o) /\ UNCHANGED sealed
     \/ Host(o) /\ UNCHANGED sealed
     \/ Seal(o)
     \/ Promote(o) /\ UNCHANGED sealed
     \/ Fail(o) /\ UNCHANGED sealed
  /\ UNCHANGED <<state, history, generation, run, runs, edits, touched>>

-----------------------------------------------------------------------------
(* The end of a run. *)

Results == [o \in Outputs |-> work[o].row]

SaveHistory ==
  /\ run.phase = "working" /\ \A o \in Outputs : work[o].step = "done"
  /\ history' = <<Results>> \o history
  /\ run' = [run EXCEPT !.phase = "saving"]
  /\ UNCHANGED <<target, sealed, state, generation, work, runs, edits, touched>>

SaveState ==
  /\ run.phase = "saving"
  /\ state' = <<Results>>
  /\ run' = Idle
  /\ UNCHANGED <<target, sealed, history, generation, work, runs, edits, touched>>

\* The process dies or the run ends with an error before it has saved.
Crash ==
  /\ run.phase # "idle"
  /\ run' = Idle /\ work' = [o \in Outputs |-> Untried]
  /\ UNCHANGED <<durable, runs, edits, touched>>

Cancel ==
  /\ run.phase = "working" /\ ~run.cancelled
  /\ run' = [run EXCEPT !.cancelled = TRUE]
  /\ UNCHANGED <<durable, work, runs, edits, touched>>

-----------------------------------------------------------------------------
(* The project around the runs. *)

\* Another extraction attempt of the same disk is selected, same bytes.
Reextract ==
  /\ run.phase = "idle" /\ generation + 1 \in Generations
  /\ generation' = generation + 1
  /\ UNCHANGED <<target, sealed, state, history, run, work, runs, edits, touched>>

\* Somebody puts, edits or removes a file in the delivery folder.
EditByHand(o) ==
  /\ edits < MaxEdits
  /\ \E b \in {"none", "edited"} \ {target[o]} : target' = [target EXCEPT ![o] = b]
  /\ edits' = edits + 1 /\ touched' = touched \cup {o}
  /\ UNCHANGED <<sealed, state, history, generation, run, work, runs>>

Init ==
  /\ target = [o \in Outputs |-> "none"] /\ sealed = [k \in Outputs \X Generations |-> {}]
  /\ state = <<>> /\ history = <<>> /\ generation = 1
  /\ run = Idle /\ work = [o \in Outputs |-> Untried]
  /\ runs = 0 /\ edits = 0 /\ touched = {}

Stopped == run.phase = "idle" /\ runs = MaxRuns

Next ==
  \/ \E kind \in {"full", "incremental", "retry"}, selected \in SUBSET Outputs : Begin(kind, selected)
  \/ \E o \in Outputs : Convert(o) \/ EditByHand(o)
  \/ SaveHistory \/ SaveState \/ Crash \/ Cancel \/ Reextract
  \/ Stopped /\ UNCHANGED vars

Spec == Init /\ [][Next]_vars

-----------------------------------------------------------------------------
(* Properties. *)

\* No output has two sealed copies that differ: whatever was sealed is
\* replayed and never made again, after any crash, cancellation or error.
OneSealedCopy == \A k \in DOMAIN sealed : \A b, c \in sealed[k] : b = c

\* A file in the delivery folder is only ever changed by hand, also one that
\* appears while its output is being converted.
NothingOverwritten ==
  [][\A o \in Outputs : target[o] # "none" /\ edits' = edits => target'[o] = target[o]]_vars

\* A run that met no error and was not cancelled reports an output in place as
\* a success if nobody touched it and a receipt of the extraction it reads or a
\* saved run vouches for it, also when the run that made it died.
Vouched(o) ==
  target[o] \in sealed[Receipt(o)] \/ \E i \in DOMAIN history : history[i][o] = Row(TRUE, target[o])
PublishedRecognised ==
  run.phase = "saving" /\ ~run.cancelled =>
    \A o \in Outputs \ touched :
      target[o] # "none" /\ Vouched(o) /\ ~work[o].spoiled => work[o].row.done
=============================================================================
