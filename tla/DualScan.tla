------------------------------- MODULE DualScan -------------------------------
(***************************************************************************)
(* The feed of a dual scan (src/cli/dual_scan.rs): one thread, the pump,   *)
(* owns the coordinator of module Production.  It takes operator lines and *)
(* readers' answers from one bounded channel, turns a "uN"/"gN" line into  *)
(* the commits removal - transfer - claim - confirm, starts one worker per *)
(* station, and hands every sealed image to the processing queue.  QUIT,   *)
(* STOP, the end of the input and the end of the range make it drain.      *)
(*                                                                         *)
(* Every change of the journal or of the evidence is an action of          *)
(* Production; this module says when the session takes it.  What a line    *)
(* says is chosen when the pump parses it.  Progress messages (dropped     *)
(* when the channel is full) and the display change no state.              *)
(***************************************************************************)
EXTENDS Production

CONSTANT Capacity   \* slots of the event channel (64 in the code)
ASSUME CapacityAssumption == Capacity \in Nat \ {0}

VARIABLES
  pump,      \* the feed thread: what it does, for which station and label
  draining,  \* "no", "asked" (QUIT, STOP, end of input) or "finished" (range)
  channel,   \* the event channel
  thread,    \* station -> its worker, as Session.workers knows it
  stdin,     \* the input thread: "open", "stop" or "eof" read, "gone" after a failed send
  stop,      \* the session's cancellation token
  closing,   \* Session is being dropped: workers stop delivering
  queued,    \* durable processing jobs <<label, attempt>>
  reported   \* sealed attempts whose job could not be written: in the report

session == <<pump, draining, channel, thread, stdin, stop, closing, queued, reported>>
dualVars == <<vars, session>>

Steps  == {"remove", "transfer", "claim", "confirm"}
Feeding == {"loop", "recv", "spawn", "enqueue", "release"} \cup Steps
Events == {"line", "stop", "eof"} \cup Stations
Off    == [pc |-> "off", station |-> "none", disk |-> 0, cleared |-> FALSE]

-----------------------------------------------------------------------------
At(pc, s, d, cleared) == pump' = [pc |-> pc, station |-> s, disk |-> d, cleared |-> cleared]
Goto(pc) == pump' = [Off EXCEPT !.pc = pc]
Room     == Len(channel) < Capacity
Ask      == draining' = IF draining = "no" THEN "asked" ELSE draining

\* Nothing of the range is left to offer, to remove or to transfer.
RangeFinished ==
  \A d \in Labels : ~IsNextFresh(d) /\ ~Held(d) /\ disks[d].phase # "await_gw"

\* The end of an iteration: the pump drains when the range is finished.
NextEvent ==
  /\ Goto("loop")
  /\ draining' = IF draining = "no" /\ RangeFinished' THEN "finished" ELSE draining

SavedAttempts ==
  UNION {{<<d, r.attempt>> : r \in {q \in {disks[d].usb, disks[d].gw} : Has(q)}} : d \in Labels}

-----------------------------------------------------------------------------
(* The session starts, and replays the sealed attempts into the queue.      *)

StartSession ==
  /\ pump.pc = "off"
  /\ Open
  /\ Goto("replay")
  /\ UNCHANGED <<draining, channel, thread, stdin, stop, closing, queued, reported>>

\* (mutant) the jobs of the last session are taken to be all written.
ReplayNothing ==
  /\ pump.pc = "replay"
  /\ Goto("loop")
  /\ UNCHANGED <<vars, draining, channel, thread, stdin, stop, closing, queued, reported>>

Replay ==
  /\ pump.pc = "replay"
  /\ Goto("loop")
  /\ queued' = queued \cup SavedAttempts
  /\ UNCHANGED <<vars, draining, channel, thread, stdin, stop, closing, reported>>

\* The process exits after its file work, or is killed at any point.
EndSession ==
  /\ Exit
  /\ pump' = Off
  /\ draining' = "no" /\ channel' = <<>> /\ thread' = [s \in Stations |-> "none"]
  /\ stdin' = "open" /\ stop' = FALSE /\ closing' = FALSE /\ reported' = {}
  /\ UNCHANGED queued

-----------------------------------------------------------------------------
(* The pump's loop. *)

\* A requested stop drains; a drained pump without workers drops the session.
LoopTop ==
  /\ pump.pc = "loop"
  /\ IF stop THEN Ask ELSE UNCHANGED draining
  /\ IF draining' # "no" /\ \A s \in Stations : thread[s] = "none"
     THEN Goto("files") /\ closing' = TRUE
     ELSE Goto("recv") /\ UNCHANGED closing
  /\ UNCHANGED <<vars, channel, thread, stdin, stop, queued, reported>>

\* recv_timeout: 100 ms without an event.
Timeout ==
  /\ pump.pc = "recv"
  /\ channel = <<>>
  /\ Goto("loop")
  /\ UNCHANGED <<vars, draining, channel, thread, stdin, stop, closing, queued, reported>>

Receive(event) ==
  /\ pump.pc = "recv"
  /\ channel # <<>> /\ Head(channel) = event
  /\ channel' = Tail(channel)

\* (mutant) the session is dropped without telling its workers.
AbortFeedOpen ==
  /\ pump.pc \in {"loop", "recv", "spawn", "enqueue"}
  /\ Goto("dropping")
  /\ UNCHANGED <<vars, draining, channel, thread, stdin, stop, closing, queued, reported>>

\* A write to the terminal or to the telemetry fails: the feed returns the
\* error and the session is dropped, whatever its workers are doing.
AbortFeed ==
  /\ pump.pc \in {"loop", "recv", "spawn", "enqueue"}
  /\ Goto("dropping")
  /\ closing' = TRUE
  /\ UNCHANGED <<vars, draining, channel, thread, stdin, stop, queued, reported>>

\* Session::drop joins every worker before the file work goes on.
Dropped ==
  /\ pump.pc = "dropping"
  /\ \A s \in Stations : thread[s] # "read"
  /\ Goto("files")
  /\ UNCHANGED <<vars, draining, channel, thread, stdin, stop, closing, queued, reported>>

InputEnds ==
  /\ Receive("eof")
  /\ Goto("loop") /\ Ask
  /\ UNCHANGED <<vars, thread, stdin, stop, closing, queued, reported>>

\* Lines are ignored once the pump drains; a STOP line has set the token already.
InputIgnored ==
  /\ draining # "no"
  /\ Receive("line") \/ Receive("stop")
  /\ Goto("loop")
  /\ UNCHANGED <<vars, draining, thread, stdin, stop, closing, queued, reported>>

StopLine ==
  /\ draining = "no"
  /\ Receive("stop")
  /\ Goto("loop") /\ Ask
  /\ stop' = TRUE
  /\ UNCHANGED <<vars, thread, stdin, closing, queued, reported>>

-----------------------------------------------------------------------------
(* Operator lines. *)

Line == draining = "no" /\ Receive("line") /\ UNCHANGED <<thread, stdin, stop, closing, queued, reported>>

Quit    == Line /\ Goto("loop") /\ Ask /\ UNCHANGED vars
Refused == Line /\ UNCHANGED vars /\ NextEvent      \* also STATUS and a failed commit
Pausing == Line /\ \E p \in BOOLEAN : SetPaused(p) /\ NextEvent
Out(s)  == Line /\ \E d \in Labels : Removed(s, d) /\ NextEvent
ConfirmSame(d) == Line /\ thread["gw"] = "none" /\ ConfirmSameDisk(d) /\ NextEvent
ReleaseLine(d) == Line /\ thread["gw"] = "none" /\ ReleaseArchive(d)
                       /\ At("release", "gw", d, FALSE) /\ UNCHANGED draining

\* The later writes of a release, and its failure, end the command.
Releasing ==
  /\ pump.pc = "release"
  /\ \/ ReleaseReset(pump.disk) /\ UNCHANGED <<pump, draining>>
     \/ ReleaseCommit(pump.disk) /\ NextEvent
     \/ ReleaseFails /\ NextEvent
  /\ UNCHANGED <<channel, thread, stdin, stop, closing, queued, reported>>

\* (mutant) a saved disk is taken out for any label.
TargetAny(s, d) == TRUE

UsbSaved(d) == d \in HeldBy("usb") /\ disks[d].phase = "saved" /\ disks[d].usb.bad # "none"
TargetValid(s, d) ==
  IsNextFresh(d) \/ (s = "gw" /\ (disks[d].phase = "await_gw" \/ UsbSaved(d)))

\* begin: "uN" / "gN" asserts a label and, when the station's last disk is
\* saved, that disk's removal.
ReadLine(s, d) ==
  /\ Line
  /\ ~paused
  /\ \/ /\ \E h \in HeldBy(s) : disks[h].phase = "saved" /\ TargetValid(s, d)
        /\ At("remove", s, d, FALSE)
     \/ /\ HeldBy(s) = {} \/ (d \in HeldBy(s) /\ disks[d].phase = "interrupted")
        /\ At(IF s = "gw" /\ UsbSaved(d) THEN "transfer" ELSE "claim", s, d, FALSE)
     \/ /\ d \in HeldBy(s) /\ disks[d].phase = "reserved"
        /\ At("confirm", s, d, FALSE)
  /\ UNCHANGED <<vars, draining>>

BeginRemove ==
  LET s == pump.station  d == pump.disk IN
  /\ pump.pc = "remove"
  /\ \E h \in Labels : Removed(s, h)
  /\ At(IF s = "gw" /\ UsbSaved(d) THEN "transfer" ELSE "claim", s, d, TRUE)
BeginTransfer ==
  /\ pump.pc = "transfer"
  /\ Removed("usb", pump.disk)
  /\ At("claim", pump.station, pump.disk, TRUE)
BeginClaim ==
  LET s == pump.station  d == pump.disk IN
  /\ pump.pc = "claim"
  /\ ClaimRetry(s, d) \/ ClaimFresh(s, d) \/ (s = "gw" /\ ClaimRecovery(d))
  /\ At("confirm", s, d, pump.cleared)
BeginConfirm ==
  /\ pump.pc = "confirm"
  /\ Confirm(pump.station, pump.disk)
  /\ At("spawn", pump.station, pump.disk, FALSE)
\* A step is refused or its commit fails: what was committed before it stays.
BeginFails ==
  /\ pump.pc \in Steps
  /\ UNCHANGED vars /\ NextEvent

Begin ==
  /\ \/ (BeginRemove \/ BeginTransfer \/ BeginClaim \/ BeginConfirm) /\ UNCHANGED draining
     \/ BeginFails
  /\ UNCHANGED <<channel, thread, stdin, stop, closing, queued, reported>>

Spawn ==
  /\ pump.pc = "spawn"
  /\ thread' = [thread EXCEPT ![pump.station] = "read"]
  /\ UNCHANGED vars /\ NextEvent
  /\ UNCHANGED <<channel, stdin, stop, closing, queued, reported>>

-----------------------------------------------------------------------------
(* Workers, and what they answer. *)

Read(s) ==
  /\ thread[s] = "read"
  /\ IF s = "usb" THEN UsbRead ELSE GwRead
  /\ UNCHANGED session

\* deliver: retried until the channel has room or the session closes.
Deliver(s) ==
  /\ thread[s] = "read"
  /\ reader[s].pc \in {"ok", "err"}
  /\ closing \/ Room
  /\ thread' = [thread EXCEPT ![s] = "exited"]
  /\ channel' = IF closing THEN channel ELSE Append(channel, s)
  /\ UNCHANGED <<vars, pump, draining, stdin, stop, closing, queued, reported>>

\* (mutant) the error of failed() is ignored.
DoneIgnoring(s) ==
  /\ Receive(s)
  /\ thread' = [thread EXCEPT ![s] = "none"]
  /\ \/ Complete(s) /\ At("enqueue", s, reader[s].ticket.disk, FALSE) /\ UNCHANGED draining
     \/ Failed(s) /\ NextEvent
     \/ UNCHANGED <<vars, draining>> /\ Goto("loop")
  /\ UNCHANGED <<stdin, stop, closing, queued, reported>>

\* Event::Done: the worker is joined and its answer committed.  When not even
\* the failure can be committed, the feed ends and the label stays "reading".
Done(s) ==
  /\ Receive(s)
  /\ thread' = [thread EXCEPT ![s] = "none"]
  /\ \/ Complete(s) /\ At("enqueue", s, reader[s].ticket.disk, FALSE) /\ UNCHANGED <<draining, closing>>
     \/ Failed(s) /\ NextEvent /\ UNCHANGED closing
     \/ UNCHANGED <<vars, draining>> /\ Goto("dropping") /\ closing' = TRUE
  /\ UNCHANGED <<stdin, stop, queued, reported>>

\* The sealed attempt becomes a durable processing job, or an error of the report.
Enqueue ==
  LET d == pump.disk
      r == IF pump.station = "usb" THEN disks[d].usb ELSE disks[d].gw
  IN
  /\ pump.pc = "enqueue"
  /\ \/ queued' = queued \cup {<<d, r.attempt>>} /\ UNCHANGED reported
     \/ reported' = reported \cup {<<d, r.attempt>>} /\ UNCHANGED queued
  /\ UNCHANGED vars /\ NextEvent
  /\ UNCHANGED <<channel, thread, stdin, stop, closing>>

-----------------------------------------------------------------------------
(* The input thread; the receiver lives as long as the feed. *)

Listening == stdin = "open" /\ pump.pc \notin {"off", "replay"}
FeedOver  == pump.pc \in {"dropping", "files"}

TypeLine ==
  /\ Listening
  /\ IF FeedOver THEN stdin' = "gone" /\ UNCHANGED channel
     ELSE Room /\ channel' = Append(channel, "line") /\ UNCHANGED stdin
  /\ UNCHANGED <<vars, pump, draining, thread, stop, closing, queued, reported>>

CloseInput ==
  /\ Listening
  /\ stdin' = "eof"
  /\ IF FeedOver THEN UNCHANGED channel ELSE Room /\ channel' = Append(channel, "eof")
  /\ UNCHANGED <<vars, pump, draining, thread, stop, closing, queued, reported>>

\* STOP sets the token before it is sent; the line is dropped when the channel is full.
TypeStop ==
  /\ Listening
  /\ stdin' = "stop" /\ stop' = TRUE
  /\ channel' = IF FeedOver \/ ~Room THEN channel ELSE Append(channel, "stop")
  /\ UNCHANGED <<vars, pump, draining, thread, closing, queued, reported>>

\* Ctrl+C, or the stop command of another process.
RequestStop ==
  /\ pump.pc # "off" /\ ~stop
  /\ stop' = TRUE
  /\ UNCHANGED <<vars, pump, draining, channel, thread, stdin, closing, queued, reported>>

-----------------------------------------------------------------------------
DualInit ==
  /\ Init
  /\ pump = Off /\ draining = "no" /\ channel = <<>>
  /\ thread = [s \in Stations |-> "none"]
  /\ stdin = "open" /\ stop = FALSE /\ closing = FALSE
  /\ queued = {} /\ reported = {}

Lines ==
  \/ Quit \/ Refused \/ Pausing \/ InputEnds \/ InputIgnored \/ StopLine
  \/ \E s \in Stations : Out(s) \/ \E d \in Labels : ReadLine(s, d)
  \/ \E d \in Labels : ConfirmSame(d) \/ ReleaseLine(d)

Pump ==
  \/ Replay \/ LoopTop \/ Timeout \/ Lines \/ Releasing \/ Begin \/ Spawn \/ Enqueue \/ Dropped
  \/ \E s \in Stations : Done(s)

Finish == pump.pc = "files" /\ EndSession

DualNext ==
  \/ StartSession \/ EndSession \/ Pump \/ AbortFeed
  \/ \E s \in Stations : Read(s) \/ Deliver(s)
  \/ TypeLine \/ CloseInput \/ TypeStop \/ RequestStop
  \/ \E d \in Labels, f \in Floppies : AcquireElsewhere(d, f) /\ UNCHANGED session

DualSpec == DualInit /\ [][DualNext]_dualVars

\* The threads run; a read ends (its passes are bounded); the polling worker
\* finds room between the lines an operator types; the file work ends.
FairDualSpec ==
  /\ DualSpec
  /\ WF_dualVars(Pump) /\ WF_dualVars(Finish)
  /\ \A s \in Stations : WF_dualVars(Read(s)) /\ SF_dualVars(Deliver(s))

-----------------------------------------------------------------------------
(* Properties. *)

\* While the pump runs, a station has a worker exactly when it holds a label
\* that is being read: release and confirmation never run beside a reader, and
\* no label is left "reading" with nobody to end it.  The file work, and with it
\* the release of the project, starts only after every reader left its drive.
WorkersServeReading ==
  /\ pump.pc \in Feeding \ {"spawn"} =>
       \A s \in Stations :
         thread[s] # "none" <=> \E d \in HeldBy(s) : disks[d].phase = "reading"
  /\ pump.pc = "files" => \A s \in Stations : thread[s] # "read"

\* begin's steps are separate commits; a removal it took from the line is
\* always followed by a claim that is legal, so no refusal strands a label.
BeginCommits ==
  pump.pc = "claim" /\ pump.cleared =>
    /\ ~paused
    /\ HeldBy(pump.station) = {}
    /\ IsNextFresh(pump.disk) \/ (pump.station = "gw" /\ disks[pump.disk].phase = "await_gw")

\* Every receipt in the journal has a durable processing job before the pump
\* waits for the next event, or its failure is in the report, also when a crash
\* came between the receipt and the job.
EverySealedQueued ==
  pump.pc \in Feeding \ {"enqueue"} => SavedAttempts \subseteq queued \cup reported

\* A session asked to end ends, whatever was queued in the channel.
DrainEnds == (pump.pc # "off" /\ (stop \/ draining # "no")) ~> pump.pc = "off"

=============================================================================
