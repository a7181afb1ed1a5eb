----------------------------- MODULE FluxCapture -----------------------------
(***************************************************************************)
(* Raw flux captures of one label and the images decoded from them         *)
(* (src/flux_capture.rs, src/flux_capture_publication.rs).  Both follow    *)
(* one protocol: a receipt reserves the slot, the host tool writes a       *)
(* partial file, the receipt is sealed with the hash of the output, and    *)
(* the payload and then the receipt are renamed into place, never over     *)
(* another file.  A sealed result is finished by whoever finds it; an      *)
(* unsealed one is never used.                                             *)
(*                                                                         *)
(* A capture keeps what the rules of recovery tell apart: the floppy that  *)
(* was really in the drive, and the regions (cylinders) read without error. *)
(***************************************************************************)
EXTENDS Integers, FiniteSets

CONSTANTS Floppies,
          Regions,      \* numbered from the outer edge
          Shared,       \* those that have the same bytes on every floppy
          MaxSlots      \* bound: capture slots of the label
ASSUME RegionAssumption == Regions \subseteq Nat /\ IsFiniteSet(Regions) /\ Shared \subseteq Regions
ASSUME SlotsAssumption == MaxSlots \in Nat \ {0}

VARIABLES
  cap,      \* slot -> its capture
  dec,      \* slot -> the newest decode of that capture
  litter    \* an unreadable or misnamed receipt lies among the decodes
evidence == <<cap, dec, litter>>

Slots == 1 .. MaxSlots
Sealed == {"prepared", "payload", "done"}
Captures == [state : {"free", "torn", "started", "failed"} \cup Sealed,
             floppy : Floppies \cup {"none"}, good : SUBSET Regions]
Free == [state |-> "free", floppy |-> "none", good |-> {}]

Occupied(a) == cap[a].state # "free"
SealedAt(a) == cap[a].state \in Sealed

CapState(a, s) == cap' = [cap EXCEPT ![a].state = s] /\ UNCHANGED <<dec, litter>>
DecState(a, s) == dec' = [dec EXCEPT ![a] = s] /\ UNCHANGED <<cap, litter>>

-----------------------------------------------------------------------------
(* A capture. *)

ReserveCapture(a) == cap[a].state = "free" /\ CapState(a, "started")
\* The receipt is created and not written: a crash, or a full disk.
TornCapture(a)    == cap[a].state = "free" /\ CapState(a, "torn")
FailCapture(a)    == cap[a].state = "started" /\ CapState(a, "failed")

\* The host succeeded: the receipt now binds the hash of its output.
SealCapture(a, f, good) ==
  /\ cap[a].state = "started"
  /\ cap' = [cap EXCEPT ![a] = [state |-> "prepared", floppy |-> f, good |-> good]]
  /\ UNCHANGED <<dec, litter>>

\* Publication, by the run that captured or by a later one.
PublishCapture(a) ==
  \/ cap[a].state = "prepared" /\ CapState(a, "payload")
  \/ cap[a].state = "payload" /\ CapState(a, "done")

-----------------------------------------------------------------------------
(* A decode of a published capture; a failed or unsealed one gets a new     *)
(* attempt number.                                                          *)

ReserveDecode(a) ==
  /\ cap[a].state = "done" /\ dec[a] \notin Sealed
  /\ DecState(a, "started")
FailDecode(a) == dec[a] = "started" /\ DecState(a, "failed")
SealDecode(a) == dec[a] = "started" /\ DecState(a, "prepared")
PublishDecode(a) ==
  \/ dec[a] = "prepared" /\ DecState(a, "payload")
  \/ dec[a] = "payload" /\ DecState(a, "done")

\* A receipt, or the file that was to replace one, is left half-written.
TornDecode == litter' = TRUE /\ UNCHANGED <<cap, dec>>

-----------------------------------------------------------------------------
(* What recovery makes of the decodes (src/flux_recovery.rs, aggregate).    *)

SameBytes(f, g, r) == f = g \/ r \in Shared

\* (mutant) the control sectors are not compared.
RefusedNever(first, others) == FALSE

\* The lowest region the first decode read well is the control: it vouches for
\* the identity of every other decode, which has to agree on it.
Controls(first) == {r \in cap[first].good : \A q \in cap[first].good : r <= q}
Refused(first, others) ==
  \E s \in others \ {first} :
    ~\E r \in Controls(first) : r \in cap[s].good /\ SameBytes(cap[first].floppy, cap[s].floppy, r)

\* Missing regions, and those on which two decodes disagree.
Unfinished(sources) ==
  {r \in Regions :
     LET readers == {s \in sources : r \in cap[s].good} IN
     \/ readers = {}
     \/ \E s, t \in readers : ~SameBytes(cap[s].floppy, cap[t].floppy, r)}

CaptureInit ==
  /\ cap = [a \in Slots |-> Free] /\ dec = [a \in Slots |-> "none"]
  /\ litter = FALSE
=============================================================================
