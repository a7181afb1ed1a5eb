--------------------------- MODULE ConversionProofs ---------------------------
(***************************************************************************)
(* Proofs about the conversion of recovered files, for every set of        *)
(* outputs, every number of extraction attempts, runs and edits by hand.   *)
(* The inductive invariant says what the steps of an output imply of its   *)
(* receipt, and that of an output nobody touched all that is saved agrees  *)
(* with the file that is there.                                            *)
(***************************************************************************)
EXTENDS Conversion, TLAPS

Steps == {"todo", "check", "host", "made", "sealed", "done"}
Works == [step : Steps, made : Bytes \cup {"none"}, tries : {0, 1}, row : Rows, spoiled : BOOLEAN]
RunRecords ==
  [phase : {"idle", "working", "saving"}, kind : {"full", "incremental", "retry"},
   selected : SUBSET Outputs, cancelled : BOOLEAN, previous : [Outputs -> Rows]]
Saves == [Outputs -> Rows]

TypeOK ==
  /\ target \in [Outputs -> Bytes \cup {"none", "edited"}]
  /\ sealed \in [Outputs \X Generations -> SUBSET Bytes]
  /\ state \in Seq(Saves) /\ history \in Seq(Saves)
  /\ generation \in Generations
  /\ run \in RunRecords
  /\ work \in [Outputs -> Works]
  /\ runs \in Nat /\ edits \in Nat
  /\ touched \subseteq Outputs

\* An output is under way only in a run that works, and over when it saves.
StepInRun(o) ==
  /\ run.phase # "working" => work[o].step \in {"todo", "done"}
  /\ run.phase = "saving" => work[o].step = "done"

\* Nothing is made of an output that has a receipt, and an extraction attempt
\* has at most one of it, those to come none.
MadeOnce(o) ==
  /\ work[o].step \in {"check", "host", "made"} => sealed[Receipt(o)] = {}
  /\ work[o].step = "sealed" => sealed[Receipt(o)] = {work[o].made}
  /\ work[o].step \in {"made", "sealed"} => work[o].made \in Bytes
  /\ \A g \in Generations : /\ g > generation => sealed[<<o, g>>] = {}
                           /\ \A b, c \in sealed[<<o, g>>] : b = c

\* An output that was not changed by hand is missing while it is being made,
\* and once it is there it is what the receipt has sealed.
TargetFollows(o) ==
  /\ work[o].step \in {"host", "made", "sealed"} => target[o] = "none"
  /\ target[o] # "none" /\ sealed[Receipt(o)] # {} => target[o] \in sealed[Receipt(o)]

Agrees(o, row) == row.done => row.sha = target[o]

\* Every saved success of such an output has the hash of the file that is there.
RowsFollow(o) ==
  /\ \A i \in DOMAIN history : Agrees(o, history[i][o])
  /\ \A i \in DOMAIN state : Agrees(o, state[i][o])
  /\ Agrees(o, work[o].row) /\ Agrees(o, run.previous[o])

Saved(o) == \E i \in DOMAIN history : history[i][o] = Row(TRUE, target[o])

\* A run knows of the files in place that an earlier run reported.
RunKnows(o) ==
  run.phase = "working" /\ work[o].step # "done" /\ target[o] # "none" /\ Saved(o) =>
    run.previous[o] = Row(TRUE, target[o])

\* PublishedRecognised, of an output as soon as it is over.
RecognisedSoFar(o) ==
  run.phase # "idle" /\ ~run.cancelled /\ work[o].step = "done" =>
    (target[o] # "none" /\ Vouched(o) /\ ~work[o].spoiled => work[o].row.done)

OutputInv(o) ==
  /\ StepInRun(o) /\ MadeOnce(o)
  /\ o \notin touched => TargetFollows(o) /\ RowsFollow(o) /\ RunKnows(o) /\ RecognisedSoFar(o)

ConversionInv == TypeOK /\ \A o \in Outputs : OutputInv(o)

-----------------------------------------------------------------------------
(* Rows and sequences of them. *)

LEMMA RowFields ==
  /\ \A b \in Bytes : /\ Row(TRUE, b) \in Rows /\ Row(TRUE, b).done /\ Row(TRUE, b).sha = b
                       /\ b # "none" /\ b # "edited"
  /\ NoRow \in Rows /\ ~NoRow.done /\ NoRow.sha = "none"
  /\ Row(FALSE, "none") \in Rows /\ ~Row(FALSE, "none").done /\ Row(FALSE, "none").sha = "none"
  /\ \A r \in Rows : /\ r.done \in BOOLEAN /\ r.sha \in Bytes \cup {"none"}
                     /\ r.done <=> r.sha # "none"
                     /\ r.done => r = Row(TRUE, r.sha)
<1>1. \A b \in Bytes : b # "none" /\ b # "edited"
  BY ConversionAssumption
<1>2. \A b \in Bytes : /\ Row(TRUE, b) \in Rows /\ Row(TRUE, b).done /\ Row(TRUE, b).sha = b
  BY DEF Rows, Row
<1>3. NoRow \in Rows /\ ~NoRow.done /\ NoRow.sha = "none"
  BY DEF Rows, NoRow
<1>4. Row(FALSE, "none") \in Rows /\ ~Row(FALSE, "none").done /\ Row(FALSE, "none").sha = "none"
  BY DEF Rows, Row
<1>5. \A r \in Rows : r = NoRow \/ r = Row(FALSE, "none") \/ \E b \in Bytes : r = Row(TRUE, b)
  BY Zenon DEF Rows
<1>6. NoRow.done = FALSE /\ Row(FALSE, "none").done = FALSE /\ \A b \in Bytes : Row(TRUE, b).done = TRUE
  BY DEF NoRow, Row
<1>7. ASSUME NEW r \in Rows
      PROVE  /\ r.done \in BOOLEAN /\ r.sha \in Bytes \cup {"none"}
             /\ r.done <=> r.sha # "none"
             /\ r.done => r = Row(TRUE, r.sha)
  BY <1>1, <1>2, <1>3, <1>4, <1>5, <1>6, ZenonT(60)
<1> QED
  BY <1>1, <1>2, <1>3, <1>4, <1>7

\* The results of a run go before those of the earlier ones.
LEMMA Prepended ==
  ASSUME NEW S, NEW s \in S, NEW h \in Seq(S)
  PROVE  /\ <<s>> \o h \in Seq(S) /\ (<<s>> \o h)[1] = s
         /\ \A i \in DOMAIN (<<s>> \o h) : i = 1 \/ (i - 1 \in DOMAIN h /\ (<<s>> \o h)[i] = h[i - 1])
         /\ \A i \in DOMAIN h : i + 1 \in DOMAIN (<<s>> \o h) /\ (<<s>> \o h)[i + 1] = h[i]
OBVIOUS

\* What a run knows of an output nobody touched agrees with the file that is
\* there, and is not less than what any earlier run reported.
LEMMA KnownAgrees ==
  ASSUME ConversionInv, NEW o \in Outputs
  PROVE  /\ Known(o) \in Rows
         /\ o \notin touched =>
              /\ Agrees(o, Known(o))
              /\ target[o] # "none" /\ Saved(o) => Known(o) = Row(TRUE, target[o])
<1> DEFINE last == IF state # <<>> THEN state[1][o]
                   ELSE IF history # <<>> THEN history[1][o] ELSE NoRow
           older == {Row(TRUE, history[i][o].sha) :
                       i \in {j \in DOMAIN history : history[j][o].done /\ history[j][o].sha = target[o]}}
<1>0. ConversionInv /\ TypeOK
  BY DEF ConversionInv
<1>1. last \in Rows
  BY <1>0, RowFields DEF TypeOK, Saves
<1>2. \A r \in older : r \in Rows /\ r = Row(TRUE, target[o])
  <2> SUFFICES ASSUME NEW i \in DOMAIN history, history[i][o].done, history[i][o].sha = target[o]
               PROVE  Row(TRUE, history[i][o].sha) \in Rows
    OBVIOUS
  <2>1. history[i][o] \in Rows
    BY <1>0 DEF TypeOK, Saves
  <2> QED
    BY <2>1, RowFields
<1>3. Known(o) = IF last.sha = "none" /\ older # {} THEN CHOOSE r \in older : TRUE ELSE last
  BY DEF Known
<1>4. Known(o) \in Rows
  BY <1>1, <1>2, <1>3
<1>5. ASSUME o \notin touched
      PROVE  /\ Agrees(o, Known(o))
             /\ target[o] # "none" /\ Saved(o) => Known(o) = Row(TRUE, target[o])
  <2>1. Agrees(o, last)
    BY <1>0, <1>5, RowFields DEF ConversionInv, OutputInv, RowsFollow, TypeOK, Agrees
  <2>2. CASE last.sha = "none" /\ older # {}
    BY <1>2, <1>3, <2>2, RowFields, ZenonT(60) DEF Agrees, Row
  <2>3. CASE last.sha # "none"
    BY <1>1, <1>3, <2>1, <2>3, RowFields DEF Agrees
  <2>4. CASE last.sha = "none" /\ older = {}
    <3>1. ~Saved(o)
      BY <2>4 DEF Saved, Row
    <3>2. Known(o) = last
      BY <1>3, <2>4
    <3> QED
      BY <2>1, <3>1, <3>2
  <2> QED
    BY <2>2, <2>3, <2>4
<1> QED
  BY <1>4, <1>5

-----------------------------------------------------------------------------
(* The invariant. *)

\* Nothing is sealed, saved or in place at the start.
LEMMA InitInv == Init => ConversionInv
<1> SUFFICES ASSUME Init PROVE ConversionInv
  OBVIOUS
<1>1. TypeOK
  BY ConversionAssumption, RowFields DEF Init, TypeOK, Works, Steps, RunRecords, Idle, Untried
<1>2. ASSUME NEW o \in Outputs PROVE OutputInv(o)
  <2>1. StepInRun(o)
    BY DEF Init, StepInRun, Idle, Untried
  <2>2. MadeOnce(o)
    BY ConversionAssumption DEF Init, MadeOnce, Untried, Receipt
  <2>3. TargetFollows(o)
    BY DEF Init, TargetFollows, Untried
  <2>4. RowsFollow(o)
    BY RowFields DEF Init, RowsFollow, Agrees, Untried, Idle
  <2>5. RunKnows(o) /\ RecognisedSoFar(o)
    BY DEF Init, RunKnows, RecognisedSoFar, Idle
  <2> QED
    BY <2>1, <2>2, <2>3, <2>4, <2>5 DEF OutputInv
<1> QED
  BY <1>1, <1>2 DEF ConversionInv

LEMMA BeginInv ==
  ASSUME ConversionInv, NEW kind \in {"full", "incremental", "retry"}, NEW selected \in SUBSET Outputs,
         Begin(kind, selected)
  PROVE  ConversionInv'
<1> USE DEF ConversionInv
<1>0. /\ run' = [phase |-> "working", kind |-> kind, selected |-> selected, cancelled |-> FALSE,
                 previous |-> [o \in Outputs |-> Known(o)]]
      /\ work' = [o \in Outputs |-> Untried] /\ runs' = runs + 1
      /\ UNCHANGED <<target, sealed, state, history, generation, edits, touched>>
  BY DEF Begin
<1>1. TypeOK'
  <2>1. Untried \in Works
    BY RowFields DEF Untried, Works, Steps
  <2>2. [o \in Outputs |-> Known(o)] \in [Outputs -> Rows]
    BY KnownAgrees
  <2>3. run' \in RunRecords
    BY <1>0, <2>2 DEF RunRecords
  <2> QED
    BY <1>0, <2>1, <2>3 DEF TypeOK
<1>2. ASSUME NEW o \in Outputs PROVE OutputInv(o)'
  <2>0. OutputInv(o) /\ TypeOK
    OBVIOUS
  <2>1. work'[o] = Untried /\ run'.previous[o] = Known(o) /\ run'.phase = "working"
    BY <1>0
  <2>2. StepInRun(o)'
    BY <2>1 DEF StepInRun, Untried
  <2>3. MadeOnce(o)'
    BY <1>0, <2>0, <2>1 DEF OutputInv, MadeOnce, Untried, Receipt
  <2>4. ASSUME o \notin touched
        PROVE  TargetFollows(o)' /\ RowsFollow(o)' /\ RunKnows(o)' /\ RecognisedSoFar(o)'
    <3>1. TargetFollows(o)'
      BY <1>0, <2>0, <2>1, <2>4 DEF OutputInv, TargetFollows, Untried, Receipt
    <3>2. Agrees(o, Known(o)) /\ ~Untried.row.done
      BY <2>4, KnownAgrees, RowFields DEF Untried
    <3>3. RowsFollow(o)'
      BY <1>0, <2>0, <2>1, <2>4, <3>2 DEF OutputInv, RowsFollow, Agrees
    <3>4. RunKnows(o)'
      BY <1>0, <2>1, <2>4, KnownAgrees DEF RunKnows, Saved
    <3>5. RecognisedSoFar(o)'
      BY <2>1 DEF RecognisedSoFar, Untried
    <3> QED
      BY <3>1, <3>3, <3>4, <3>5
  <2> QED
    BY <1>0, <2>2, <2>3, <2>4 DEF OutputInv
<1> QED
  BY <1>1, <1>2

-----------------------------------------------------------------------------
(* One output. *)

Frame == <<state, history, generation, run, runs, edits, touched>>
Same(o) == /\ work'[o] = work[o] /\ target'[o] = target[o]
           /\ \A g \in Generations : sealed'[<<o, g>>] = sealed[<<o, g>>]

\* A step of one output leaves the others alone and replaces no file.
LEMMA ConvertShape ==
  ASSUME ConversionInv, NEW o \in Outputs, Convert(o)
  PROVE  /\ UNCHANGED Frame /\ TypeOK'
         /\ \A q \in Outputs \ {o} : Same(q)
         /\ target[o] # "none" => target'[o] = target[o]
<1>0. TypeOK /\ OutputInv(o) /\ work[o] \in Works /\ run \in RunRecords /\ target[o] \in Bytes \cup {"none", "edited"}
  BY DEF ConversionInv, TypeOK
<1>1. UNCHANGED Frame
  BY DEF Convert, Frame
<1>2. generation \in Generations /\ Receipt(o) \in Outputs \X Generations
  BY <1>0 DEF TypeOK, Receipt
<1>3. ASSUME NEW s \in Steps, Goes(o, s)
      PROVE  work' \in [Outputs -> Works] /\ \A q \in Outputs \ {o} : work'[q] = work[q]
  BY <1>0, <1>3 DEF TypeOK, Goes, Works
<1>4. ASSUME NEW row \in Rows, Finished(o, row)
      PROVE  work' \in [Outputs -> Works] /\ \A q \in Outputs \ {o} : work'[q] = work[q]
  BY <1>0, <1>4 DEF TypeOK, Finished, Works, Steps
<1>5. ASSUME Broken(o)
      PROVE  work' \in [Outputs -> Works] /\ \A q \in Outputs \ {o} : work'[q] = work[q]
  BY <1>0, <1>5, RowFields DEF TypeOK, Broken, Works, Steps
<1>6. ASSUME NEW b \in Bytes, target' = [target EXCEPT ![o] = b]
      PROVE  target' \in [Outputs -> Bytes \cup {"none", "edited"}] /\ \A q \in Outputs \ {o} : target'[q] = target[q]
  BY <1>0, <1>6 DEF TypeOK
<1> DEFINE Fine == /\ work' \in [Outputs -> Works] /\ \A q \in Outputs \ {o} : work'[q] = work[q]
                   /\ target' \in [Outputs -> Bytes \cup {"none", "edited"}]
                   /\ \A q \in Outputs \ {o} : target'[q] = target[q]
                   /\ target[o] # "none" => target'[o] = target[o]
                   /\ sealed' \in [Outputs \X Generations -> SUBSET Bytes]
                   /\ \A q \in Outputs \ {o}, g \in Generations : sealed'[<<q, g>>] = sealed[<<q, g>>]
<1>7. ASSUME Replay(o) /\ UNCHANGED sealed PROVE Fine
  <2>1. Row(FALSE, "none") \in Rows /\ \A b \in sealed[Receipt(o)] : b \in Bytes /\ Row(TRUE, b) \in Rows
    BY <1>0, <1>2, RowFields DEF TypeOK
  <2>2. CASE sealed[Receipt(o)] = {}
    <3>1. Goes(o, "check") /\ UNCHANGED target
      BY <1>7, <2>2 DEF Replay
    <3> QED
      BY <1>0, <1>3, <1>7, <3>1 DEF TypeOK, Steps
  <2>3. CASE \E b \in sealed[Receipt(o)] : target[o] = "none" /\ target' = [target EXCEPT ![o] = b]
                                           /\ Finished(o, Row(TRUE, b))
    BY <1>0, <1>4, <1>6, <1>7, <2>1, <2>3 DEF TypeOK
  <2>4. CASE UNCHANGED target /\ \E row \in Rows : Finished(o, row)
    BY <1>0, <1>4, <1>7, <2>4 DEF TypeOK
  <2> QED
    BY <1>7, <2>1, <2>2, <2>3, <2>4 DEF Replay
<1>8. ASSUME Check(o) /\ UNCHANGED sealed PROVE Fine
  <2>1. run.previous[o] \in Rows /\ Row(FALSE, "none") \in Rows
    BY <1>0, RowFields DEF RunRecords
  <2>2. UNCHANGED target /\ (Goes(o, "host") \/ \E row \in Rows : Finished(o, row))
    BY <1>8, <2>1 DEF Check
  <2> QED
    BY <1>0, <1>3, <1>4, <1>8, <2>2 DEF TypeOK, Steps
<1>9. ASSUME Host(o) /\ UNCHANGED sealed PROVE Fine
  <2>1. work' \in [Outputs -> Works] /\ \A q \in Outputs \ {o} : work'[q] = work[q]
    <3>1. CASE Broken(o)
      BY <1>5, <3>1
    <3>2. CASE \E b \in Bytes : work' = [work EXCEPT ![o].step = "made", ![o].made = b]
      <4>1. PICK b \in Bytes : work' = [work EXCEPT ![o].step = "made", ![o].made = b]
        BY <3>2
      <4>2. work'[o] = [work[o] EXCEPT !.step = "made", !.made = b] /\ work'[o] \in Works
        BY <1>0, <4>1 DEF TypeOK, Works, Steps
      <4> QED
        BY <1>0, <4>1, <4>2 DEF TypeOK
    <3>3. CASE work' = [work EXCEPT ![o].step = "todo", ![o].tries = 1]
      BY <1>0, <3>3 DEF TypeOK, Works, Steps
    <3> QED
      BY <1>9, <3>1, <3>2, <3>3 DEF Host
  <2> QED
    BY <1>0, <1>9, <2>1 DEF TypeOK, Host
<1>10. ASSUME Seal(o) PROVE Fine
  <2>1. CASE target[o] = "none"
    <3>1. sealed' = [sealed EXCEPT ![Receipt(o)] = @ \cup {work[o].made}] /\ Goes(o, "sealed") /\ UNCHANGED target
      BY <1>10, <2>1 DEF Seal
    <3>2. work[o].made \in Bytes
      BY <1>0, <1>10 DEF OutputInv, MadeOnce, Seal
    <3>3. /\ sealed' \in [Outputs \X Generations -> SUBSET Bytes]
          /\ \A q \in Outputs \ {o}, g \in Generations : sealed'[<<q, g>>] = sealed[<<q, g>>]
      BY <1>0, <1>2, <3>1, <3>2 DEF TypeOK, Receipt
    <3> QED
      BY <1>0, <1>3, <3>1, <3>3 DEF TypeOK, Steps
  <2>2. CASE target[o] # "none"
    BY <1>0, <1>4, <1>10, <2>2, RowFields DEF TypeOK, Seal
  <2> QED
    BY <2>1, <2>2
<1>11. ASSUME Promote(o) /\ UNCHANGED sealed PROVE Fine
  <2>1. work[o].made \in Bytes
    BY <1>0, <1>11 DEF OutputInv, MadeOnce, Promote
  <2>2. work' \in [Outputs -> Works] /\ \A q \in Outputs \ {o} : work'[q] = work[q]
    BY <1>4, <1>5, <1>11, <2>1, RowFields DEF Promote
  <2>3. UNCHANGED target \/ (target[o] = "none" /\ target' = [target EXCEPT ![o] = work[o].made])
    BY <1>11 DEF Promote
  <2> QED
    BY <1>0, <1>6, <1>11, <2>1, <2>2, <2>3 DEF TypeOK
<1>12. ASSUME Fail(o) /\ UNCHANGED sealed PROVE Fine
  BY <1>0, <1>5, <1>12 DEF TypeOK, Fail
<1>13. Fine
  BY <1>7, <1>8, <1>9, <1>10, <1>11, <1>12 DEF Convert
<1> QED
  BY <1>0, <1>1, <1>13 DEF TypeOK, Same, Frame

LEMMA ConvertOthers ==
  ASSUME ConversionInv, NEW q \in Outputs, OutputInv(q), UNCHANGED Frame, Same(q)
  PROVE  OutputInv(q)'
<1>1. generation \in Generations
  BY DEF ConversionInv, TypeOK
<1>2. StepInRun(q)'
  BY DEF OutputInv, StepInRun, Same, Frame
<1>3. MadeOnce(q)'
  BY <1>1 DEF OutputInv, MadeOnce, Same, Frame, Receipt
<1>4. q \notin touched => TargetFollows(q)'
  BY <1>1 DEF OutputInv, TargetFollows, Same, Frame, Receipt
<1>5. q \notin touched => RowsFollow(q)'
  BY <1>1 DEF OutputInv, RowsFollow, Agrees, Same, Frame
<1>6. q \notin touched => RunKnows(q)'
  BY <1>1 DEF OutputInv, RunKnows, Saved, Same, Frame
<1>7. q \notin touched => RecognisedSoFar(q)'
  BY <1>1 DEF OutputInv, RecognisedSoFar, Vouched, Same, Frame, Receipt
<1> QED
  BY <1>2, <1>3, <1>4, <1>5, <1>6, <1>7 DEF OutputInv, Frame

\* An output is over and its file stays: what has to hold of its row.
LEMMA OverInv ==
  ASSUME ConversionInv, NEW o \in Outputs, UNCHANGED Frame, run.phase = "working",
         sealed' = sealed, target'[o] = target[o], work'[o].step = "done",
         o \notin touched =>
           /\ Agrees(o, work'[o].row)
           /\ \/ run.cancelled \/ work'[o].spoiled \/ work'[o].row.done
              \/ target[o] = "none" \/ ~Vouched(o)
  PROVE  OutputInv(o)'
<1>0. OutputInv(o)
  BY DEF ConversionInv
<1>1. StepInRun(o)' /\ MadeOnce(o)'
  BY <1>0 DEF OutputInv, StepInRun, MadeOnce, Frame, Receipt
<1>2. o \notin touched => TargetFollows(o)' /\ RowsFollow(o)' /\ RunKnows(o)'
  BY <1>0 DEF OutputInv, TargetFollows, RowsFollow, Agrees, RunKnows, Frame, Receipt
<1>3. o \notin touched => RecognisedSoFar(o)'
  BY DEF RecognisedSoFar, Vouched, Frame, Receipt
<1> QED
  BY <1>1, <1>2, <1>3 DEF OutputInv, Frame

\* An output goes on without a file of its own.
LEMMA GoesInv ==
  ASSUME ConversionInv, NEW o \in Outputs, UNCHANGED Frame, run.phase = "working",
         work[o].step # "done", sealed' = sealed, target'[o] = target[o],
         work'[o].step \in {"todo", "check", "host", "made"}, work'[o].row = work[o].row,
         work'[o].step = "made" => work'[o].made \in Bytes,
         work'[o].step # "todo" => sealed[Receipt(o)] = {},
         o \notin touched /\ work'[o].step \in {"host", "made"} => target[o] = "none"
  PROVE  OutputInv(o)'
<1>0. OutputInv(o)
  BY DEF ConversionInv
<1>1. StepInRun(o)' /\ MadeOnce(o)'
  BY <1>0 DEF OutputInv, StepInRun, MadeOnce, Frame, Receipt
<1>2. o \notin touched => TargetFollows(o)' /\ RowsFollow(o)'
  BY <1>0 DEF OutputInv, TargetFollows, RowsFollow, Agrees, Frame, Receipt
<1>3. o \notin touched => RunKnows(o)' /\ RecognisedSoFar(o)'
  BY <1>0 DEF OutputInv, RunKnows, Saved, RecognisedSoFar, Frame
<1> QED
  BY <1>1, <1>2, <1>3 DEF OutputInv, Frame

\* A file is put where none was, with the bytes the receipt has sealed.
LEMMA PutInv ==
  ASSUME ConversionInv, NEW o \in Outputs, UNCHANGED Frame, run.phase = "working",
         work[o].step # "done", target[o] = "none",
         sealed' = sealed, work'[o].step = "done",
         target'[o] \in sealed[Receipt(o)], target'[o] \in Bytes,
         \/ work'[o].row = Row(TRUE, target'[o])
         \/ work'[o].row = Row(FALSE, "none") /\ work'[o].spoiled
  PROVE  OutputInv(o)'
<1>0. OutputInv(o) /\ TypeOK
  BY DEF ConversionInv
<1>1. StepInRun(o)' /\ MadeOnce(o)'
  BY <1>0 DEF OutputInv, StepInRun, MadeOnce, Frame, Receipt
<1>2. TargetFollows(o)'
  BY <1>0 DEF TargetFollows, Frame, Receipt
<1>3. \A row \in Rows : Agrees(o, row) => ~row.done
  BY RowFields DEF Agrees
<1>4. ASSUME o \notin touched PROVE RowsFollow(o)'
  <2>1. /\ \A i \in DOMAIN history : history[i][o] \in Rows
        /\ \A i \in DOMAIN state : state[i][o] \in Rows
        /\ run.previous[o] \in Rows
    BY <1>0 DEF TypeOK, Saves, RunRecords
  <2>2. /\ \A i \in DOMAIN history : ~history[i][o].done
        /\ \A i \in DOMAIN state : ~state[i][o].done
        /\ ~run.previous[o].done
    BY <1>0, <1>3, <1>4, <2>1 DEF OutputInv, RowsFollow
  <2>3. Agrees(o, work[o].row)'
    BY RowFields DEF Agrees
  <2> QED
    BY <2>2, <2>3 DEF RowsFollow, Agrees, Frame
<1>5. RunKnows(o)' /\ RecognisedSoFar(o)'
  BY RowFields DEF RunKnows, RecognisedSoFar
<1> QED
  BY <1>1, <1>2, <1>4, <1>5 DEF OutputInv, Frame

\* Finished and Broken, spelled out.
LEMMA OverFields ==
  ASSUME TypeOK, NEW o \in Outputs
  PROVE  /\ \A row : Finished(o, row) => /\ work'[o].step = "done" /\ work'[o].row = row
                                         /\ work'[o].spoiled = work[o].spoiled
         /\ Broken(o) => /\ work'[o].step = "done" /\ work'[o].row = Row(FALSE, "none")
                         /\ work'[o].spoiled
         /\ \A s \in Steps : Goes(o, s) => work'[o] = [work[o] EXCEPT !.step = s]
<1>1. work[o] \in Works
  BY DEF TypeOK
<1>2. ASSUME NEW row, Finished(o, row)
      PROVE  work'[o].step = "done" /\ work'[o].row = row /\ work'[o].spoiled = work[o].spoiled
  BY <1>1, <1>2 DEF TypeOK, Finished, Works
<1>3. ASSUME Broken(o)
      PROVE  work'[o].step = "done" /\ work'[o].row = Row(FALSE, "none") /\ work'[o].spoiled
  BY <1>1, <1>3 DEF TypeOK, Broken, Works
<1>4. ASSUME NEW s \in Steps, Goes(o, s)
      PROVE  work'[o] = [work[o] EXCEPT !.step = s]
  BY <1>1, <1>4 DEF TypeOK, Goes
<1> QED
  BY <1>2, <1>3, <1>4

LEMMA RefusedFields ==
  ASSUME TypeOK, NEW o \in Outputs, Finished(o, Row(FALSE, "none"))
  PROVE  work'[o].step = "done" /\ ~work'[o].row.done
<1>1. work'[o].step = "done" /\ work'[o].row = Row(FALSE, "none")
  BY OverFields
<1> QED
  BY <1>1, RowFields

LEMMA BrokenInv ==
  ASSUME ConversionInv, NEW o \in Outputs, UNCHANGED Frame, run.phase = "working",
         sealed' = sealed, target' = target, Broken(o)
  PROVE  OutputInv(o)'
<1>1. TypeOK
  BY DEF ConversionInv
<1>2. work'[o].step = "done" /\ ~work'[o].row.done /\ work'[o].spoiled
  BY <1>1, OverFields, RowFields
<1> QED
  BY <1>2, OverInv DEF Agrees

LEMMA ReplayInv ==
  ASSUME ConversionInv, NEW o \in Outputs, UNCHANGED Frame, sealed' = sealed, Replay(o)
  PROVE  OutputInv(o)'
<1> DEFINE found == sealed[Receipt(o)]
<1>0. TypeOK /\ OutputInv(o) /\ work[o] \in Works /\ found \in SUBSET Bytes
  BY DEF ConversionInv, TypeOK, Receipt
<1>1. run.phase = "working" /\ work[o].step = "todo"
  BY DEF Replay, Taken
<1>2. CASE found = {}
  <2>1. Goes(o, "check") /\ UNCHANGED target
    BY <1>2 DEF Replay
  <2>2. work'[o].step = "check" /\ work'[o].row = work[o].row
    BY <1>0, <2>1, OverFields, ZenonT(60) DEF Steps, Works
  <2> QED
    BY <1>1, <1>2, <2>1, <2>2, GoesInv
<1>3. ASSUME NEW b \in found, found = {b}, ~run.cancelled
      PROVE  OutputInv(o)'
  <2>1. CASE target[o] = "none"
    <3>1. Finished(o, Row(TRUE, b)) /\ target' = [target EXCEPT ![o] = b]
      BY <1>3, <2>1 DEF Replay
    <3>2. target'[o] = b /\ b \in Bytes /\ work'[o].step = "done" /\ work'[o].row = Row(TRUE, b)
      BY <1>0, <1>3, <3>1, OverFields DEF TypeOK
    <3> QED
      BY <1>1, <1>3, <2>1, <3>2, PutInv
  <2>2. CASE target[o] = b
    <3>1. Finished(o, Row(TRUE, b)) /\ UNCHANGED target
      BY <1>0, <1>3, <2>2, RowFields DEF Replay
    <3>2. work'[o].step = "done" /\ work'[o].row = Row(TRUE, b)
      BY <1>0, <3>1, OverFields
    <3>3. work'[o].row.done /\ work'[o].row.sha = b
      BY <1>0, <1>3, <3>2, RowFields
    <3> QED
      BY <1>1, <2>2, <3>1, <3>2, <3>3, OverInv DEF Agrees
  <2>3. CASE target[o] \notin {"none", b}
    <3>1. Finished(o, Row(FALSE, "none")) /\ UNCHANGED target
      BY <1>3, <2>3 DEF Replay
    <3>2. work'[o].step = "done" /\ ~work'[o].row.done
      BY <1>0, <3>1, RefusedFields
    <3>3. o \in touched
      BY <1>0, <1>3, <2>3 DEF OutputInv, TargetFollows
    <3> QED
      BY <1>1, <3>1, <3>2, <3>3, OverInv
  <2> QED
    BY <2>1, <2>2, <2>3
<1>4. CASE found # {} /\ (run.cancelled \/ ~\E b \in found : found = {b})
  <2>1. Finished(o, Row(FALSE, "none")) /\ UNCHANGED target
    BY <1>4 DEF Replay
  <2>2. work'[o].step = "done" /\ ~work'[o].row.done
    BY <1>0, <2>1, RefusedFields
  <2>3. \A b, c \in found : b = c
    BY <1>0 DEF OutputInv, MadeOnce, Receipt, TypeOK
  <2>4. run.cancelled
    BY <1>4, <2>3
  <2> QED
    BY <1>1, <2>1, <2>2, <2>4, OverInv DEF Agrees
<1> QED
  BY <1>2, <1>3, <1>4

LEMMA CheckInv ==
  ASSUME ConversionInv, NEW o \in Outputs, UNCHANGED Frame, sealed' = sealed, Check(o)
  PROVE  OutputInv(o)'
<1> DEFINE old == run.previous[o]
<1>0. TypeOK /\ OutputInv(o) /\ work[o] \in Works /\ old \in Rows
  BY DEF ConversionInv, TypeOK, RunRecords
<1>1. run.phase = "working" /\ work[o].step = "check" /\ UNCHANGED target /\ sealed[Receipt(o)] = {}
  BY <1>0 DEF Check, OutputInv, MadeOnce
<1>2. CASE target[o] # "none" /\ old.done /\ old.sha = target[o]
  <2>1. Finished(o, old)
    BY <1>2 DEF Check
  <2>2. work'[o].step = "done" /\ work'[o].row = old
    BY <1>0, <2>1, OverFields
  <2> QED
    BY <1>1, <1>2, <2>2, OverInv DEF Agrees
<1>3. CASE target[o] # "none" /\ ~(old.done /\ old.sha = target[o])
  <2>1. Finished(o, Row(FALSE, "none"))
    BY <1>3 DEF Check
  <2>2. work'[o].step = "done" /\ ~work'[o].row.done
    BY <1>0, <2>1, RefusedFields
  <2>3. old # Row(TRUE, target[o])
    BY <1>3 DEF Row
  <2>4. o \notin touched => ~Vouched(o)
    BY <1>0, <1>1, <1>3, <2>3 DEF OutputInv, RunKnows, Saved, Vouched
  <2> QED
    BY <1>1, <2>2, <2>4, OverInv DEF Agrees
<1>4. CASE target[o] = "none" /\ Converts(o)
  <2>1. Goes(o, "host")
    BY <1>4 DEF Check
  <2>2. work'[o].step = "host" /\ work'[o].row = work[o].row
    BY <1>0, <2>1, OverFields, ZenonT(60) DEF Steps, Works
  <2> QED
    BY <1>1, <1>4, <2>2, GoesInv
<1>5. CASE target[o] = "none" /\ ~Converts(o)
  <2>1. Finished(o, Row(FALSE, "none"))
    BY <1>5 DEF Check
  <2>2. work'[o].step = "done" /\ ~work'[o].row.done
    BY <1>0, <2>1, RefusedFields
  <2> QED
    BY <1>1, <1>5, <2>2, OverInv DEF Agrees
<1> QED
  BY <1>2, <1>3, <1>4, <1>5

LEMMA HostInv ==
  ASSUME ConversionInv, NEW o \in Outputs, UNCHANGED Frame, sealed' = sealed, Host(o)
  PROVE  OutputInv(o)'
<1>0. TypeOK /\ OutputInv(o) /\ work[o] \in Works
  BY DEF ConversionInv, TypeOK
<1>1. /\ run.phase = "working" /\ work[o].step = "host" /\ UNCHANGED target
      /\ sealed[Receipt(o)] = {} /\ (o \notin touched => target[o] = "none")
  BY <1>0 DEF Host, OutputInv, MadeOnce, TargetFollows
<1>2. CASE Broken(o)
  BY <1>1, <1>2, BrokenInv
<1>3. ASSUME NEW b \in Bytes, work' = [work EXCEPT ![o].step = "made", ![o].made = b]
      PROVE  OutputInv(o)'
  <2>1. work'[o].step = "made" /\ work'[o].made = b /\ work'[o].row = work[o].row
    BY <1>0, <1>3 DEF TypeOK, Works
  <2> QED
    BY <1>1, <2>1, GoesInv
<1>4. CASE work' = [work EXCEPT ![o].step = "todo", ![o].tries = 1]
  <2>1. work'[o].step = "todo" /\ work'[o].row = work[o].row
    BY <1>0, <1>4 DEF TypeOK, Works
  <2> QED
    BY <1>1, <2>1, GoesInv
<1> QED
  BY <1>2, <1>3, <1>4 DEF Host

LEMMA SealInv ==
  ASSUME ConversionInv, NEW o \in Outputs, UNCHANGED Frame, Seal(o)
  PROVE  OutputInv(o)'
<1>0. /\ TypeOK /\ OutputInv(o) /\ work[o] \in Works
      /\ generation \in Generations /\ Receipt(o) \in Outputs \X Generations
  BY DEF ConversionInv, TypeOK, Receipt
<1>1. /\ run.phase = "working" /\ work[o].step = "made" /\ UNCHANGED target
      /\ sealed[Receipt(o)] = {} /\ (o \notin touched => target[o] = "none")
  BY <1>0 DEF Seal, OutputInv, MadeOnce, TargetFollows, StepInRun
<1>2. CASE target[o] = "none"
  <2>1. sealed' = [sealed EXCEPT ![Receipt(o)] = @ \cup {work[o].made}] /\ Goes(o, "sealed")
    BY <1>2 DEF Seal
  <2>2. work'[o].step = "sealed" /\ work'[o].made = work[o].made /\ work'[o].row = work[o].row
    BY <1>0, <2>1, OverFields, ZenonT(60) DEF Steps, Works
  <2>3. /\ sealed'[Receipt(o)] = {work[o].made} /\ work[o].made \in Bytes
        /\ \A g \in Generations : g # generation => sealed'[<<o, g>>] = sealed[<<o, g>>]
    BY <1>0, <1>1, <2>1 DEF TypeOK, Receipt, OutputInv, MadeOnce
  <2>4. StepInRun(o)'
    BY <1>1, <2>2 DEF StepInRun, Frame
  <2>5. MadeOnce(o)'
    <3>1. \A g \in Generations : g > generation => g # generation
      BY <1>0, ConversionAssumption
    <3>2. \A g \in Generations : /\ g > generation => sealed'[<<o, g>>] = {}
                                 /\ \A b, c \in sealed'[<<o, g>>] : b = c
      BY <1>0, <2>3, <3>1 DEF OutputInv, MadeOnce, Receipt
    <3> QED
      BY <2>2, <2>3, <3>2 DEF MadeOnce, Receipt, Frame
  <2>6. TargetFollows(o)'
    BY <1>1, <1>2 DEF TargetFollows
  <2>7. o \notin touched => RowsFollow(o)'
    BY <1>0, <1>1, <2>2 DEF OutputInv, RowsFollow, Agrees, Frame
  <2>8. RunKnows(o)' /\ RecognisedSoFar(o)'
    BY <1>1, <1>2 DEF RunKnows, RecognisedSoFar
  <2> QED
    BY <2>4, <2>5, <2>6, <2>7, <2>8 DEF OutputInv, Frame
<1>3. CASE target[o] # "none"
  <2>1. Finished(o, Row(FALSE, "none")) /\ UNCHANGED sealed
    BY <1>3 DEF Seal
  <2>2. work'[o].step = "done" /\ ~work'[o].row.done
    BY <1>0, <2>1, RefusedFields
  <2>3. o \in touched /\ sealed' = sealed
    BY <1>1, <1>3, <2>1
  <2> QED
    BY <1>1, <2>2, <2>3, OverInv
<1> QED
  BY <1>2, <1>3

LEMMA PromoteInv ==
  ASSUME ConversionInv, NEW o \in Outputs, UNCHANGED Frame, sealed' = sealed, Promote(o)
  PROVE  OutputInv(o)'
<1>0. TypeOK /\ OutputInv(o) /\ work[o] \in Works
  BY DEF ConversionInv, TypeOK
<1>1. /\ run.phase = "working" /\ work[o].step = "sealed"
      /\ sealed[Receipt(o)] = {work[o].made} /\ work[o].made \in Bytes
      /\ o \notin touched => target[o] = "none"
  BY <1>0 DEF Promote, OutputInv, MadeOnce, TargetFollows, StepInRun
<1>2. CASE target[o] = "none" /\ ~run.cancelled
  <2>1. target' = [target EXCEPT ![o] = work[o].made]
        /\ (Finished(o, Row(TRUE, work[o].made)) \/ Broken(o))
    BY <1>2 DEF Promote
  <2>2. target'[o] = work[o].made
    BY <1>0, <2>1 DEF TypeOK
  <2>3. work'[o].step = "done" /\ (work'[o].row = Row(TRUE, target'[o])
                                   \/ (work'[o].row = Row(FALSE, "none") /\ work'[o].spoiled))
    BY <1>0, <2>1, <2>2, OverFields
  <2> QED
    BY <1>1, <1>2, <2>2, <2>3, PutInv
<1>3. CASE ~(target[o] = "none" /\ ~run.cancelled)
  <2>1. Finished(o, Row(FALSE, "none")) /\ UNCHANGED target
    BY <1>3 DEF Promote
  <2>2. work'[o].step = "done" /\ ~work'[o].row.done
    BY <1>0, <2>1, RefusedFields
  <2> QED
    BY <1>1, <1>3, <2>1, <2>2, OverInv DEF Agrees
<1> QED
  BY <1>2, <1>3

LEMMA ConvertInv ==
  ASSUME ConversionInv, NEW o \in Outputs, Convert(o)
  PROVE  ConversionInv'
<1>1. UNCHANGED Frame /\ TypeOK' /\ \A q \in Outputs \ {o} : Same(q)
  BY ConvertShape
<1>2. OutputInv(o)'
  <2>1. CASE Fail(o) /\ UNCHANGED sealed
    <3>1. run.phase = "working"
      BY <2>1 DEF Fail, Taken, ConversionInv, OutputInv, StepInRun
    <3> QED
      BY <1>1, <2>1, <3>1, BrokenInv DEF Fail
  <2> QED
    BY <1>1, <2>1, ReplayInv, CheckInv, HostInv, SealInv, PromoteInv DEF Convert
<1>3. \A q \in Outputs \ {o} : OutputInv(q)'
  BY <1>1, ConvertOthers DEF ConversionInv
<1> QED
  BY <1>1, <1>2, <1>3 DEF ConversionInv

-----------------------------------------------------------------------------
(* The end of a run, and the project around it. *)

LEMMA SaveHistoryInv == ConversionInv /\ SaveHistory => ConversionInv'
<1> SUFFICES ASSUME ConversionInv, SaveHistory PROVE ConversionInv'
  OBVIOUS
<1>0. TypeOK /\ \A o \in Outputs : OutputInv(o)
  BY DEF ConversionInv
<1>1. /\ run.phase = "working" /\ run' = [run EXCEPT !.phase = "saving"]
      /\ history' = <<Results>> \o history /\ \A o \in Outputs : work[o].step = "done"
      /\ UNCHANGED <<target, sealed, state, generation, work, runs, edits, touched>>
  BY DEF SaveHistory
<1>2. Results \in Saves /\ history \in Seq(Saves)
  BY <1>0 DEF TypeOK, Results, Saves, Works
<1>3. /\ history' \in Seq(Saves)
      /\ \A i \in DOMAIN history' : history'[i] = Results \/ \E j \in DOMAIN history : history'[i] = history[j]
  BY <1>1, <1>2, Prepended
<1>4. /\ run' \in RunRecords /\ run'.phase = "saving" /\ run'.cancelled = run.cancelled
      /\ run'.previous = run.previous
  BY <1>0, <1>1 DEF TypeOK, RunRecords
<1>5. TypeOK'
  BY <1>0, <1>1, <1>3, <1>4 DEF TypeOK
<1>6. ASSUME NEW o \in Outputs PROVE OutputInv(o)'
  <2>0. OutputInv(o) /\ work[o].step = "done" /\ Results[o] = work[o].row /\ work[o].row \in Rows
    BY <1>0, <1>1 DEF Results, TypeOK, Works
  <2>1. StepInRun(o)' /\ MadeOnce(o)'
    BY <1>1, <1>4, <2>0 DEF OutputInv, StepInRun, MadeOnce, Receipt
  <2>2. o \notin touched => TargetFollows(o)'
    BY <1>1, <2>0 DEF OutputInv, TargetFollows, Receipt
  <2>3. o \notin touched => RowsFollow(o)'
    BY <1>1, <1>3, <1>4, <2>0 DEF OutputInv, RowsFollow, Agrees
  <2>4. RunKnows(o)'
    BY <1>4 DEF RunKnows
  <2>5. ASSUME o \notin touched PROVE RecognisedSoFar(o)'
    <3> SUFFICES ASSUME ~run.cancelled, target[o] # "none", Vouched(o)', ~work[o].spoiled
                 PROVE  work[o].row.done
      BY <1>1, <1>4 DEF RecognisedSoFar
    <3>1. CASE Vouched(o)
      BY <1>1, <2>0, <2>5, <3>1 DEF OutputInv, RecognisedSoFar
    <3>2. CASE ~Vouched(o)
      <4>1. Results[o] = Row(TRUE, target[o])
        BY <1>1, <1>3, <3>2 DEF Vouched, Receipt
      <4> QED
        BY <2>0, <4>1 DEF Row
    <3> QED
      BY <3>1, <3>2
  <2> QED
    BY <1>1, <2>1, <2>2, <2>3, <2>4, <2>5 DEF OutputInv
<1> QED
  BY <1>5, <1>6 DEF ConversionInv

\* A run that is over leaves nothing under way.
LEMMA IdleInv ==
  ASSUME ConversionInv, NEW o \in Outputs, run' = Idle,
         UNCHANGED <<target, sealed, generation, history, touched>>,
         work'[o].step \in {"todo", "done"},
         o \notin touched => Agrees(o, work'[o].row) /\ \A i \in DOMAIN state' : Agrees(o, state'[i][o])
  PROVE  OutputInv(o)'
<1>0. OutputInv(o) /\ run'.phase = "idle" /\ run'.previous[o] = NoRow
  BY DEF ConversionInv, Idle
<1>1. StepInRun(o)' /\ MadeOnce(o)'
  BY <1>0 DEF OutputInv, StepInRun, MadeOnce, Receipt
<1>2. o \notin touched => TargetFollows(o)'
  BY <1>0 DEF OutputInv, TargetFollows, Receipt
<1>3. o \notin touched => RowsFollow(o)'
  BY <1>0, RowFields DEF OutputInv, RowsFollow, Agrees
<1>4. RunKnows(o)' /\ RecognisedSoFar(o)'
  BY <1>0 DEF RunKnows, RecognisedSoFar
<1> QED
  BY <1>1, <1>2, <1>3, <1>4 DEF OutputInv

LEMMA IdleType == Idle \in RunRecords /\ Untried \in Works
<1>1. [o \in Outputs |-> NoRow] \in [Outputs -> Rows]
  BY RowFields
<1> QED
  BY <1>1, RowFields DEF Idle, RunRecords, Untried, Works, Steps

LEMMA SaveStateInv == ConversionInv /\ SaveState => ConversionInv'
<1> SUFFICES ASSUME ConversionInv, SaveState PROVE ConversionInv'
  OBVIOUS
<1>0. TypeOK /\ \A o \in Outputs : OutputInv(o)
  BY DEF ConversionInv
<1>1. /\ run.phase = "saving" /\ run' = Idle /\ state' = <<Results>>
      /\ UNCHANGED <<target, sealed, history, generation, work, runs, edits, touched>>
  BY DEF SaveState
<1>2. Results \in Saves /\ state' \in Seq(Saves) /\ \A i \in DOMAIN state' : state'[i] = Results
  BY <1>0, <1>1 DEF TypeOK, Results, Saves, Works
<1>3. TypeOK'
  BY <1>0, <1>1, <1>2, IdleType DEF TypeOK
<1>4. ASSUME NEW o \in Outputs PROVE OutputInv(o)'
  <2>1. work[o].step = "done" /\ (o \notin touched => Agrees(o, work[o].row)) /\ Results[o] = work[o].row
    BY <1>0, <1>1 DEF OutputInv, StepInRun, RowsFollow, Results
  <2> QED
    BY <1>1, <1>2, <2>1, IdleInv
<1> QED
  BY <1>3, <1>4 DEF ConversionInv

LEMMA CrashInv == ConversionInv /\ Crash => ConversionInv'
<1> SUFFICES ASSUME ConversionInv, Crash PROVE ConversionInv'
  OBVIOUS
<1>0. TypeOK /\ \A o \in Outputs : OutputInv(o)
  BY DEF ConversionInv
<1>1. /\ run' = Idle /\ work' = [o \in Outputs |-> Untried]
      /\ UNCHANGED <<target, sealed, state, history, generation, runs, edits, touched>>
  BY DEF Crash, durable
<1>2. TypeOK'
  BY <1>0, <1>1, IdleType DEF TypeOK
<1>3. ASSUME NEW o \in Outputs PROVE OutputInv(o)'
  <2>1. work'[o].step = "todo" /\ ~work'[o].row.done
    BY <1>1, RowFields DEF Untried
  <2>2. o \notin touched => \A i \in DOMAIN state : Agrees(o, state[i][o])
    BY <1>0 DEF OutputInv, RowsFollow
  <2> QED
    BY <1>1, <2>1, <2>2, IdleInv DEF Agrees
<1> QED
  BY <1>2, <1>3 DEF ConversionInv

LEMMA CancelInv == ConversionInv /\ Cancel => ConversionInv'
<1> SUFFICES ASSUME ConversionInv, Cancel PROVE ConversionInv'
  OBVIOUS
<1>0. TypeOK /\ \A o \in Outputs : OutputInv(o)
  BY DEF ConversionInv
<1>1. /\ run' = [run EXCEPT !.cancelled = TRUE]
      /\ UNCHANGED <<target, sealed, state, history, generation, work, runs, edits, touched>>
  BY DEF Cancel, durable
<1>2. run' \in RunRecords /\ run'.cancelled /\ run'.phase = run.phase /\ run'.previous = run.previous
  BY <1>0, <1>1 DEF TypeOK, RunRecords
<1>3. TypeOK'
  BY <1>0, <1>1, <1>2 DEF TypeOK
<1>4. ASSUME NEW o \in Outputs PROVE OutputInv(o)'
  <2>1. StepInRun(o)' /\ MadeOnce(o)'
    BY <1>0, <1>1, <1>2 DEF OutputInv, StepInRun, MadeOnce, Receipt
  <2>2. o \notin touched => TargetFollows(o)' /\ RowsFollow(o)'
    BY <1>0, <1>1, <1>2 DEF OutputInv, TargetFollows, RowsFollow, Agrees, Receipt
  <2>3. o \notin touched => RunKnows(o)' /\ RecognisedSoFar(o)'
    BY <1>0, <1>1, <1>2 DEF OutputInv, RunKnows, Saved, RecognisedSoFar
  <2> QED
    BY <1>1, <2>1, <2>2, <2>3 DEF OutputInv
<1> QED
  BY <1>3, <1>4 DEF ConversionInv

LEMMA ReextractInv == ConversionInv /\ Reextract => ConversionInv'
<1> SUFFICES ASSUME ConversionInv, Reextract PROVE ConversionInv'
  OBVIOUS
<1>0. TypeOK /\ \A o \in Outputs : OutputInv(o)
  BY DEF ConversionInv
<1>1. /\ run.phase = "idle" /\ generation' = generation + 1 /\ generation + 1 \in Generations
      /\ UNCHANGED <<target, sealed, state, history, run, work, runs, edits, touched>>
  BY DEF Reextract
<1>2. TypeOK'
  BY <1>0, <1>1 DEF TypeOK
<1>3. generation \in Nat /\ Generations \subseteq Nat
  BY <1>0, ConversionAssumption DEF TypeOK
<1>4. ASSUME NEW o \in Outputs PROVE OutputInv(o)'
  <2>0. OutputInv(o) /\ work[o].step \in {"todo", "done"}
    BY <1>0, <1>1 DEF OutputInv, StepInRun
  <2>1. sealed[<<o, generation + 1>>] = {}
    BY <1>1, <1>3, <2>0 DEF OutputInv, MadeOnce
  <2>2. StepInRun(o)' /\ MadeOnce(o)'
    BY <1>1, <1>3, <2>0 DEF OutputInv, StepInRun, MadeOnce
  <2>3. TargetFollows(o)'
    BY <1>1, <2>0, <2>1 DEF TargetFollows, Receipt
  <2>4. o \notin touched => RowsFollow(o)'
    BY <1>1, <2>0 DEF OutputInv, RowsFollow, Agrees
  <2>5. RunKnows(o)' /\ RecognisedSoFar(o)'
    BY <1>1 DEF RunKnows, RecognisedSoFar
  <2> QED
    BY <1>1, <2>2, <2>3, <2>4, <2>5 DEF OutputInv
<1> QED
  BY <1>2, <1>4 DEF ConversionInv

\* What is left of an output changed by hand is what does not speak of the file.
LEMMA EditInv ==
  ASSUME ConversionInv, NEW o \in Outputs, EditByHand(o)
  PROVE  ConversionInv'
<1>0. TypeOK /\ \A q \in Outputs : OutputInv(q)
  BY DEF ConversionInv
<1>1. /\ \E b \in {"none", "edited"} \ {target[o]} : target' = [target EXCEPT ![o] = b]
      /\ edits' = edits + 1 /\ touched' = touched \cup {o}
      /\ UNCHANGED <<sealed, state, history, generation, run, work, runs>>
  BY DEF EditByHand
<1>2. TypeOK'
  BY <1>0, <1>1 DEF TypeOK
<1>3. ASSUME NEW q \in Outputs PROVE OutputInv(q)'
  <2>1. StepInRun(q)' /\ MadeOnce(q)'
    BY <1>0, <1>1 DEF OutputInv, StepInRun, MadeOnce, Receipt
  <2>2. ASSUME q \notin touched'
        PROVE  TargetFollows(q)' /\ RowsFollow(q)' /\ RunKnows(q)' /\ RecognisedSoFar(q)'
    <3>1. target'[q] = target[q] /\ q \notin touched
      BY <1>0, <1>1, <2>2 DEF TypeOK
    <3> QED
      BY <1>0, <1>1, <3>1, ZenonT(60) DEF OutputInv, TargetFollows, RowsFollow, Agrees, RunKnows, Saved,
         RecognisedSoFar, Vouched, Receipt
  <2> QED
    BY <2>1, <2>2 DEF OutputInv
<1> QED
  BY <1>2, <1>3 DEF ConversionInv

LEMMA StutterInv == ConversionInv /\ UNCHANGED vars => ConversionInv'
<1> SUFFICES ASSUME ConversionInv, UNCHANGED vars PROVE ConversionInv'
  OBVIOUS
<1>1. TypeOK'
  BY DEF vars, ConversionInv, TypeOK
<1>2. ASSUME NEW o \in Outputs PROVE OutputInv(o)'
  BY ConvertOthers DEF vars, Frame, Same, ConversionInv
<1> QED
  BY <1>1, <1>2 DEF ConversionInv

-----------------------------------------------------------------------------
(* Theorems. *)

\* What every step of a conversion run, a crash or a hand keeps for each output
\* by itself: who may have sealed, vouched for and moved its file
\* (conversion_run.rs, conversion_publication.rs).
THEOREM ConversionInvariant == Spec => []ConversionInv
<1>1. ConversionInv /\ [Next]_vars => ConversionInv'
  BY BeginInv, ConvertInv, EditInv, SaveHistoryInv, SaveStateInv, CrashInv, CancelInv,
     ReextractInv, StutterInv DEF Next
<1> QED
  BY InitInv, <1>1, PTL DEF Spec

\* The types of all files and of the run (conversion_run.rs).
THEOREM TypeCorrect == Spec => []TypeOK
  BY ConversionInvariant, PTL DEF ConversionInv

\* No crash, error, cancellation or new extraction leads to a second sealed copy
\* of an output that differs from the first (conversion_publication.rs).
THEOREM OneCopyIsSealed == Spec => []OneSealedCopy
<1>1. ConversionInv => OneSealedCopy
  <2> SUFFICES ASSUME ConversionInv, NEW k \in DOMAIN sealed, NEW b \in sealed[k], NEW c \in sealed[k]
               PROVE  b = c
    BY DEF OneSealedCopy
  <2>1. PICK o \in Outputs, g \in Generations : k = <<o, g>>
    BY DEF ConversionInv, TypeOK
  <2> QED
    BY <2>1 DEF ConversionInv, OutputInv, MadeOnce
<1> QED
  BY ConversionInvariant, <1>1, PTL

\* A run without errors reports every output in place that a receipt or a saved
\* run vouches for, whatever died before it (conversion_run.rs).
THEOREM PublishedIsRecognised == Spec => []PublishedRecognised
<1>1. ConversionInv => PublishedRecognised
  <2> SUFFICES ASSUME ConversionInv, run.phase = "saving", ~run.cancelled, NEW o \in Outputs \ touched,
                      target[o] # "none", Vouched(o), ~work[o].spoiled
               PROVE  work[o].row.done
    BY DEF PublishedRecognised
  <2>1. OutputInv(o)
    BY DEF ConversionInv
  <2> QED
    BY <2>1 DEF OutputInv, StepInRun, RecognisedSoFar
<1> QED
  BY ConversionInvariant, <1>1, PTL

\* No step of the program replaces or removes a file in the delivery folder
\* (conversion_publication.rs).
THEOREM NothingIsOverwritten == Spec => NothingOverwritten
<1> DEFINE Kept == \A o \in Outputs : target[o] # "none" /\ edits' = edits => target'[o] = target[o]
<1>1. ConversionInv /\ [Next]_vars => [Kept]_vars
  <2> SUFFICES ASSUME ConversionInv, Next PROVE Kept
    BY DEF vars
  <2>1. ASSUME NEW o \in Outputs, Convert(o) PROVE Kept
    BY <2>1, ConvertShape DEF Same
  <2>2. ASSUME NEW o \in Outputs, EditByHand(o) PROVE Kept
    <3>1. edits \in Nat /\ edits' = edits + 1
      BY <2>2 DEF EditByHand, ConversionInv, TypeOK
    <3> QED
      BY <3>1
  <2>3. CASE UNCHANGED target
    BY <2>3
  <2> QED
    BY <2>1, <2>2, <2>3 DEF Next, Begin, SaveHistory, SaveState, Crash, Cancel, Reextract, durable, vars
<1> QED
  BY ConversionInvariant, <1>1, PTL DEF Spec, NothingOverwritten
=============================================================================
