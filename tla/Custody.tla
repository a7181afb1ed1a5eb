------------------------------- MODULE Custody -------------------------------
(***************************************************************************)
(* What the coordinator promises about every floppy label, without         *)
(* tickets, files or restarts: where the label is, and which stations have *)
(* sealed evidence of it.  A station holds one label at a time, a label    *)
(* leaves a station only with evidence sealed there, by the release of a   *)
(* rejected GW identity (its USB evidence stays, its label is queued       *)
(* again) or as an unread offer, and a finished label never comes back.    *)
(***************************************************************************)
CONSTANT Labels

VARIABLES place,   \* label -> "unread", "usb", "queue", "gw" or "done"
          sealed   \* label -> stations whose evidence is sealed

Stations == {"usb", "gw"}

CustodyInit ==
  /\ place = [d \in Labels |-> "unread"]
  /\ sealed = [d \in Labels |-> {}]

Free(s) == \A d \in Labels : place[d] # s

\* The next fresh label is put into a free station.
Feed(d, s) ==
  /\ place[d] = "unread" /\ Free(s)
  /\ place' = [place EXCEPT ![d] = s]
  /\ UNCHANGED sealed

Seal(d, s) ==
  /\ place[d] = s /\ s \notin sealed[d]
  /\ sealed' = [sealed EXCEPT ![d] = @ \cup {s}]
  /\ UNCHANGED place

\* A USB partial waits for the GW station; a queued label moves there.
SetAside(d) ==
  /\ place[d] = "usb" /\ sealed[d] = {"usb"}
  /\ place' = [place EXCEPT ![d] = "queue"]
  /\ UNCHANGED sealed

Transfer(d) ==
  /\ place[d] = "queue" /\ Free("gw")
  /\ place' = [place EXCEPT ![d] = "gw"]
  /\ UNCHANGED sealed

\* A wrong floppy was read under this label: back to the queue, unread by GW.
Release(d) ==
  /\ place[d] = "gw" /\ sealed[d] = {"usb"}
  /\ place' = [place EXCEPT ![d] = "queue"]
  /\ UNCHANGED sealed

\* An unread fresh offer gives its station to a queued label.
Swap(offer, d) ==
  /\ place[offer] = "gw" /\ sealed[offer] = {}
  /\ place[d] = "queue"
  /\ place' = [place EXCEPT ![offer] = "unread", ![d] = "gw"]
  /\ UNCHANGED sealed

Finish(d, s) ==
  /\ place[d] = s /\ s \in sealed[d]
  /\ place' = [place EXCEPT ![d] = "done"]
  /\ UNCHANGED sealed

CustodyNext ==
  \E d \in Labels :
    \/ SetAside(d) \/ Transfer(d) \/ Release(d)
    \/ \E s \in Stations : Feed(d, s) \/ Seal(d, s) \/ Finish(d, s)
    \/ \E offer \in Labels : Swap(offer, d)

CustodySpec == CustodyInit /\ [][CustodyNext]_<<place, sealed>>
=============================================================================
