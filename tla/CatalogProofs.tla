---------------------------- MODULE CatalogProofs ----------------------------
(***************************************************************************)
(* Proofs about the attempts saved of a label, for every floppy, every     *)
(* reading of it and any number of acquisitions, crashes and files changed *)
(* by hand.                                                                *)
(*                                                                         *)
(* A part of the inductive invariant holds always: who holds the gate, and *)
(* that what the holder has put in its slot stays there until it is done.  *)
(* The rest holds while no acquisition has taken a number from its owner   *)
(* and no image was changed by hand: the files of a complete attempt agree *)
(* with each other and with the recipe it was derived by, and the sources  *)
(* of every recipe are still the attempts it was planned from.             *)
(***************************************************************************)
EXTENDS ImageCatalog, FiniteSetTheorems, WellFoundedInduction, TLAPS

\* What a sector may hold, and what the files of a label are made of.
Bytes   == {Zero} \cup UNION {{r[s] : s \in Sectors} : r \in Readings \cup GwReadings}
Images  == [Sectors -> Bytes \ {"none"}]
Recipes == UNION {[S -> Images] : S \in SUBSET Slots}
Docs    == [by : {"usb", "gw"}, data : Images, from : {<<>>}]
             \cup [by : {"offline"}, data : Images, from : Recipes]

Jobs  == [slot : 0 .. MaxSlot, data : Images \cup {Blank}, done : BOOLEAN]
Reads == [pc : {"off", "chosen", "reading", "written", "image", "log", "meta"},
          slot : 0 .. MaxSlot, data : Images \cup {Blank}, fresh : BOOLEAN]
Derivations == [pc : {"off", "stage", "reserve", "report", "image", "log", "meta"},
                slot : 0 .. MaxSlot, from : Recipes \cup {<<>>}]

\* Files, publishers and history, each of its type.
TypeOK ==
  /\ part \in [Slots -> Docs \cup {Nothing, Torn}] /\ wip \subseteq Slots
  /\ img \in [Slots -> Images \cup {Blank, Changed}]
  /\ log \in [Slots -> Docs \cup {Nothing}] /\ meta \in [Slots -> Docs \cup {Nothing}]
  /\ reports \subseteq [from : Recipes, slot : Slots] /\ stages \subseteq Recipes
  /\ job \in Jobs /\ usb \in Reads /\ derive \in Derivations
  /\ gw \in {"off", "record", "log", "image", "meta"}
  /\ gate \in {"free", "usb", "offline", "gw"}
  /\ contested \subseteq Slots /\ edited \subseteq Slots /\ edits \in Nat

UsbDoc == Doc("usb", usb.data, <<>>)

\* One publisher at a time is past its number.
GateHeld ==
  /\ gate = "usb" <=> usb.pc \in {"image", "log", "meta"}
  /\ gate = "offline" <=> derive.pc # "off"
  /\ gate = "gw" <=> gw # "off"

\* The image a publisher has put in its slot stays there until it is done, and
\* what an acquisition wrote beside its unfinished image is its own.
HolderKept ==
  /\ usb.pc # "off" => usb.fresh /\ usb.slot \in Slots
  /\ usb.pc \in {"written", "image", "log", "meta"}
       => usb.data \in Images /\ part[usb.slot] = UsbDoc
  /\ usb.pc \in {"log", "meta"} => img[usb.slot] = usb.data
  /\ derive.pc # "off" => derive.from \in Recipes
  /\ derive.pc \in {"report", "image", "log", "meta"} => derive.slot \in Slots
  /\ derive.pc \in {"log", "meta"} => img[derive.slot] = Replay(derive.from)
  /\ job.slot # 0 => job.data \in Images
  /\ gw # "off" => job.slot \in Slots
  /\ gw = "meta" => img[job.slot] = job.data

\* Complete attempts have an image.
ImageThere == \A n \in Slots : meta[n] # Nothing => img[n] # Blank

\* Attempts that differ are never merged.
Agreeing ==
  /\ \A r \in reports : Conflicts(r.from) = {}
  /\ derive.pc # "off" => Conflicts(derive.from) = {}

\* A complete attempt: its files agree, and it is not taken for another's.
Matched(n) ==
  meta[n] # Nothing =>
    /\ img[n] = meta[n].data /\ log[n] = meta[n]
    /\ IF meta[n].by = "offline"
         THEN meta[n].data = Replay(meta[n].from) /\ [from |-> meta[n].from, slot |-> n] \in reports
         ELSE part[n].by # "offline"

\* The sources of a recipe are complete attempts with the data it names.
Sources(from) == \A m \in DOMAIN from : meta[m] # Nothing /\ meta[m].data = from[m]

\* What holds while no number was taken from its owner and no file was changed
\* by hand.
Undisturbed ==
  /\ \A n \in Slots : Matched(n)
  /\ \A r \in reports : Sources(r.from)
  /\ derive.pc # "off" => Sources(derive.from)
  /\ usb.pc \in {"written", "image", "log", "meta"} => meta[usb.slot] = Nothing
  /\ usb.pc = "meta" => log[usb.slot] = UsbDoc
  /\ derive.pc \in {"report", "image", "log", "meta"} => part[derive.slot] = Derived
  /\ derive.pc \in {"image", "log", "meta"} => Publication \in reports
  /\ derive.pc = "meta" => log[derive.slot] = Derived
  /\ gw \in {"image", "meta"} => log[job.slot] = GwDoc

CatalogInv ==
  /\ TypeOK /\ GateHeld /\ HolderKept /\ ImageThere /\ Agreeing
  /\ contested = {} /\ edited = {} => Undisturbed

-----------------------------------------------------------------------------
(* Numbers and choices. *)

\* A set of numbers up to N has a least one: the smallest of the intervals 0..n
\* in it.
LEMMA LeastBelow ==
  ASSUME NEW N \in Nat, NEW A, A \subseteq 0 .. N, A # {}
  PROVE \E x \in A : \A y \in A : ~(y < x)
<1> DEFINE S == 0 .. N
           T == {0 .. n : n \in A}
           R == StrictSubsetOrdering(S)
<1>1. IsFiniteSet(S) BY FS_Interval
<1>2. IsWellFoundedOn(R, SUBSET S)
  BY <1>1, FS_StrictSubsetOrderingWellFounded, FS_FiniteSubsetsOfFinite
<1>3. T \subseteq SUBSET S /\ T # {}
  <2>1. \A n \in A : 0 .. n \in SUBSET (0 .. N) OBVIOUS
  <2> QED BY <2>1
<1> HIDE DEF T, R
<1>4. PICK X \in T : \A Y \in T : ~ (<<Y, X>> \in R) BY <1>2, <1>3, WFMin
<1> USE DEF T, R
<1>5. PICK x \in A : X = 0 .. x OBVIOUS
<1>6. ASSUME NEW y \in A, y < x PROVE FALSE
  <2>1. x \in X /\ x \notin 0 .. y /\ 0 .. y \subseteq X BY <1>5, <1>6
  <2>2. 0 .. y \in T /\ 0 .. y \subseteq X /\ 0 .. y # X BY <2>1
  <2>3. <<0 .. y, X>> \in R BY <2>2, <1>3, <1>4 DEF StrictSubsetOrdering
  <2> QED BY <1>4, <2>2, <2>3
<1> QED BY <1>6

\* A non-empty set of natural numbers has a least one.
LEMMA Least ==
  ASSUME NEW T, T \subseteq Nat, T # {} PROVE \E x \in T : \A y \in T : ~(y < x)
<1>1. PICK N \in T : TRUE OBVIOUS
<1>2. T \cap 0 .. N \subseteq 0 .. N /\ T \cap 0 .. N # {} BY <1>1
<1>3. PICK x \in T \cap 0 .. N : \A y \in T \cap 0 .. N : ~(y < x) BY <1>1, <1>2, LeastBelow
<1> QED BY <1>1, <1>3

\* A non-empty set of attempt numbers, and zero, has a greatest one.
LEMMA MaxIs ==
  ASSUME NEW S, S \subseteq 0 .. MaxSlot, S # {}
  PROVE  Max(S) \in S /\ \A y \in S : y <= Max(S)
<1> USE CatalogAssumption
<1> DEFINE T == {MaxSlot - x : x \in S}
<1>1. T \subseteq Nat /\ T # {}
  <2>1. \A x \in 0 .. MaxSlot : MaxSlot - x \in Nat OBVIOUS
  <2>2. \A x \in S : MaxSlot - x \in Nat BY <2>1
  <2>3. PICK x \in S : TRUE OBVIOUS
  <2>4. MaxSlot - x \in T OBVIOUS
  <2>5. ASSUME NEW t \in T PROVE t \in Nat BY <2>2
  <2> QED BY <2>4, <2>5
<1> HIDE DEF T
<1>2. PICK t \in T : \A y \in T : ~(y < t) BY <1>1, Least
<1> USE DEF T
<1>3. PICK x \in S : t = MaxSlot - x OBVIOUS
<1>4. ASSUME NEW y \in S PROVE x >= y
  <2>1. MaxSlot - y \in T OBVIOUS
  <2>2. ~(MaxSlot - y < MaxSlot - x) BY <1>2, <1>3, <2>1
  <2>3. x \in Int /\ y \in Int /\ MaxSlot \in Int OBVIOUS
  <2> HIDE DEF T
  <2> QED BY <2>2, <2>3
<1>5. Max(S) \in S /\ \A y \in S : Max(S) >= y BY <1>4 DEF Max
<1>6. S \subseteq Int OBVIOUS
<1> QED BY <1>5, <1>6

\* next_attempt_number gives a number that no file has.
LEMMA NumberIsFree == NextNumber \in Slots => ~Named(NextNumber)
<1> DEFINE S == {0} \cup {n \in Slots : Named(n)}
<1>1. S \subseteq 0 .. MaxSlot /\ S # {} BY CatalogAssumption DEF Slots
<1> HIDE DEF S
<1>2. Max(S) \in S /\ \A y \in S : y <= Max(S) BY <1>1, MaxIs
<1>3. Max(S) \in Int
  <2>1. Max(S) \in 0 .. MaxSlot BY <1>1, <1>2
  <2> HIDE DEF Max
  <2> QED BY <2>1, CatalogAssumption
<1>4. 1 + Max(S) \notin S BY <1>1, <1>2, <1>3
<1>5. NextNumber = 1 + Max(S) BY DEF NextNumber, S
<1> QED BY <1>4, <1>5 DEF S

\* The best attempt is one of the physical ones.
LEMMA BestIs ==
  ASSUME TypeOK, Physical # {} PROVE Best \in Physical
<1> DEFINE L == {Lack(n) : n \in Physical}
<1>1. \A n \in Physical : Lack(n) \in Nat
  <2> SUFFICES ASSUME NEW n \in Physical PROVE Lack(n) \in Nat OBVIOUS
  <2>1. Missing(meta[n].data) \subseteq Sectors BY DEF Missing
  <2>2. IsFiniteSet(Missing(meta[n].data)) BY <2>1, CatalogAssumption, FS_Subset
  <2> QED BY <2>2, FS_CardinalityType DEF Lack
<1>2. L \subseteq Nat /\ L # {} BY <1>1
<1> HIDE DEF L
<1>3. PICK l \in L : \A k \in L : ~(k < l) BY <1>2, Least
<1> DEFINE T == {n \in Physical : Lack(n) = l}
<1>4. T \subseteq 0 .. MaxSlot /\ T # {}
  BY <1>3, CatalogAssumption DEF L, Physical, Complete, Slots
<1> HIDE DEF T
<1>5. Max(T) \in T /\ \A y \in T : y <= Max(T) BY <1>4, MaxIs
<1> DEFINE b == Max(T)
<1>6. ASSUME NEW m \in Physical PROVE Lack(b) < Lack(m) \/ (Lack(b) = Lack(m) /\ b >= m)
  <2>1. Lack(m) \in L /\ Lack(m) \in Nat /\ ~(Lack(m) < l) BY <1>1, <1>3 DEF L
  <2>2. Lack(b) = l /\ l \in Nat BY <1>2, <1>5 DEF T
  <2>3. Lack(m) = l => m <= b BY <1>5 DEF T
  <2>4. b \in Int /\ m \in Int
    <3>1. b \in Physical BY <1>5 DEF T
    <3>2. Physical \subseteq Int BY CatalogAssumption DEF Physical, Complete, Slots
    <3> QED BY <3>1, <3>2
  <2> HIDE DEF b
  <2> QED BY <2>1, <2>2, <2>3, <2>4
<1>7. b \in Physical BY <1>5 DEF T
<1> HIDE DEF b
<1> QED BY <1>6, <1>7 DEF Best

-----------------------------------------------------------------------------
(* Documents and images. *)

\* A document is read back as it was written.
LEMMA Kinds ==
  /\ \A by, data, from : /\ Doc(by, data, from).by = by
                         /\ Doc(by, data, from).data = data
                         /\ Doc(by, data, from).from = from
  /\ Nothing.by = "none" /\ Torn.by = "torn"
  BY DEF Doc, Nothing, Torn

\* What the publishers write are documents.
LEMMA DocTyped ==
  /\ \A d \in Docs : /\ d.by \in {"usb", "gw", "offline"} /\ d.data \in Images
                     /\ d.by = "offline" => d.from \in Recipes
  /\ \A data \in Images : Doc("usb", data, <<>>) \in Docs /\ Doc("gw", data, <<>>) \in Docs
  /\ \A data \in Images, from \in Recipes : Doc("offline", data, from) \in Docs
<1>1. \A d \in Docs : /\ d.by \in {"usb", "gw", "offline"} /\ d.data \in Images
                      /\ d.by = "offline" => d.from \in Recipes
  BY DEF Docs
<1>2. \A data \in Images : Doc("usb", data, <<>>) \in Docs /\ Doc("gw", data, <<>>) \in Docs
  BY DEF Docs, Doc
<1>3. \A data \in Images, from \in Recipes : Doc("offline", data, from) \in Docs
  BY DEF Docs, Doc
<1> QED BY <1>1, <1>2, <1>3

\* An image is never taken for one that is not there.
LEMMA ImageShows == \A data \in Images : data # Blank
<1> SUFFICES ASSUME NEW data \in Images, data = Blank PROVE FALSE OBVIOUS
<1>1. data[Boot] # "none" BY CatalogAssumption DEF Images
<1>2. Blank[Boot] = "none" BY CatalogAssumption DEF Blank
<1> QED BY <1>1, <1>2

\* Nor is a file changed by hand.
LEMMA ChangedShows == Changed # Blank
<1>1. Changed[Boot] = "changed" BY CatalogAssumption DEF Changed
<1>2. Blank[Boot] = "none" BY CatalogAssumption DEF Blank
<1> QED BY <1>1, <1>2

\* A reading of a floppy is an image.
LEMMA ReadingIs == \A r \in Readings \cup GwReadings : r \in Images
<1> SUFFICES ASSUME NEW r \in Readings \cup GwReadings PROVE r \in Images OBVIOUS
<1> DEFINE T == {r[s] : s \in Sectors}
<1>1. r \in [Sectors -> T \ {"none"}] BY CatalogAssumption
<1>2. T \subseteq Bytes BY DEF Bytes
<1> HIDE DEF T
<1> QED BY <1>1, <1>2 DEF Images

-----------------------------------------------------------------------------
(* Derivation. *)

\* A composite has in each sector what the last attempt that read it gave.
LEMMA CompositeIs ==
  ASSUME NEW from \in Recipes, NEW s \in Sectors
  PROVE  /\ Donors(from, s) = {} => Composite(from)[s] = Zero
         /\ Donors(from, s) # {} => \E n \in Donors(from, s) : Composite(from)[s] = from[n][s]
         /\ Donors(from, s) \subseteq DOMAIN from
         /\ \A n \in DOMAIN from : from[n] \in Images
<1>1. PICK S \in SUBSET Slots : from \in [S -> Images] BY DEF Recipes
<1>2. Donors(from, s) \subseteq S /\ DOMAIN from = S BY <1>1 DEF Donors
<1>3. Donors(from, s) \subseteq 0 .. MaxSlot BY <1>2, CatalogAssumption DEF Slots
<1>4. ASSUME Donors(from, s) # {} PROVE Max(Donors(from, s)) \in Donors(from, s)
  BY <1>3, <1>4, MaxIs
<1>5. Composite(from)[s]
        = IF Donors(from, s) = {} THEN Zero ELSE from[Max(Donors(from, s))][s]
  BY DEF Composite
<1>6. \A n \in DOMAIN from : from[n] \in Images BY <1>1
<1> HIDE DEF Donors, Max
<1> QED BY <1>2, <1>4, <1>5, <1>6

\* What a recipe gives is an image.
LEMMA ReplayIs == \A from \in Recipes : Replay(from) \in Images
<1> SUFFICES ASSUME NEW from \in Recipes PROVE Replay(from) \in Images OBVIOUS
<1> DEFINE C == Composite(from)
<1>1. ASSUME NEW s \in Sectors PROVE C[s] \in Bytes \ {"none"}
  <2>1. CASE Donors(from, s) = {}
    BY <2>1, CompositeIs, CatalogAssumption DEF Bytes
  <2>2. CASE Donors(from, s) # {}
    <3>1. PICK n \in Donors(from, s) : C[s] = from[n][s] BY <2>2, CompositeIs
    <3>2. from[n] \in Images BY CompositeIs
    <3> QED BY <3>1, <3>2 DEF Images
  <2> QED BY <2>1, <2>2
<1> HIDE DEF C
<1>2. ASSUME NEW s \in Sectors
      PROVE  (IF C[s] = Zero /\ Twin(C, s) THEN C[Mirror[s]] ELSE C[s]) \in Bytes \ {"none"}
  BY <1>1, CatalogAssumption DEF Twin
<1>3. Replay(from) = MirroredFat(C) BY DEF Replay, C
<1> QED BY <1>2, <1>3 DEF MirroredFat, Images

\* What attempts that agree give is what each of them read, and no sector lacks
\* that one of them, or the other copy of the FAT, has.
LEMMA ReplayTruthful ==
  ASSUME NEW from \in Recipes, Conflicts(from) = {}, NEW s \in Sectors, NEW m \in DOMAIN from
  PROVE  \/ from[m][s] = Zero /\ (Replay(from)[s] = Zero => ~Twin(Replay(from), s))
         \/ from[m][s] # Zero /\ Replay(from)[s] = from[m][s]
<1> DEFINE C == Composite(from)
           D == Replay(from)
<1>1. \A t \in Sectors : D[t] = IF C[t] = Zero /\ Twin(C, t) THEN C[Mirror[t]] ELSE C[t]
  BY DEF Replay, MirroredFat
<1>2. ASSUME from[m][s] # Zero PROVE C[s] = from[m][s]
  <2>1. m \in Donors(from, s) BY <1>2 DEF Donors
  <2>2. PICK n \in Donors(from, s) : C[s] = from[n][s] BY <2>1, CompositeIs
  <2>3. n \in DOMAIN from /\ from[n][s] # Zero BY <2>2 DEF Donors
  <2>4. from[n][s] = from[m][s] BY <1>2, <2>3 DEF Conflicts
  <2> QED BY <2>2, <2>4
<1>3. ASSUME D[s] = Zero, Twin(D, s) PROVE FALSE
  <2> HIDE DEF C, D
  <2>1. s \in DOMAIN Mirror /\ Mirror[s] \in Sectors /\ Boot \in Sectors
    BY <1>3, CatalogAssumption DEF Twin
  <2>2. C[Boot] # Zero
    <3>1. D[Boot] # Zero BY <1>3 DEF Twin
    <3> QED BY <1>1, <2>1, <3>1 DEF Twin
  <2>3. C[s] = Zero
    <3>1. ASSUME C[s] # Zero PROVE FALSE BY <1>1, <1>3, <3>1
    <3> QED BY <3>1
  <2>4. C[Mirror[s]] = Zero BY <1>1, <1>3, <2>1, <2>2, <2>3 DEF Twin
  <2>5. ~Twin(C, Mirror[s]) BY <2>1, <2>3, CatalogAssumption DEF Twin
  <2>6. D[Mirror[s]] = Zero BY <1>1, <2>1, <2>4, <2>5
  <2> QED BY <1>3, <2>6 DEF Twin
<1>4. from[m][s] # Zero => D[s] = from[m][s] BY <1>1, <1>2
<1> QED BY <1>3, <1>4

\* What is derived next is a recipe of complete attempts that agree.
LEMMA PlanIs ==
  ASSUME TypeOK, NEW f \in Plans
  PROVE  f \in Recipes /\ Conflicts(f) = {} /\ Sources(f)
<1>1. f = Plan /\ f # <<>> /\ Conflicts(f) = {} BY DEF Plans
<1>2. Physical # {} BY <1>1 DEF Plan
<1>3. Best \in Physical BY <1>2, BestIs
<1>4. \E P \in SUBSET Physical : f = [n \in P |-> meta[n].data]
  <2>1. Physical \in SUBSET Physical /\ {Best} \in SUBSET Physical BY <1>3
  <2>2. \/ f = [n \in Physical |-> meta[n].data] \/ f = [n \in {Best} |-> meta[n].data]
    BY <1>1 DEF Plan
  <2> QED BY <2>1, <2>2
<1>5. PICK P \in SUBSET Physical : f = [n \in P |-> meta[n].data] BY <1>4
<1>6. P \subseteq Slots /\ \A n \in P : meta[n] # Nothing BY DEF Physical, Complete
<1>7. \A n \in P : meta[n].data \in Images BY <1>6, DocTyped DEF TypeOK
<1>8. f \in [P -> Images] BY <1>5, <1>7
<1>9. f \in Recipes BY <1>6, <1>8 DEF Recipes
<1>10. Sources(f) BY <1>5, <1>6 DEF Sources
<1> QED BY <1>1, <1>9, <1>10

-----------------------------------------------------------------------------
(* Steps.                                                                 *)

\* Zero is the number of no attempt.
LEMMA Bounds == 0 \notin Slots /\ Slots \subseteq 0 .. MaxSlot /\ 0 \in 0 .. MaxSlot
  BY CatalogAssumption DEF Slots

\* A publisher that does nothing.
LEMMA Rests == Off \in Reads /\ Idle \in Derivations
  BY Bounds DEF Off, Idle, Reads, Derivations

\* A label starts without files.
LEMMA InitInv == Init => CatalogInv
<1> SUFFICES ASSUME Init PROVE CatalogInv OBVIOUS
<1> USE CatalogAssumption DEF Init
<1>1. TypeOK BY Bounds, Rests DEF TypeOK, Jobs
<1>2. GateHeld /\ HolderKept /\ ImageThere /\ Agreeing
  BY DEF GateHeld, HolderKept, ImageThere, Agreeing, Off, Idle
<1>3. Undisturbed BY DEF Undisturbed, Matched, Off, Idle
<1> QED BY <1>1, <1>2, <1>3 DEF CatalogInv

\* An acquisition takes a number that no file has.
LEMMA UsbChooseStep == CatalogInv /\ UsbChoose => CatalogInv'
<1> SUFFICES ASSUME CatalogInv, UsbChoose PROVE CatalogInv' OBVIOUS
<1> USE DEF CatalogInv
<1> DEFINE number == NextNumber
<1>a. /\ number \in Slots /\ usb.pc = "off"
      /\ usb' = [pc |-> "chosen", slot |-> number, data |-> Blank, fresh |-> TRUE]
      /\ UNCHANGED <<files, job, derive, gw, gate, hand, contested, faults>>
  BY NumberIsFree DEF UsbChoose
<1> HIDE DEF number
<1>1. TypeOK' BY <1>a, Bounds DEF TypeOK, Reads, files, hand
<1>2. GateHeld' BY <1>a DEF GateHeld
<1>3. HolderKept' BY <1>a DEF HolderKept, files
<1>4. ImageThere' BY <1>a DEF ImageThere, files
<1>5. Agreeing' BY <1>a DEF Agreeing, files
<1>6. ASSUME contested' = {}, edited' = {} PROVE Undisturbed'
  BY <1>6, <1>a DEF Undisturbed, Matched, Sources, files, hand, Derived, Publication, GwDoc
<1> QED BY <1>1, <1>2, <1>3, <1>4, <1>5, <1>6

\* The unfinished image.
LEMMA UsbOpenStep == CatalogInv /\ UsbOpen => CatalogInv'
<1> SUFFICES ASSUME CatalogInv, UsbOpen PROVE CatalogInv' OBVIOUS
<1> USE DEF CatalogInv
<1>a. usb' \in Reads /\ usb.slot \in Slots
  BY DEF UsbOpen, TypeOK, Reads, HolderKept
<1>1. TypeOK' BY <1>a DEF UsbOpen, TypeOK, hand
<1>2. GateHeld'
  BY DEF UsbOpen, hand, GateHeld, TypeOK, Reads
<1>3. HolderKept'
  BY Bounds, Kinds, ReadingIs, ReplayIs DEF UsbOpen, hand, HolderKept, GateHeld, TypeOK,
     Reads, UsbDoc, GwDoc, Derived
<1>4. ImageThere'
  BY Bounds, Kinds, ImageShows, ReplayIs, ChangedShows DEF UsbOpen, hand, ImageThere,
     HolderKept, TypeOK, Reads
<1>5. Agreeing'
  BY DEF UsbOpen, hand, Agreeing, TypeOK
<1>6. ASSUME contested' = {}, edited' = {} PROVE Undisturbed'
  BY <1>6, Bounds, Kinds, ImageShows, ReplayIs DEF UsbOpen, hand, Undisturbed, Matched,
     Sources, HolderKept, GateHeld, ImageThere, TypeOK, Reads, UsbDoc, GwDoc, Derived,
     Publication
<1> QED BY <1>1, <1>2, <1>3, <1>4, <1>5, <1>6

\* The number is its own still, or it is contested: nobody is then in the slot.
LEMMA UsbReadStep == CatalogInv /\ UsbRead => CatalogInv'
<1> SUFFICES ASSUME CatalogInv, UsbRead PROVE CatalogInv' OBVIOUS
<1> USE DEF CatalogInv
<1> DEFINE Own == contested' = IF Met(usb.slot) THEN contested \cup {usb.slot} ELSE contested
<1>a. /\ usb.pc = "reading" /\ usb.slot \in Slots /\ Own
      /\ UNCHANGED <<wip, img, log, meta, reports, stages, job, derive, gw, gate, hand>>
  BY DEF UsbRead, HolderKept
<1>b. \/ /\ usb'.pc = "written" /\ usb'.slot = usb.slot /\ usb'.fresh /\ usb'.data \in Images
         /\ usb' \in Reads
         /\ part' = [part EXCEPT ![usb.slot] = Doc("usb", usb'.data, <<>>)]
      \/ usb' = Off /\ part' = [part EXCEPT ![usb.slot] = Torn]
  BY <1>a, ReadingIs DEF UsbRead, HolderKept, TypeOK, Reads
<1> HIDE DEF Own
<1>c. contested' = {} => contested = {} /\ ~Met(usb.slot)
  BY <1>a DEF Own
<1>1. TypeOK'
  <2>1. part' \in [Slots -> Docs \cup {Nothing, Torn}] BY <1>b, DocTyped DEF TypeOK
  <2>2. usb' \in Reads BY <1>b, Rests
  <2>3. contested' \subseteq Slots BY <1>a DEF Own, TypeOK
  <2> QED BY <1>a, <2>1, <2>2, <2>3 DEF TypeOK, hand
<1>2. GateHeld' BY <1>a, <1>b DEF GateHeld, Off
<1>3. HolderKept' BY <1>a, <1>b DEF HolderKept, UsbDoc, Off, TypeOK
<1>4. ImageThere' BY <1>a DEF ImageThere
<1>5. Agreeing' BY <1>a DEF Agreeing
<1>6. ASSUME contested' = {}, edited' = {} PROVE Undisturbed'
  <2>1. Undisturbed BY <1>6, <1>a, <1>c DEF hand
  <2>2. part[usb.slot] = Nothing /\ img[usb.slot] = Blank BY <1>6, <1>c DEF Met
  <2>3. meta[usb.slot] = Nothing BY <1>a, <2>2 DEF ImageThere
  <2>4. ASSUME NEW n \in Slots PROVE Matched(n)'
    BY <1>a, <2>1, <1>b, <2>3, Kinds DEF Undisturbed, Matched, TypeOK
  <2>5. derive.pc \in {"report", "image", "log", "meta"} => derive.slot # usb.slot
    BY <2>1, <2>2, Kinds DEF Undisturbed, Derived
  <2> QED
    BY <1>a, <1>b, <2>1, <2>3, <2>4, <2>5
       DEF Undisturbed, Sources, UsbDoc, Derived, Publication, GwDoc, Off, TypeOK, Derivations,
           HolderKept
<1> QED BY <1>1, <1>2, <1>3, <1>4, <1>5, <1>6

\* What was written stays.
LEMMA UsbFailsStep == CatalogInv /\ UsbFails => CatalogInv'
<1> SUFFICES ASSUME CatalogInv, UsbFails PROVE CatalogInv' OBVIOUS
<1> USE DEF CatalogInv
<1>1. TypeOK'
  BY Bounds, Rests, DocTyped, ReadingIs, ReplayIs DEF UsbFails, files, hand, TypeOK, Reads,
     HolderKept, GateHeld
<1>2. GateHeld'
  BY DEF UsbFails, files, hand, Off, GateHeld, TypeOK, Reads
<1>3. HolderKept'
  BY Bounds, Kinds, ReadingIs, ReplayIs DEF UsbFails, files, hand, Off, HolderKept,
     GateHeld, TypeOK, Reads, UsbDoc, GwDoc, Derived
<1>4. ImageThere'
  BY Bounds, Kinds, ImageShows, ReplayIs, ChangedShows DEF UsbFails, files, hand, Off,
     ImageThere, HolderKept, TypeOK, Reads
<1>5. Agreeing'
  BY DEF UsbFails, files, hand, Off, Agreeing, TypeOK
<1>6. ASSUME contested' = {}, edited' = {} PROVE Undisturbed'
  BY <1>6, Bounds, Kinds, ImageShows, ReplayIs DEF UsbFails, files, hand, Off, Undisturbed,
     Matched, Sources, HolderKept, GateHeld, ImageThere, TypeOK, Reads, UsbDoc, GwDoc,
     Derived, Publication
<1> QED BY <1>1, <1>2, <1>3, <1>4, <1>5, <1>6

\* The gate of the snapshot.
LEMMA UsbGateStep == CatalogInv /\ UsbGate => CatalogInv'
<1> SUFFICES ASSUME CatalogInv, UsbGate PROVE CatalogInv' OBVIOUS
<1> USE DEF CatalogInv
<1>1. TypeOK'
  BY Bounds, Rests, DocTyped, ReadingIs, ReplayIs DEF UsbGate, files, hand, TypeOK, Reads,
     HolderKept, GateHeld
<1>2. GateHeld'
  BY DEF UsbGate, files, hand, GateHeld, TypeOK, Reads
<1>3. HolderKept'
  BY Bounds, Kinds, ReadingIs, ReplayIs DEF UsbGate, files, hand, HolderKept, GateHeld,
     TypeOK, Reads, UsbDoc, GwDoc, Derived
<1>4. ImageThere'
  BY Bounds, Kinds, ImageShows, ReplayIs, ChangedShows DEF UsbGate, files, hand,
     ImageThere, HolderKept, TypeOK, Reads
<1>5. Agreeing'
  BY DEF UsbGate, files, hand, Agreeing, TypeOK
<1>6. ASSUME contested' = {}, edited' = {} PROVE Undisturbed'
  BY <1>6, Bounds, Kinds, ImageShows, ReplayIs DEF UsbGate, files, hand, Undisturbed,
     Matched, Sources, HolderKept, GateHeld, ImageThere, TypeOK, Reads, UsbDoc, GwDoc,
     Derived, Publication
<1> QED BY <1>1, <1>2, <1>3, <1>4, <1>5, <1>6

\* The three renames of an acquisition: nobody else holds the gate meanwhile.
LEMMA UsbImageStep == CatalogInv /\ UsbImage => CatalogInv'
<1> SUFFICES ASSUME CatalogInv, UsbImage PROVE CatalogInv' OBVIOUS
<1> USE DEF CatalogInv
<1>1. TypeOK'
  BY Bounds, Rests, DocTyped, ReadingIs, ReplayIs DEF UsbImage, hand, TypeOK, Reads,
     HolderKept, GateHeld
<1>2. GateHeld'
  BY DEF UsbImage, hand, GateHeld, TypeOK, Reads
<1>3. HolderKept'
  BY Bounds, Kinds, ReadingIs, ReplayIs DEF UsbImage, hand, HolderKept, GateHeld, TypeOK,
     Reads, UsbDoc, GwDoc, Derived
<1>4. ImageThere'
  BY Bounds, Kinds, ImageShows, ReplayIs, ChangedShows DEF UsbImage, hand, ImageThere,
     HolderKept, TypeOK, Reads
<1>5. Agreeing'
  BY DEF UsbImage, hand, Agreeing, TypeOK
<1>6. ASSUME contested' = {}, edited' = {} PROVE Undisturbed'
  BY <1>6, Bounds, Kinds, ImageShows, ReplayIs DEF UsbImage, hand, Undisturbed, Matched,
     Sources, HolderKept, GateHeld, ImageThere, TypeOK, Reads, UsbDoc, GwDoc, Derived,
     Publication
<1> QED BY <1>1, <1>2, <1>3, <1>4, <1>5, <1>6

\* The log of the acquisition.
LEMMA UsbLogStep == CatalogInv /\ UsbLog => CatalogInv'
<1> SUFFICES ASSUME CatalogInv, UsbLog PROVE CatalogInv' OBVIOUS
<1> USE DEF CatalogInv
<1>1. TypeOK'
  BY Bounds, Rests, DocTyped, ReadingIs, ReplayIs DEF UsbLog, hand, TypeOK, Reads,
     HolderKept, GateHeld
<1>2. GateHeld'
  BY DEF UsbLog, hand, GateHeld, TypeOK, Reads
<1>3. HolderKept'
  BY Bounds, Kinds, ReadingIs, ReplayIs DEF UsbLog, hand, HolderKept, GateHeld, TypeOK,
     Reads, UsbDoc, GwDoc, Derived
<1>4. ImageThere'
  BY Bounds, Kinds, ImageShows, ReplayIs, ChangedShows DEF UsbLog, hand, ImageThere,
     HolderKept, TypeOK, Reads
<1>5. Agreeing'
  BY DEF UsbLog, hand, Agreeing, TypeOK
<1>6. ASSUME contested' = {}, edited' = {} PROVE Undisturbed'
  BY <1>6, Bounds, Kinds, ImageShows, ReplayIs DEF UsbLog, hand, Undisturbed, Matched,
     Sources, HolderKept, GateHeld, ImageThere, TypeOK, Reads, UsbDoc, GwDoc, Derived,
     Publication
<1> QED BY <1>1, <1>2, <1>3, <1>4, <1>5, <1>6

\* The attempt is complete, with the log and the image it was read with.
LEMMA UsbMetaStep == CatalogInv /\ UsbMeta => CatalogInv'
<1> SUFFICES ASSUME CatalogInv, UsbMeta PROVE CatalogInv' OBVIOUS
<1> USE DEF CatalogInv
<1>1. TypeOK'
  <2>1. part[usb.slot] \in Docs /\ usb.slot \in Slots
    BY DocTyped DEF UsbMeta, HolderKept, UsbDoc
  <2> QED BY <2>1, Rests DEF UsbMeta, TypeOK, hand
<1>2. GateHeld'
  BY DEF UsbMeta, hand, Off, GateHeld, TypeOK, Reads
<1>3. HolderKept'
  BY Bounds, Kinds, ReadingIs, ReplayIs DEF UsbMeta, hand, Off, HolderKept, GateHeld,
     TypeOK, Reads, UsbDoc, GwDoc, Derived
<1>4. ImageThere'
  BY Bounds, Kinds, ImageShows, ReplayIs, ChangedShows DEF UsbMeta, hand, Off, ImageThere,
     HolderKept, TypeOK, Reads
<1>5. Agreeing'
  BY DEF UsbMeta, hand, Off, Agreeing, TypeOK
<1>6. ASSUME contested' = {}, edited' = {} PROVE Undisturbed'
  BY <1>6, Bounds, Kinds, ImageShows, ReplayIs DEF UsbMeta, hand, Off, Undisturbed,
     Matched, Sources, HolderKept, GateHeld, ImageThere, TypeOK, Reads, UsbDoc, GwDoc,
     Derived, Publication
<1> QED BY <1>1, <1>2, <1>3, <1>4, <1>5, <1>6

\* The plan is made of complete attempts, which agree.
LEMMA DeriveStartStep == CatalogInv /\ DeriveStart => CatalogInv'
<1> SUFFICES ASSUME CatalogInv, DeriveStart PROVE CatalogInv' OBVIOUS
<1> USE DEF CatalogInv
<1>a. PICK f \in Plans : /\ derive' = [pc |-> "stage", slot |-> 0, from |-> f]
                        /\ gate' = "offline" /\ gate = "free" /\ derive.pc = "off"
                        /\ UNCHANGED <<files, job, usb, gw, hand, contested>>
  BY DEF DeriveStart, Keep, Derives
<1>b. f \in Recipes /\ Conflicts(f) = {} /\ Sources(f) BY PlanIs
<1>c. derive'.pc = "stage" /\ derive'.from = f BY <1>a
<1>1. TypeOK'
  <2>1. derive' \in Derivations BY <1>a, <1>b, Bounds DEF Derivations
  <2> QED BY <1>a, <2>1 DEF TypeOK, files, hand
<1>2. GateHeld' BY <1>a, <1>c DEF GateHeld
<1>3. HolderKept' BY <1>a, <1>b, <1>c DEF HolderKept, files, UsbDoc
<1>4. ImageThere' BY <1>a DEF ImageThere, files
<1>5. Agreeing' BY <1>a, <1>b, <1>c DEF Agreeing, files
<1>6. ASSUME contested' = {}, edited' = {} PROVE Undisturbed'
  <2>1. Undisturbed BY <1>6, <1>a DEF hand
  <2>2. UNCHANGED <<meta, img, log, part, reports, usb, job, gw>> BY <1>a DEF files
  <2>3. Sources(f)' BY <1>b, <2>2 DEF Sources
  <2>4. \A r \in reports' : Sources(r.from)' BY <2>1, <2>2 DEF Sources, Undisturbed
  <2>5. \A n \in Slots : Matched(n)' BY <2>1, <2>2 DEF Matched, Undisturbed
  <2> QED BY <1>c, <2>1, <2>2, <2>3, <2>4, <2>5 DEF Undisturbed, Sources, UsbDoc, GwDoc
<1> QED BY <1>1, <1>2, <1>3, <1>4, <1>5, <1>6

\* The intermediate images.
LEMMA DeriveStageStep == CatalogInv /\ DeriveStage => CatalogInv'
<1> SUFFICES ASSUME CatalogInv, DeriveStage PROVE CatalogInv' OBVIOUS
<1> USE DEF CatalogInv
<1>a. /\ derive.pc = "stage" /\ derive.from \in Recipes
      /\ UNCHANGED <<part, wip, img, log, meta, reports, job, usb, gw, hand, contested>>
  BY DEF DeriveStage, Derives, Keep, HolderKept
<1>b. \/ /\ derive' \in Derivations /\ derive'.pc = "reserve" /\ derive'.from = derive.from
         /\ gate' = gate /\ stages' \subseteq stages \cup {derive.from}
      \/ derive' = Idle /\ gate' = "free" /\ stages' = stages
  BY DEF DeriveStage, Leave, TypeOK, Derivations
<1>1. TypeOK' BY <1>a, <1>b, Rests DEF TypeOK, hand
<1>2. GateHeld' BY <1>a, <1>b DEF GateHeld, Idle
<1>3. HolderKept' BY <1>a, <1>b DEF HolderKept, UsbDoc, Idle
<1>4. ImageThere' BY <1>a DEF ImageThere
<1>5. Agreeing'
  <2>1. derive'.pc # "off" => derive'.from = derive.from /\ derive.pc # "off"
    BY <1>a, <1>b DEF Idle
  <2> QED BY <1>a, <2>1 DEF Agreeing
<1>6. ASSUME contested' = {}, edited' = {} PROVE Undisturbed'
  BY <1>6, <1>a, <1>b DEF Undisturbed, Matched, Sources, hand, UsbDoc, GwDoc, Idle
<1> QED BY <1>1, <1>2, <1>3, <1>4, <1>5, <1>6

\* A slot is reserved that has no other's reservation and no other's metadata.
LEMMA DeriveReserveStep == CatalogInv /\ DeriveReserve => CatalogInv'
<1> SUFFICES ASSUME CatalogInv, DeriveReserve PROVE CatalogInv' OBVIOUS
<1> USE DEF CatalogInv
<1>a. /\ derive.pc = "reserve" /\ derive.from \in Recipes /\ gate = "offline"
      /\ UNCHANGED <<wip, img, log, meta, reports, stages, job, usb, gw, hand, contested>>
  BY DEF DeriveReserve, Derives, Keep, HolderKept, GateHeld
<1> DEFINE Taken(n) == /\ part' = [part EXCEPT ![n] = Derived] /\ gate' = gate
                       /\ ~Differs(part[n], Derived) /\ ~Differs(meta[n], Derived)
                       /\ derive' \in Derivations /\ derive'.pc = "report"
                       /\ derive'.from = derive.from /\ derive'.slot = n
           Left == derive' = Idle /\ gate' = "free" /\ part' = part
<1>b. Left \/ \E n \in Slots : Taken(n)
  <2> DEFINE free == {n \in OwnSlot \cap Slots :
                      ~Differs(part[n], Derived) /\ ~Differs(meta[n], Derived)}
  <2>1. CASE free = {} BY <2>1 DEF DeriveReserve, Leave
  <2>2. CASE free # {}
    <3>1. PICK n \in free : /\ part' = [part EXCEPT ![n] = Derived]
                            /\ derive' = [derive EXCEPT !.pc = "report", !.slot = n] /\ gate' = gate
      BY <2>2 DEF DeriveReserve
    <3>2. n \in Slots /\ ~Differs(part[n], Derived) /\ ~Differs(meta[n], Derived) BY <3>1
    <3>3. /\ derive' \in Derivations /\ derive'.pc = "report"
          /\ derive'.from = derive.from /\ derive'.slot = n
      BY <3>1, <3>2, Bounds DEF TypeOK, Derivations
    <3> QED BY <3>1, <3>2, <3>3
  <2> QED BY <2>1, <2>2
<1>c. Derived \in Docs /\ Derived.by = "offline" BY <1>a, DocTyped, ReplayIs, Kinds DEF Derived
<1>d. CASE Left
  <2> USE <1>d
  <2>1. TypeOK' /\ GateHeld' BY <1>a, Rests DEF TypeOK, hand, GateHeld, Idle
  <2>2. HolderKept' /\ ImageThere' /\ Agreeing'
    BY <1>a DEF HolderKept, ImageThere, Agreeing, UsbDoc, Idle
  <2>3. ASSUME contested' = {}, edited' = {} PROVE Undisturbed'
    BY <2>3, <1>a DEF Undisturbed, Matched, Sources, hand, UsbDoc, GwDoc, Idle
  <2> QED BY <2>1, <2>2, <2>3
<1>e. ASSUME NEW n \in Slots, Taken(n) PROVE CatalogInv'
  <2> USE <1>e
  <2>1. TypeOK' BY <1>a, <1>c DEF TypeOK, hand
  <2>2. GateHeld' BY <1>a DEF GateHeld
  <2>3. usb.pc \in {"written", "image", "log", "meta"} => usb.slot # n
    BY <1>c, Kinds DEF HolderKept, UsbDoc, Differs
  <2>4. HolderKept' BY <1>a, <2>3 DEF HolderKept, UsbDoc, TypeOK
  <2>5. ImageThere' /\ Agreeing' BY <1>a DEF ImageThere, Agreeing
  <2>6. ASSUME contested' = {}, edited' = {} PROVE Undisturbed'
    <3>1. Undisturbed BY <2>6, <1>a DEF hand
    <3>2. Derived' = Derived BY DEF Derived
    <3>3. \A m \in Slots : Matched(m)'
      BY <1>a, <1>c, <3>1 DEF Undisturbed, Matched, Differs, TypeOK
    <3>4. part'[n] = Derived BY DEF TypeOK
    <3>5. \A from : Sources(from) => Sources(from)' BY <1>a DEF Sources
    <3> QED BY <1>a, <3>1, <3>2, <3>3, <3>4, <3>5 DEF Undisturbed, UsbDoc, GwDoc
  <2> QED BY <2>1, <2>2, <2>4, <2>5, <2>6
<1> QED BY <1>b, <1>d, <1>e

\* The recipe is published for the slot reserved.
LEMMA DeriveReportStep == CatalogInv /\ DeriveReport => CatalogInv'
<1> SUFFICES ASSUME CatalogInv, DeriveReport PROVE CatalogInv' OBVIOUS
<1> USE DEF CatalogInv
<1>a. /\ derive.pc = "report" /\ derive.from \in Recipes /\ derive.slot \in Slots
      /\ gate = "offline"
      /\ UNCHANGED <<part, wip, img, log, meta, stages, gate, job, usb, gw, hand, contested>>
  BY DEF DeriveReport, Derives, Keep, HolderKept, GateHeld
<1>b. /\ derive' \in Derivations /\ derive'.pc = "image" /\ derive'.from = derive.from
      /\ derive'.slot = derive.slot /\ reports' = reports \cup {Publication}
  BY DEF DeriveReport, TypeOK, Derivations
<1>c. Publication.from = derive.from /\ Publication.slot = derive.slot BY DEF Publication
<1>1. TypeOK'
  <2>1. Publication \in [from : Recipes, slot : Slots] BY <1>a DEF Publication
  <2> QED BY <1>a, <1>b, <2>1 DEF TypeOK, hand
<1>2. GateHeld' BY <1>a, <1>b DEF GateHeld
<1>3. HolderKept' BY <1>a, <1>b DEF HolderKept, UsbDoc
<1>4. ImageThere' BY <1>a DEF ImageThere
<1>5. Agreeing' BY <1>a, <1>b, <1>c DEF Agreeing
<1>6. ASSUME contested' = {}, edited' = {} PROVE Undisturbed'
  <2>1. Undisturbed BY <1>6, <1>a DEF hand
  <2>2. Derived' = Derived /\ Publication' = Publication BY <1>b DEF Derived, Publication
  <2>3. \A from : Sources(from) => Sources(from)' BY <1>a DEF Sources
  <2>4. \A m \in Slots : Matched(m)' BY <1>a, <1>b, <2>1 DEF Undisturbed, Matched
  <2>5. \A r \in reports' : Sources(r.from) BY <1>a, <1>b, <1>c, <2>1 DEF Undisturbed
  <2> QED BY <1>a, <1>b, <2>1, <2>2, <2>3, <2>4, <2>5 DEF Undisturbed, UsbDoc, GwDoc
<1> QED BY <1>1, <1>2, <1>3, <1>4, <1>5, <1>6

\* An image that is there already is the same.
LEMMA DeriveImageStep == CatalogInv /\ DeriveImage => CatalogInv'
<1> SUFFICES ASSUME CatalogInv, DeriveImage PROVE CatalogInv' OBVIOUS
<1> USE DEF CatalogInv
<1>a. /\ derive.pc = "image" /\ derive.from \in Recipes /\ derive.slot \in Slots
      /\ gate = "offline"
      /\ UNCHANGED <<part, wip, log, meta, reports, stages, job, usb, gw, hand, contested>>
  BY DEF DeriveImage, Derives, Keep, HolderKept, GateHeld
<1> DEFINE Written == /\ img[derive.slot] \in {Blank, Derived.data}
                      /\ img' = [img EXCEPT ![derive.slot] = Derived.data] /\ gate' = gate
                      /\ derive' \in Derivations /\ derive'.pc = "log"
                      /\ derive'.from = derive.from /\ derive'.slot = derive.slot
           Left == derive' = Idle /\ gate' = "free" /\ img' = img
<1>b. Left \/ Written BY DEF DeriveImage, Leave, TypeOK, Derivations
<1>c. /\ Derived \in Docs /\ Derived.by = "offline" /\ Derived.data = Replay(derive.from)
      /\ Derived.data \in Images
  BY <1>a, DocTyped, ReplayIs, Kinds DEF Derived
<1>d. CASE Left
  <2> USE <1>d
  <2>1. TypeOK' /\ GateHeld' BY <1>a, Rests DEF TypeOK, hand, GateHeld, Idle
  <2>2. HolderKept' /\ ImageThere' /\ Agreeing'
    BY <1>a DEF HolderKept, ImageThere, Agreeing, UsbDoc, Idle
  <2>3. ASSUME contested' = {}, edited' = {} PROVE Undisturbed'
    BY <2>3, <1>a DEF Undisturbed, Matched, Sources, hand, UsbDoc, GwDoc, Idle
  <2> QED BY <2>1, <2>2, <2>3
<1>e. CASE Written
  <2> USE <1>e
  <2>1. TypeOK' BY <1>a, <1>c DEF TypeOK, hand
  <2>2. GateHeld' BY <1>a DEF GateHeld
  <2>3. img'[derive.slot] = Derived.data /\ \A n \in Slots \ {derive.slot} : img'[n] = img[n]
    BY <1>a DEF TypeOK
  <2>4. HolderKept' BY <1>a, <1>c, <2>3 DEF HolderKept, GateHeld, UsbDoc
  <2>5. ImageThere' BY <1>a, <1>c, <2>3, ImageShows DEF ImageThere
  <2>6. Agreeing' BY <1>a DEF Agreeing
  <2>7. ASSUME contested' = {}, edited' = {} PROVE Undisturbed'
    <3>1. Undisturbed BY <2>7, <1>a DEF hand
    <3>2. Derived' = Derived /\ Publication' = Publication BY DEF Derived, Publication
    <3>3. meta[derive.slot] # Nothing => img[derive.slot] = Derived.data BY <1>a DEF ImageThere
    <3>4. \A m \in Slots : Matched(m)' BY <1>a, <2>3, <3>1, <3>3 DEF Undisturbed, Matched
    <3>5. \A from : Sources(from) => Sources(from)' BY <1>a DEF Sources
    <3> QED BY <1>a, <3>1, <3>2, <3>4, <3>5 DEF Undisturbed, UsbDoc, GwDoc
  <2> QED BY <2>1, <2>2, <2>4, <2>5, <2>6, <2>7
<1> QED BY <1>b, <1>d, <1>e

\* A log that is there already is the same.
LEMMA DeriveLogStep == CatalogInv /\ DeriveLog => CatalogInv'
<1> SUFFICES ASSUME CatalogInv, DeriveLog PROVE CatalogInv' OBVIOUS
<1> USE DEF CatalogInv
<1>a. /\ derive.pc = "log" /\ derive.from \in Recipes /\ derive.slot \in Slots
      /\ gate = "offline"
      /\ UNCHANGED <<part, wip, img, meta, reports, stages, job, usb, gw, hand, contested>>
  BY DEF DeriveLog, Derives, Keep, HolderKept, GateHeld
<1> DEFINE Written == /\ ~Differs(log[derive.slot], Derived)
                      /\ log' = [log EXCEPT ![derive.slot] = Derived] /\ gate' = gate
                      /\ derive' \in Derivations /\ derive'.pc = "meta"
                      /\ derive'.from = derive.from /\ derive'.slot = derive.slot
           Left == derive' = Idle /\ gate' = "free" /\ log' = log
<1>b. Left \/ Written BY DEF DeriveLog, Leave, TypeOK, Derivations
<1>c. Derived \in Docs /\ Derived.by = "offline" BY <1>a, DocTyped, ReplayIs, Kinds DEF Derived
<1>d. CASE Left
  <2> USE <1>d
  <2>1. TypeOK' /\ GateHeld' BY <1>a, Rests DEF TypeOK, hand, GateHeld, Idle
  <2>2. HolderKept' /\ ImageThere' /\ Agreeing'
    BY <1>a DEF HolderKept, ImageThere, Agreeing, UsbDoc, Idle
  <2>3. ASSUME contested' = {}, edited' = {} PROVE Undisturbed'
    BY <2>3, <1>a DEF Undisturbed, Matched, Sources, hand, UsbDoc, GwDoc, Idle
  <2> QED BY <2>1, <2>2, <2>3
<1>e. CASE Written
  <2> USE <1>e
  <2>1. TypeOK' BY <1>a, <1>c DEF TypeOK, hand
  <2>2. GateHeld' BY <1>a DEF GateHeld
  <2>3. log'[derive.slot] = Derived /\ \A n \in Slots \ {derive.slot} : log'[n] = log[n]
    BY <1>a DEF TypeOK
  <2>4. HolderKept' BY <1>a DEF HolderKept, GateHeld, UsbDoc
  <2>5. ImageThere' /\ Agreeing' BY <1>a DEF ImageThere, Agreeing
  <2>7. ASSUME contested' = {}, edited' = {} PROVE Undisturbed'
    <3>1. Undisturbed BY <2>7, <1>a DEF hand
    <3>2. Derived' = Derived /\ Publication' = Publication BY DEF Derived, Publication
    <3>3. meta[derive.slot] # Nothing => log[derive.slot] = Derived
      BY <1>a, <3>1 DEF Undisturbed, Matched, Differs
    <3>4. \A m \in Slots : Matched(m)' BY <1>a, <2>3, <3>1, <3>3 DEF Undisturbed, Matched
    <3>5. \A from : Sources(from) => Sources(from)' BY <1>a DEF Sources
    <3> QED BY <1>a, <2>3, <3>1, <3>2, <3>4, <3>5 DEF Undisturbed, UsbDoc, GwDoc, GateHeld
  <2> QED BY <2>1, <2>2, <2>4, <2>5, <2>7
<1> QED BY <1>b, <1>d, <1>e

\* The derived attempt is complete.
LEMMA DeriveMetaStep == CatalogInv /\ DeriveMeta => CatalogInv'
<1> SUFFICES ASSUME CatalogInv, DeriveMeta PROVE CatalogInv' OBVIOUS
<1> USE DEF CatalogInv
<1>1. TypeOK'
  BY Bounds, Rests, DocTyped, ReadingIs, ReplayIs DEF DeriveMeta, hand, Keep, Leave,
     Derives, Derived, Differs, TypeOK, Derivations, HolderKept, GateHeld
<1>2. GateHeld'
  BY DEF DeriveMeta, hand, Keep, Leave, Derives, Derived, Differs, Idle, GateHeld, TypeOK,
     Derivations
<1>3. HolderKept'
  BY Bounds, Kinds, ReadingIs, ReplayIs DEF DeriveMeta, hand, Keep, Leave, Derives,
     Derived, Differs, Idle, HolderKept, GateHeld, TypeOK, Derivations, UsbDoc, GwDoc
<1>4. ImageThere'
  BY Bounds, Kinds, ImageShows, ReplayIs, ChangedShows DEF DeriveMeta, hand, Keep, Leave,
     Derives, Derived, Differs, Idle, ImageThere, HolderKept, TypeOK, Derivations
<1>5. Agreeing'
  BY DEF DeriveMeta, hand, Keep, Leave, Derives, Derived, Differs, Idle, Agreeing, TypeOK,
     Derivations
<1>6. ASSUME contested' = {}, edited' = {} PROVE Undisturbed'
  BY <1>6, Bounds, Kinds, ImageShows, ReplayIs DEF DeriveMeta, hand, Keep, Leave, Derives,
     Derived, Differs, Idle, Undisturbed, Matched, Sources, HolderKept, GateHeld,
     ImageThere, TypeOK, Derivations, UsbDoc, GwDoc, Publication
<1> QED BY <1>1, <1>2, <1>3, <1>4, <1>5, <1>6

\* The slot of the job is a new number, or the one reserved before.
LEMMA GwReserveStep == CatalogInv /\ GwReserve => CatalogInv'
<1> SUFFICES ASSUME CatalogInv, GwReserve PROVE CatalogInv' OBVIOUS
<1> USE DEF CatalogInv
<1>a. /\ gw = "off" /\ gate = "free" /\ gate' = "gw" /\ gw' = "record"
      /\ UNCHANGED <<part, img, log, meta, wip, reports, stages, usb, derive, hand, contested>>
  BY DEF GwReserve, GwKeep
<1>b. job' \in Jobs /\ job'.slot \in Slots /\ job'.data \in Images
  <2>1. CASE job.slot # 0
    <3>1. job' = job BY <2>1 DEF GwReserve
    <3>2. job \in Jobs /\ job.slot \in Slots
      BY <2>1, CatalogAssumption DEF TypeOK, Jobs, Slots
    <3> QED BY <2>1, <3>1, <3>2 DEF HolderKept
  <2>2. CASE job.slot = 0
    <3> DEFINE number == NextNumber
    <3>1. PICK r \in GwReadings : job' = [slot |-> number, data |-> r, done |-> FALSE]
      BY <2>2 DEF GwReserve
    <3>2. number \in Slots BY <2>2 DEF GwReserve
    <3> HIDE DEF number
    <3>3. r \in Images BY ReadingIs
    <3> QED BY <3>1, <3>2, <3>3, Bounds DEF Jobs
  <2> QED BY <2>1, <2>2
<1>1. TypeOK' BY <1>a, <1>b DEF TypeOK, hand
<1>2. GateHeld' BY <1>a DEF GateHeld
<1>3. HolderKept' BY <1>a, <1>b DEF HolderKept, UsbDoc
<1>4. ImageThere' BY <1>a DEF ImageThere
<1>5. Agreeing' BY <1>a DEF Agreeing
<1>6. ASSUME contested' = {}, edited' = {} PROVE Undisturbed'
  BY <1>6, <1>a DEF Undisturbed, Matched, Sources, hand, UsbDoc, Derived, Publication
<1> QED BY <1>1, <1>2, <1>3, <1>4, <1>5, <1>6

\* The reservation is not taken from another.
LEMMA GwRecordStep == CatalogInv /\ GwRecord => CatalogInv'
<1> SUFFICES ASSUME CatalogInv, GwRecord PROVE CatalogInv' OBVIOUS
<1> USE DEF CatalogInv
<1>1. TypeOK'
  BY Bounds, Rests, DocTyped, ReadingIs, ReplayIs DEF GwRecord, hand, GwKeep, GwEnds,
     GwNext, GwDoc, Differs, TypeOK, Jobs, HolderKept, GateHeld
<1>2. GateHeld'
  BY DEF GwRecord, hand, GwKeep, GwEnds, GwNext, GwDoc, Differs, GateHeld, TypeOK
<1>3. HolderKept'
  BY Bounds, Kinds, ReadingIs, ReplayIs DEF GwRecord, hand, GwKeep, GwEnds, GwNext, GwDoc,
     Differs, HolderKept, GateHeld, TypeOK, Jobs, UsbDoc, Derived
<1>4. ImageThere'
  BY Bounds, Kinds, ImageShows, ReplayIs, ChangedShows DEF GwRecord, hand, GwKeep, GwEnds,
     GwNext, GwDoc, Differs, ImageThere, HolderKept, TypeOK, Jobs
<1>5. Agreeing'
  BY DEF GwRecord, hand, GwKeep, GwEnds, GwNext, GwDoc, Differs, Agreeing, TypeOK
<1>6. ASSUME contested' = {}, edited' = {} PROVE Undisturbed'
  BY <1>6, Bounds, Kinds, ImageShows, ReplayIs DEF GwRecord, hand, GwKeep, GwEnds, GwNext,
     GwDoc, Differs, Undisturbed, Matched, Sources, HolderKept, GateHeld, ImageThere,
     TypeOK, Jobs, UsbDoc, Derived, Publication
<1> QED BY <1>1, <1>2, <1>3, <1>4, <1>5, <1>6

\* A log that is there already is the same.
LEMMA GwLogStep == CatalogInv /\ GwLog => CatalogInv'
<1> SUFFICES ASSUME CatalogInv, GwLog PROVE CatalogInv' OBVIOUS
<1> USE DEF CatalogInv
<1>1. TypeOK'
  BY Bounds, Rests, DocTyped, ReadingIs, ReplayIs DEF GwLog, hand, GwKeep, GwEnds, GwNext,
     GwDoc, Differs, TypeOK, Jobs, HolderKept, GateHeld
<1>2. GateHeld'
  BY DEF GwLog, hand, GwKeep, GwEnds, GwNext, GwDoc, Differs, GateHeld, TypeOK
<1>3. HolderKept'
  BY Bounds, Kinds, ReadingIs, ReplayIs DEF GwLog, hand, GwKeep, GwEnds, GwNext, GwDoc,
     Differs, HolderKept, GateHeld, TypeOK, Jobs, UsbDoc, Derived
<1>4. ImageThere'
  BY Bounds, Kinds, ImageShows, ReplayIs, ChangedShows DEF GwLog, hand, GwKeep, GwEnds,
     GwNext, GwDoc, Differs, ImageThere, HolderKept, TypeOK, Jobs
<1>5. Agreeing'
  BY DEF GwLog, hand, GwKeep, GwEnds, GwNext, GwDoc, Differs, Agreeing, TypeOK
<1>6. ASSUME contested' = {}, edited' = {} PROVE Undisturbed'
  BY <1>6, Bounds, Kinds, ImageShows, ReplayIs DEF GwLog, hand, GwKeep, GwEnds, GwNext,
     GwDoc, Differs, Undisturbed, Matched, Sources, HolderKept, GateHeld, ImageThere,
     TypeOK, Jobs, UsbDoc, Derived, Publication
<1> QED BY <1>1, <1>2, <1>3, <1>4, <1>5, <1>6

\* An image that is there already is the same.
LEMMA GwImageStep == CatalogInv /\ GwImage => CatalogInv'
<1> SUFFICES ASSUME CatalogInv, GwImage PROVE CatalogInv' OBVIOUS
<1> USE DEF CatalogInv
<1>1. TypeOK'
  BY Bounds, Rests, DocTyped, ReadingIs, ReplayIs DEF GwImage, hand, GwKeep, GwEnds,
     GwNext, TypeOK, Jobs, HolderKept, GateHeld
<1>2. GateHeld'
  BY DEF GwImage, hand, GwKeep, GwEnds, GwNext, GateHeld, TypeOK
<1>3. HolderKept'
  BY Bounds, Kinds, ReadingIs, ReplayIs DEF GwImage, hand, GwKeep, GwEnds, GwNext,
     HolderKept, GateHeld, TypeOK, Jobs, UsbDoc, GwDoc, Derived
<1>4. ImageThere'
  BY Bounds, Kinds, ImageShows, ReplayIs, ChangedShows DEF GwImage, hand, GwKeep, GwEnds,
     GwNext, ImageThere, HolderKept, TypeOK, Jobs
<1>5. Agreeing'
  BY DEF GwImage, hand, GwKeep, GwEnds, GwNext, Agreeing, TypeOK
<1>6. ASSUME contested' = {}, edited' = {} PROVE Undisturbed'
  BY <1>6, Bounds, Kinds, ImageShows, ReplayIs DEF GwImage, hand, GwKeep, GwEnds, GwNext,
     Undisturbed, Matched, Sources, HolderKept, GateHeld, ImageThere, TypeOK, Jobs, UsbDoc,
     GwDoc, Derived, Publication
<1> QED BY <1>1, <1>2, <1>3, <1>4, <1>5, <1>6

\* The attempt is complete, or another has its slot.
LEMMA GwMetaStep == CatalogInv /\ GwMeta => CatalogInv'
<1> SUFFICES ASSUME CatalogInv, GwMeta PROVE CatalogInv' OBVIOUS
<1> USE DEF CatalogInv
<1>a. /\ gw = "meta" /\ gate = "gw" /\ gw' = "off" /\ gate' = "free" /\ job.slot \in Slots
      /\ job.data \in Images /\ img[job.slot] = job.data
      /\ UNCHANGED <<img, log, wip, reports, stages, usb, derive, hand, contested>>
  BY Bounds DEF GwMeta, GwEnds, GwKeep, GateHeld, HolderKept
<1> DEFINE slot == job.slot
           Kept == UNCHANGED <<part, meta, job>>
           Completed == /\ ~Differs(meta[slot], GwDoc) /\ ~Differs(part[slot], GwDoc)
                        /\ meta' = [meta EXCEPT ![slot] = GwDoc]
                        /\ job' = [job EXCEPT !.done = TRUE]
                        /\ part' = IF meta[slot] = Nothing THEN [part EXCEPT ![slot] = Nothing]
                                    ELSE part
<1>b. Kept \/ Completed BY DEF GwMeta
<1>c. GwDoc \in Docs /\ GwDoc.by = "gw" /\ GwDoc.data = job.data BY <1>a, DocTyped, Kinds DEF GwDoc
<1>d. CASE Kept
  <2> USE <1>d
  <2>1. TypeOK' /\ GateHeld' BY <1>a DEF TypeOK, hand, GateHeld
  <2>2. HolderKept' /\ ImageThere' /\ Agreeing'
    BY <1>a DEF HolderKept, ImageThere, Agreeing, UsbDoc
  <2>3. ASSUME contested' = {}, edited' = {} PROVE Undisturbed'
    BY <2>3, <1>a DEF Undisturbed, Matched, Sources, hand, UsbDoc, Derived, Publication
  <2> QED BY <2>1, <2>2, <2>3
<1>e. CASE Completed
  <2> USE <1>e
  <2>1. job' \in Jobs /\ job'.slot = job.slot /\ job'.data = job.data BY DEF TypeOK, Jobs
  <2>2. TypeOK' BY <1>a, <1>c, <2>1 DEF TypeOK, hand
  <2>3. GateHeld' BY <1>a DEF GateHeld
  <2>4. /\ meta'[slot] = GwDoc /\ \A n \in Slots \ {slot} : meta'[n] = meta[n] /\ part'[n] = part[n]
        /\ \A n \in Slots : meta[n] # Nothing => meta'[n] = meta[n]
        /\ part'[slot] \in {Nothing, part[slot]}
        /\ part[slot] \in {Nothing, GwDoc}
    BY <1>a DEF TypeOK, Differs
  <2>5. \A d : Doc("usb", d, <<>>) \notin {Nothing, GwDoc} BY <1>c, Kinds
  <2>6. usb.pc \in {"written", "image", "log", "meta"} => usb.slot # slot
    BY <2>4, <2>5 DEF HolderKept, UsbDoc
  <2> HIDE DEF slot
  <2>7. HolderKept' BY <1>a, <2>1, <2>4, <2>6 DEF HolderKept, UsbDoc, slot
  <2>8. ImageThere' BY <1>a, <2>4, ImageShows DEF ImageThere, slot
  <2>9. Agreeing' BY <1>a DEF Agreeing
  <2>10. ASSUME contested' = {}, edited' = {} PROVE Undisturbed'
    <3>1. Undisturbed BY <2>10, <1>a DEF hand
    <3>2. log[slot] = GwDoc BY <1>a, <3>1 DEF Undisturbed, slot
    <3>3. part'[slot].by # "offline" /\ GwDoc # Nothing BY <1>c, <2>4, Kinds
    <3>4. \A m \in Slots : Matched(m)'
      BY <1>a, <1>c, <2>4, <3>1, <3>2, <3>3 DEF Undisturbed, Matched, slot
    <3>5. ASSUME NEW from, Sources(from), DOMAIN from \subseteq Slots PROVE Sources(from)'
      BY <2>4, <3>5 DEF Sources
    <3>6. derive.pc = "off" BY <1>a DEF GateHeld
    <3>7. \A r \in reports : DOMAIN r.from \subseteq Slots BY DEF TypeOK, Recipes
    <3> QED BY <1>a, <2>4, <2>6, <3>1, <3>4, <3>5, <3>6, <3>7 DEF Undisturbed, UsbDoc, GateHeld
  <2> QED BY <2>2, <2>3, <2>7, <2>8, <2>9, <2>10
<1> QED BY <1>b, <1>d, <1>e

\* The publishers are lost, the files stay.
LEMMA CrashStep == CatalogInv /\ Crash => CatalogInv'
<1> SUFFICES ASSUME CatalogInv, Crash PROVE CatalogInv' OBVIOUS
<1> USE DEF CatalogInv
<1>1. TypeOK'
  BY Bounds, Rests, DocTyped, ReadingIs, ReplayIs DEF Crash, files, hand, TypeOK, Reads,
     HolderKept, GateHeld
<1>2. GateHeld'
  BY DEF Crash, files, hand, Off, Idle, GateHeld, TypeOK, Reads
<1>3. HolderKept'
  BY Bounds, Kinds, ReadingIs, ReplayIs DEF Crash, files, hand, Off, Idle, HolderKept,
     GateHeld, TypeOK, Reads, UsbDoc, GwDoc, Derived
<1>4. ImageThere'
  BY Bounds, Kinds, ImageShows, ReplayIs, ChangedShows DEF Crash, files, hand, Off, Idle,
     ImageThere, HolderKept, TypeOK, Reads
<1>5. Agreeing'
  BY DEF Crash, files, hand, Off, Idle, Agreeing, TypeOK
<1>6. ASSUME contested' = {}, edited' = {} PROVE Undisturbed'
  BY <1>6, Bounds, Kinds, ImageShows, ReplayIs DEF Crash, files, hand, Off, Idle,
     Undisturbed, Matched, Sources, HolderKept, GateHeld, ImageThere, TypeOK, Reads,
     UsbDoc, GwDoc, Derived, Publication
<1> QED BY <1>1, <1>2, <1>3, <1>4, <1>5, <1>6

\* A hand changes a file while nobody publishes.
LEMMA EditStep == CatalogInv /\ Edit => CatalogInv'
<1> SUFFICES ASSUME CatalogInv, Edit PROVE CatalogInv' OBVIOUS
<1> USE DEF CatalogInv
<1>1. TypeOK'
  <2>1. img' \in [Slots -> Images \cup {Blank, Changed}] BY DEF Edit, TypeOK
  <2>2. edited' \subseteq Slots /\ edits' \in Nat BY DEF Edit, TypeOK, Complete
  <2> QED BY <2>1, <2>2 DEF Edit, TypeOK
<1>2. GateHeld'
  BY DEF Edit, GateHeld, TypeOK
<1>3. HolderKept'
  BY Bounds, Kinds, ReadingIs, ReplayIs DEF Edit, HolderKept, GateHeld, TypeOK, UsbDoc,
     GwDoc, Derived
<1>4. ImageThere'
  BY Bounds, Kinds, ImageShows, ReplayIs, ChangedShows DEF Edit, ImageThere, HolderKept,
     TypeOK
<1>5. Agreeing'
  BY DEF Edit, Agreeing, TypeOK
<1>6. ASSUME contested' = {}, edited' = {} PROVE Undisturbed'
  BY <1>6, Bounds, Kinds, ImageShows, ReplayIs DEF Edit, Undisturbed, Matched, Sources,
     HolderKept, GateHeld, ImageThere, TypeOK, UsbDoc, GwDoc, Derived, Publication
<1> QED BY <1>1, <1>2, <1>3, <1>4, <1>5, <1>6

\* Every step keeps the invariant.
LEMMA StepInv == CatalogInv /\ [Next]_vars => CatalogInv'
<1> SUFFICES ASSUME CatalogInv, [Next]_vars PROVE CatalogInv' OBVIOUS
<1>1. CASE Usb
  BY <1>1, UsbChooseStep, UsbOpenStep, UsbReadStep, UsbFailsStep, UsbGateStep, UsbImageStep,
     UsbLogStep, UsbMetaStep DEF Usb, UsbRenames
<1>2. CASE Derive
  BY <1>2, DeriveStartStep, DeriveStageStep, DeriveReserveStep, DeriveReportStep,
     DeriveImageStep, DeriveLogStep, DeriveMetaStep DEF Derive
<1>3. CASE Gw
  BY <1>3, GwReserveStep, GwRecordStep, GwLogStep, GwImageStep, GwMetaStep DEF Gw
<1>4. CASE Crash \/ Edit BY <1>4, CrashStep, EditStep
<1>5. CASE UNCHANGED vars
  <2>1. UNCHANGED <<part, wip, img, log, meta, reports, stages, job, usb, derive, gw, gate,
                    edited, edits, contested>>
    BY <1>5 DEF vars, files, hand
  <2>2. TypeOK' /\ GateHeld' /\ HolderKept' /\ ImageThere' /\ Agreeing'
    BY <2>1 DEF CatalogInv, TypeOK, GateHeld, HolderKept, ImageThere, Agreeing, UsbDoc
  <2>3. Undisturbed => Undisturbed'
    BY <2>1 DEF Undisturbed, Matched, Sources, UsbDoc, Derived, Publication, GwDoc
  <2> QED BY <2>1, <2>2, <2>3 DEF CatalogInv
<1> QED BY <1>1, <1>2, <1>3, <1>4, <1>5 DEF Next

\* An attempt that is complete is left as it is by every step but an edit and an
\* acquisition that was given its number when no file had it.
LEMMA KeptStep ==
  ASSUME CatalogInv, [Next]_vars, NEW n \in Complete
  PROVE  \/ meta'[n] = meta[n] /\ (img'[n] = img[n] \/ edits' # edits)
         \/ usb.slot = n /\ usb.fresh
<1> USE DEF CatalogInv
<1>1. n \in Slots /\ meta[n] # Nothing /\ img[n] # Blank BY DEF Complete, ImageThere
<1>2. CASE UNCHANGED <<img, meta>> BY <1>2
<1>3. CASE UsbImage \/ UsbMeta
  <2>1. usb.pc # "off" BY <1>3 DEF UsbImage, UsbMeta
  <2>2. usb.fresh BY <2>1 DEF HolderKept
  <2>3. usb.slot # n => UNCHANGED <<img[n], meta[n]>>
    BY <1>1, <1>3 DEF UsbImage, UsbMeta, TypeOK
  <2> QED BY <2>2, <2>3
<1>4. CASE DeriveImage
  <2>1. meta' = meta /\ (img' = img \/ img' = [img EXCEPT ![derive.slot] = Derived.data])
    BY <1>4 DEF DeriveImage
  <2>2. img[derive.slot] \in {Blank, Derived.data} \/ img' = img BY <1>4 DEF DeriveImage
  <2> QED BY <1>1, <2>1, <2>2 DEF TypeOK
<1>5. CASE DeriveMeta
  <2>1. img' = img /\ (meta' = meta \/ meta' = [meta EXCEPT ![derive.slot] = Derived])
    BY <1>5 DEF DeriveMeta
  <2>2. ~Differs(meta[derive.slot], Derived) \/ meta' = meta BY <1>5 DEF DeriveMeta
  <2> QED BY <1>1, <2>1, <2>2 DEF TypeOK, Differs
<1>6. CASE GwImage
  <2>1. meta' = meta /\ (img' = img \/ img' = [img EXCEPT ![job.slot] = job.data])
    BY <1>6 DEF GwImage
  <2>2. img[job.slot] \in {Blank, job.data} \/ img' = img BY <1>6 DEF GwImage
  <2> QED BY <1>1, <2>1, <2>2 DEF TypeOK
<1>7. CASE GwMeta
  <2>1. img' = img /\ (meta' = meta \/ meta' = [meta EXCEPT ![job.slot] = GwDoc])
    BY <1>7 DEF GwMeta
  <2>2. ~Differs(meta[job.slot], GwDoc) \/ meta' = meta BY <1>7 DEF GwMeta
  <2> QED BY <1>1, <2>1, <2>2 DEF TypeOK, Differs
<1>8. CASE Edit
  <2>1. meta' = meta /\ edits' = edits + 1 /\ edits \in Nat BY <1>8 DEF Edit, TypeOK
  <2> QED BY <2>1
<1>9. CASE UsbChoose \/ UsbOpen \/ UsbRead \/ UsbFails \/ UsbGate \/ UsbLog \/ Crash
  BY <1>2, <1>9 DEF UsbChoose, UsbOpen, UsbRead, UsbFails, UsbGate, UsbLog, Crash, files
<1>10. CASE DeriveStart \/ DeriveStage \/ DeriveReserve \/ DeriveReport \/ DeriveLog
  BY <1>2, <1>10 DEF DeriveStart, DeriveStage, DeriveReserve, DeriveReport, DeriveLog, files
<1>11. CASE GwReserve \/ GwRecord \/ GwLog
  BY <1>2, <1>11 DEF GwReserve, GwRecord, GwLog
<1>12. CASE UNCHANGED vars BY <1>2, <1>12 DEF vars, files
<1> QED
  BY <1>3, <1>4, <1>5, <1>6, <1>7, <1>8, <1>9, <1>10, <1>11, <1>12
     DEF Next, Usb, UsbRenames, Derive, Gw

-----------------------------------------------------------------------------
(* Theorems. *)

\* The files of a label, who publishes into them, and what they may hold
\* (imaging.rs, gw_publication.rs, pipeline.rs).
THEOREM CatalogInvariant == Spec => []CatalogInv
  BY InitInv, StepInv, PTL DEF Spec

\* The files, records and publishers of a label always have their types.
THEOREM TypeCorrect == Spec => []TypeOK
  BY CatalogInvariant, PTL DEF CatalogInv

\* A derived attempt that the catalog accepts has in every sector what each of
\* its sources read there, and lacks no sector that they, or the other copy of
\* the FAT, have, whatever files were changed by hand (composite.rs,
\* sector_recovery.rs, offline_images.rs).
THEOREM DerivedIsTruthful == Spec => []DerivedTruthful
<1>1. CatalogInv => DerivedTruthful
  <2> SUFFICES ASSUME CatalogInv, NEW n \in Complete, meta[n].by = "offline", Accepts(n),
                      NEW s \in Sectors, NEW m \in DOMAIN meta[n].from
               PROVE  \/ meta[n].from[m][s] = Zero /\ (img[n][s] = Zero => ~Twin(img[n], s))
                      \/ meta[n].from[m][s] # Zero /\ img[n][s] = meta[n].from[m][s]
    BY DEF DerivedTruthful
  <2> DEFINE from == meta[n].from
  <2>1. [from |-> from, slot |-> n] \in reports /\ img[n] = Replay(from) BY DEF Accepts
  <2>2. from \in Recipes BY <2>1 DEF CatalogInv, TypeOK
  <2>3. Conflicts(from) = {} BY <2>1 DEF CatalogInv, Agreeing
  <2> HIDE DEF from
  <2>4. m \in DOMAIN from BY DEF from
  <2>5. \/ from[m][s] = Zero /\ (img[n][s] = Zero => ~Twin(img[n], s))
        \/ from[m][s] # Zero /\ img[n][s] = from[m][s]
    BY <2>1, <2>2, <2>3, <2>4, ReplayTruthful
  <2> QED BY <2>5 DEF from
<1> QED BY CatalogInvariant, <1>1, PTL

\* Unless a number was taken from its owner or a file changed by hand, the
\* catalog accepts every complete attempt after any crash (imaging.rs,
\* offline_images.rs).
THEOREM LabelIsReadable == Spec => []LabelReadable
<1>1. CatalogInv => LabelReadable
  <2> SUFFICES ASSUME CatalogInv, edited = {}, spoiled = {}, contested = {}, NEW n \in Complete
               PROVE  Accepts(n)
    BY DEF LabelReadable, Refused
  <2>1. Undisturbed BY DEF CatalogInv
  <2>2. n \in Slots /\ meta[n] # Nothing BY DEF Complete
  <2>3. Matched(n) BY <2>1, <2>2 DEF Undisturbed
  <2>4. CASE meta[n].by # "offline" BY <2>2, <2>3, <2>4 DEF Matched, Accepts
  <2>5. CASE meta[n].by = "offline"
    <3> DEFINE from == meta[n].from
               report == [from |-> from, slot |-> n]
    <3>1. report \in reports /\ img[n] = Replay(from) /\ log[n] = meta[n]
      BY <2>2, <2>3, <2>5 DEF Matched
    <3>2. report.from = from OBVIOUS
    <3> HIDE DEF report
    <3>3. Sources(from) BY <2>1, <3>1, <3>2 DEF Undisturbed
    <3>4. from \in Recipes BY <3>1, <3>2 DEF CatalogInv, TypeOK
    <3>5. DOMAIN from \subseteq Slots BY <3>4 DEF Recipes
    <3>6. \A m \in DOMAIN from : SourceKept(from, m)
      BY <2>1, <3>3, <3>5 DEF Sources, SourceKept, Undisturbed, Matched
    <3> QED BY <2>5, <3>1, <3>6 DEF Accepts, report
  <2> QED BY <2>4, <2>5
<1> QED BY CatalogInvariant, <1>1, PTL

\* A complete attempt keeps its metadata and its image, unless an acquisition
\* was given its number when no file had it, or a hand changes the image
\* (imaging.rs, offline_images.rs).
THEOREM CompleteAttemptsStay == Spec => AttemptsKept
<1> DEFINE Kept == \A n \in Complete :
                     \/ meta'[n] = meta[n] /\ (img'[n] = img[n] \/ edits' # edits)
                     \/ usb.slot = n /\ usb.fresh
<1>1. CatalogInv /\ [Next]_vars => [Kept]_vars BY KeptStep
<1> QED BY CatalogInvariant, <1>1, PTL DEF Spec, AttemptsKept
=============================================================================
