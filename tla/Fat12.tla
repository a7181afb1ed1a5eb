------------------------------- MODULE Fat12 -------------------------------
(***************************************************************************)
(* What native recovery finds on a saved image of a FAT12 floppy some of   *)
(* whose sectors could not be read (src/fat12.rs and the modules below     *)
(* it): the directories are traversed breadth first, one entry at a time,  *)
(* directories without a readable entry are searched for once, and then    *)
(* the files found are judged.  Deleted files, unclaimed chains and files  *)
(* with one lost link are looked for in what the traversal left.           *)
(*                                                                         *)
(* A cluster is a sector, and the size of a file is counted in clusters.   *)
(* A directory entry is a record; the link of a cluster is a number: of    *)
(* the next cluster, Free, End or Marked.  The content of an image is what *)
(* its clusters hold if they belong to a directory, and which sequences of *)
(* clusters make a document that a format validator accepts.               *)
(***************************************************************************)
EXTENDS Integers, Sequences, FiniteSets, SequencesExt

CONSTANTS
  Clusters,    \* a range of numbers that starts with 2
  FatSector,   \* cluster -> the sectors of a copy of the FAT that hold its link
  PerSector,   \* entries in a sector of the root directory
  MaxDepth,    \* how deep directories are followed, 32 in the code
  Cases        \* images with the sectors that could not be read

\* A directory has a number of entries.
Counted(floppy) == /\ Len(floppy.root) \in Nat
                   /\ \A c \in Clusters : Len(floppy.entries[c]) \in Nat

ASSUME FatAssumption ==
  /\ IsFiniteSet(Clusters) /\ Clusters = 2 .. Cardinality(Clusters) + 1
  /\ PerSector \in Nat \ {0} /\ MaxDepth \in Nat
ASSUME CasesAssumption == \A case \in Cases : Counted(case.image)

VARIABLES
  image,       \* the saved image; its unreadable sectors hold filler
  bad,         \* the sectors that could not be read
  phase,       \* "layout", "scan", "judged", or "unknown" without a layout
  queue,       \* directories to read; the first one is being read
  pos,         \* the entry of that directory that is looked at
  pending,     \* the long name read before it, a set of at most one entry
  seen,        \* first clusters of the directories known
  owners,      \* <<cluster, claim>> : a live entry claims the cluster
  named,       \* <<key, entry>> : an entry that goes by the name
  found,       \* files with all that was learned of them
  deleted,     \* deleted entries
  excluded,    \* clusters in chains of deleted entries
  searched     \* lost directories were searched for

saved == <<image, bad>>
scan == <<phase, queue, pos, pending, seen, owners, named, found, deleted, excluded, searched>>

Copies == {1, 2}
Free == 0
End == 1
Marked == -3            \* a cluster marked bad
Unreadable == -1        \* no copy of the link could be read
Disputed == -2          \* the copies read differ

Boot == <<"boot", 0, 0>>
FatSectors(k, c) == {<<"fat", k, s>> : s \in FatSector[c]}
RootSector(i) == <<"root", 0, (i - 1) \div PerSector>>
DataSector(c) == <<"data", 0, c>>

\* An entry is named by where it is: the area, the cluster, the place in it.
RootEntries == [i \in 1 .. Len(image.root) |-> <<"root", 0, i>>]
EntriesOf(c) == [i \in 1 .. Len(image.entries[c]) |-> <<"data", c, i>>]
Entry(e) == IF e[1] = "root" THEN image.root[e[3]] ELSE image.entries[e[2]][e[3]]
SectorOf(e) == IF e[1] = "root" THEN RootSector(e[3]) ELSE DataSector(e[2])

-----------------------------------------------------------------------------
(* Layout: links and chains. *)

Link(c) ==
  LET values == {image.fat[k][c] : k \in {k \in Copies : FatSectors(k, c) \cap bad = {}}}
  IN CASE values = {} -> Unreadable
       [] Cardinality(values) > 1 -> Disputed
       [] OTHER -> CHOOSE v \in values : TRUE

Incoming(c) == {d \in Clusters : Link(d) = c}

Links == [c \in Clusters |-> Link(c)]

\* chain: where the links lead from a cluster, until one ends the chain, leads
\* out of the floppy or back into the chain, or cannot be had.
Walk(links, start) ==
  LET at[n \in 0 .. Cardinality(Clusters)] ==
        IF n = 0 THEN start
        ELSE IF at[n - 1] \in Clusters THEN links[at[n - 1]] ELSE at[n - 1]
  IN at
Stops(walk, n) == walk[n] \notin Clusters \/ \E m \in 0 .. n - 1 : walk[m] = walk[n]
StopOf(walk) == CHOOSE n \in 0 .. Cardinality(Clusters) :
                Stops(walk, n) /\ \A m \in 0 .. n - 1 : ~Stops(walk, m)

Follow(links, start) ==
  LET walk == Walk(links, start)
      length == StopOf(walk)
      last == walk[length]
  IN [clusters |-> [i \in 1 .. length |-> walk[i - 1]],
      error |-> CASE length > 0 /\ last = End -> "none"
                  [] length > 0 /\ last = Unreadable -> "unreadable"
                  [] length > 0 /\ last = Disputed -> "disputed"
                  [] OTHER -> "invalid"]
Chain(start) == Follow(Links, start)
NoChain == [clusters |-> <<>>, error |-> "none"]

Complete(chain, size) == chain.error = "none" /\ Len(chain.clusters) = size
AllReadable(clusters) == \A i \in DOMAIN clusters : DataSector(clusters[i]) \notin bad

\* Without a boot sector a layout is only believed if both copies of the FAT and
\* the root can be read whole and fit each other,
RootLive == LET ends == {i \in DOMAIN image.root : image.root[i].kind = "end"}
            IN {i \in DOMAIN image.root : \A j \in ends : i < j}
MetadataFits ==
  /\ \A c \in Clusters, k \in Copies : FatSectors(k, c) \cap bad = {}
  /\ \A i \in DOMAIN image.root : RootSector(i) \notin bad
  /\ image.fat[1] = image.fat[2]
  /\ \A c \in Clusters : image.fat[1][c] \in Clusters \cup {Free, End, Marked}
  /\ \A i \in RootLive : image.root[i].kind # "odd"
RootFiles == {i \in RootLive : /\ image.root[i].kind = "file" /\ image.root[i].size > 0
                               /\ Complete(Chain(image.root[i].start), image.root[i].size)}
\* standard: and a file has the length its entry tells,
Corroborated == MetadataFits /\ RootLive # DOMAIN image.root /\ RootFiles # {}
\* candidate: or two of the files, none of which overlap, are valid documents.
ContentSupported ==
  LET clusters(i) == Chain(image.root[i].start).clusters
  IN /\ MetadataFits
     /\ \A i, j \in RootFiles : i # j => ToSet(clusters(i)) \cap ToSet(clusters(j)) = {}
     /\ Cardinality({i \in RootFiles : AllReadable(clusters(i)) /\ clusters(i) \in image.whole}) >= 2

Directory(key, entries, ancestors, depth, keys) ==
  [key |-> key, entries |-> entries, ancestors |-> ancestors, depth |-> depth, keys |-> keys]

Resolve ==
  /\ phase = "layout"
  /\ IF Boot \notin bad \/ Corroborated \/ ContentSupported
       THEN /\ phase' = "scan"
            /\ queue' = <<Directory(<<0>>, RootEntries, {}, 0, {})>>
       ELSE phase' = "unknown" /\ UNCHANGED queue
  /\ UNCHANGED <<saved, pos, pending, seen, owners, named, found, deleted, excluded, searched>>

-----------------------------------------------------------------------------
(* analyze: the traversal. *)

Reading == phase = "scan" /\ queue # <<>>
Dir == Head(queue)
Here == Dir.entries[pos]
Readable == /\ Reading /\ pos <= Len(Dir.entries)
            /\ SectorOf(Here) \notin bad
Is(kinds) == Readable /\ Entry(Here).kind \in kinds

Advance == pos' = pos + 1 /\ UNCHANGED <<phase, searched>>

\* Only an intact end marker ends a directory early.
LeaveDirectory ==
  /\ Reading
  /\ pos > Len(Dir.entries) \/ Is({"end"})
  /\ queue' = Tail(queue) /\ pos' = 1 /\ pending' = {}
  /\ UNCHANGED <<saved, phase, seen, owners, named, found, deleted, excluded, searched>>

\* (mutant) nothing is read behind an unreadable sector.
GapEnds ==
  /\ Reading /\ pos <= Len(Dir.entries) /\ SectorOf(Here) \in bad
  /\ queue' = Tail(queue) /\ pos' = 1 /\ pending' = {}
  /\ UNCHANGED <<saved, phase, seen, owners, named, found, deleted, excluded, searched>>

\* A sector of the directory is missing: what it held is not known.
Gap ==
  /\ Reading /\ pos <= Len(Dir.entries) /\ SectorOf(Here) \in bad
  /\ Advance /\ pending' = {}
  /\ UNCHANGED <<saved, queue, seen, owners, named, found, deleted, excluded>>

\* Volume labels, dot entries and the slots of a deleted long name.
Label ==
  /\ Is({"label"})
  /\ Advance /\ pending' = {}
  /\ UNCHANGED <<saved, queue, seen, owners, named, found, deleted, excluded>>

LongName ==
  /\ Is({"long"})
  /\ Advance /\ pending' = {Entry(Here)}
  /\ UNCHANGED <<saved, queue, seen, owners, named, found, deleted, excluded>>

DeletedEntry ==
  /\ Is({"deleted", "deleted dir"})
  /\ deleted' = deleted \cup {[entry |-> Here, ancestors |-> Dir.ancestors]}
  /\ excluded' = excluded \cup ToSet(Chain(Entry(Here).start).clusters)
  /\ Advance /\ pending' = {}
  /\ UNCHANGED <<saved, queue, seen, owners, named, found>>

\* PendingName::take: a long name counts if it was made for this short name.
Name == IF \E long \in pending : long.alias = Entry(Here).alias
          THEN (CHOOSE long \in pending : TRUE).name ELSE Entry(Here).alias
Key(name) == Append(Dir.key, name)
Keys == {Key(Name), Key(Entry(Here).alias)}
Claim == <<Key(Name), Here>>

\* A live entry takes its names, and the clusters of its chain.
TakeNames == named' = named \cup {<<key, Here>> : key \in Keys}
TakeClusters(chain) == owners' = owners \cup {<<c, Claim>> : c \in ToSet(chain.clusters)}

OddEntry ==
  /\ Is({"odd"})
  /\ TakeNames /\ TakeClusters(Chain(Entry(Here).start))
  /\ Advance /\ pending' = {}
  /\ UNCHANGED <<saved, queue, seen, found, deleted, excluded>>

FileChain(e) == IF e.size = 0 /\ e.start = 0 THEN NoChain ELSE Chain(e.start)

\* (mutant) the filler of a sector that could not be read passes for content.
IssueWithoutData(e, chain) ==
  IF chain.error # "none" THEN chain.error
  ELSE IF Len(chain.clusters) # e.size THEN "size"
  ELSE "none"

\* What keeps a file from being complete, whoever else claims its clusters.
Issue(e, chain) ==
  IF chain.error # "none" THEN chain.error
  ELSE IF Len(chain.clusters) # e.size THEN "size"
  ELSE IF ~AllReadable(chain.clusters) THEN "data"
  ELSE "none"

FileEntry ==
  /\ Is({"file"})
  /\ LET e == Entry(Here)
         chain == FileChain(e)
     IN /\ TakeNames /\ TakeClusters(chain)
        /\ found' = found \cup
             {[claim |-> Claim, size |-> e.size, clusters |-> chain.clusters,
               issue |-> Issue(e, chain), ancestors |-> Dir.ancestors, keys |-> Dir.keys \cup Keys]}
  /\ Advance /\ pending' = {}
  /\ UNCHANGED <<saved, queue, seen, deleted, excluded>>

EntriesOfChain(clusters) == FlattenSeq([i \in DOMAIN clusters |-> EntriesOf(clusters[i])])

\* A directory is read once, as far as its chain is known.
DirEntry ==
  /\ Is({"dir"})
  /\ LET chain == Chain(Entry(Here).start)
     IN /\ TakeNames /\ TakeClusters(chain)
        /\ IF Dir.depth >= MaxDepth \/ Entry(Here).start \in seen
             THEN UNCHANGED <<queue, seen>>
             ELSE /\ seen' = seen \cup {Entry(Here).start}
                  /\ queue' = Append(queue,
                       Directory(Key(Name), EntriesOfChain(chain.clusters),
                                 Dir.ancestors \cup ToSet(chain.clusters), Dir.depth + 1,
                                 Dir.keys \cup Keys))
  /\ Advance /\ pending' = {}
  /\ UNCHANGED <<saved, found, deleted, excluded>>

-----------------------------------------------------------------------------
(* discover: directories whose own entry could not be read. *)

Owned == {pair[1] : pair \in owners}

\* A child before the end marker that could be a live one.
Plausible(e) ==
  \/ e.kind = "file" /\ (e.start \in Clusters \/ (e.start = 0 /\ e.size = 0))
  \/ e.kind = "dir" /\ e.start \in Clusters
HasChild(entries) ==
  LET ends == {i \in DOMAIN entries : SectorOf(entries[i]) \notin bad /\ Entry(entries[i]).kind = "end"}
  IN \E i \in DOMAIN entries :
       /\ SectorOf(entries[i]) \notin bad /\ Plausible(Entry(entries[i]))
       /\ \A j \in ends : i < j

\* The start of a directory by its dot entries, claimed by nobody, with a chain
\* that is complete and its own, and a parent that is not something else.
Anchored(h) ==
  LET parent == image.parent[h]
      chain == Chain(h)
  IN /\ Link(h) \in Clusters \cup {End} /\ Incoming(h) = {}
     /\ DataSector(h) \notin bad
     /\ parent \in (Clusters \cup {0}) \ {h}
     /\ parent \notin excluded /\ (parent \in Owned => parent \in seen)
     /\ chain.error = "none"
     /\ \A i \in DOMAIN chain.clusters :
          /\ chain.clusters[i] \notin Owned \cup excluded
          /\ Cardinality(Incoming(chain.clusters[i])) <= 1
     /\ HasChild(EntriesOfChain(chain.clusters))

\* A directory inside another lost one is left to its parent's entry.
Lost == LET candidates == {h \in Clusters : Anchored(h)}
        IN {h \in candidates : image.parent[h] \notin candidates}

Ascending(numbers) ==
  CHOOSE s \in [1 .. Cardinality(numbers) -> numbers] :
    \A i, j \in DOMAIN s : i < j => s[i] < s[j]

Search ==
  /\ phase = "scan" /\ queue = <<>> /\ ~searched
  /\ searched' = TRUE
  /\ LET heads == Lost
         claim(h) == <<<<h>>, <<"lost", h, 0>>>>
         tree(h) == LET clusters == Chain(h).clusters
                    IN Directory(<<h>>, EntriesOfChain(clusters), ToSet(clusters), 0, {<<h>>})
         order == Ascending(heads)
     IN /\ named' = named \cup {claim(h) : h \in heads}
        /\ owners' = owners \cup UNION {{<<c, claim(h)>> : c \in ToSet(Chain(h).clusters)} : h \in heads}
        /\ seen' = seen \cup heads
        /\ queue' = [i \in DOMAIN order |-> tree(order[i])]
  /\ UNCHANGED <<saved, phase, pos, pending, found, deleted, excluded>>

Judge ==
  /\ phase = "scan" /\ queue = <<>> /\ searched
  /\ phase' = "judged"
  /\ UNCHANGED <<saved, queue, pos, pending, seen, owners, named, found, deleted, excluded, searched>>

-----------------------------------------------------------------------------
(* The verdicts, and what is looked for in the rest. *)

Crosslinked == {c \in Owned : \E p, q \in owners : p[1] = c /\ q[1] = c /\ p # q}
Ambiguous(key) == \E p, q \in named : p[1] = key /\ q[1] = key /\ p # q

\* (mutant) only the claims on a file's first cluster are compared.
VerdictOfHead(f) ==
  IF f.issue # "none" THEN f.issue
  ELSE IF f.clusters # <<>> /\ f.clusters[1] \in Crosslinked THEN "ownership"
  ELSE IF \E key \in f.keys : Ambiguous(key) THEN "ownership"
  ELSE "none"

Verdict(f) ==
  IF f.issue # "none" THEN f.issue
  ELSE IF (ToSet(f.clusters) \cup f.ancestors) \cap Crosslinked # {} THEN "ownership"
  ELSE IF \E key \in f.keys : Ambiguous(key) THEN "ownership"
  ELSE "none"

Recovered == {f \in found : Verdict(f) = "none"}
Incomplete == found \ Recovered

\* partial_file_safe
Safe(f) == Verdict(f) # "ownership" /\ ToSet(f.clusters) \cap Crosslinked = {}

\* The clusters of an incomplete file whose bytes are kept as fragments.
Fragments(f) == {f.clusters[i] : i \in {i \in DOMAIN f.clusters :
                   i <= f.size /\ DataSector(f.clusters[i]) \notin bad}}

\* (mutant) chains of deleted files are taken for unclaimed ones.
UnclaimedOrDeleted ==
  {h \in Clusters :
     LET chain == Chain(h)
     IN /\ Link(h) \in Clusters \cup {End} /\ Incoming(h) = {} /\ chain.error = "none"
        /\ ToSet(chain.clusters) \cap Owned = {}
        /\ \A i \in DOMAIN chain.clusters : Cardinality(Incoming(chain.clusters[i])) <= 1}

\* (mutant) a chain of one cluster is not taken for one.
UnclaimedLong ==
  {h \in Clusters :
     LET chain == Chain(h)
     IN /\ Link(h) \in Clusters /\ Incoming(h) = {} /\ chain.error = "none"
        /\ ToSet(chain.clusters) \cap (Owned \cup excluded) = {}
        /\ \A i \in DOMAIN chain.clusters : Cardinality(Incoming(chain.clusters[i])) <= 1}

\* orphan_regions: heads of complete chains that nobody claims.
Unclaimed ==
  {h \in Clusters :
     LET chain == Chain(h)
     IN /\ Link(h) \in Clusters \cup {End} /\ Incoming(h) = {} /\ chain.error = "none"
        /\ ToSet(chain.clusters) \cap (Owned \cup excluded) = {}
        /\ \A i \in DOMAIN chain.clusters : Cardinality(Incoming(chain.clusters[i])) <= 1}

\* A validated document at the start of these clusters, longer than so many.
Documented(clusters, least) ==
  \E doc \in image.whole : Len(doc) > least /\ IsPrefix(doc, clusters)

\* hypotheses: a file that breaks off at a lost link, continued by an unclaimed
\* chain of the right length such that a document begins at its start.
Tails(f) ==
  IF ~Safe(f) \/ f.issue # "unreadable" \/ Len(f.clusters) >= f.size \/ ~AllReadable(f.clusters)
    THEN {}
    ELSE {tail \in {Chain(h).clusters : h \in Unclaimed} :
            /\ Len(tail) = f.size - Len(f.clusters) /\ AllReadable(tail)
            /\ Documented(f.clusters \o tail, Len(f.clusters))}

\* analyze_deleted: the clusters of a deleted entry are those of its chain, or
\* when that is gone as many free ones in a row.
IsFree(d) == LET e == Entry(d.entry) IN
  /\ e.kind = "deleted" /\ e.size > 0
  /\ e.start \in Clusters /\ Link(e.start) = Free /\ e.start + e.size - 1 \in Clusters
Extent(d) == LET e == Entry(d.entry) IN
  IF IsFree(d) THEN [i \in 1 .. e.size |-> e.start + i - 1] ELSE Chain(e.start).clusters
Survives(d) == LET e == Entry(d.entry) IN
  IF IsFree(d) THEN \A i \in DOMAIN Extent(d) : Link(Extent(d)[i]) = Free
  ELSE Chain(e.start).error = "none"

\* (mutant) whether a live file has taken the clusters is not asked.
UndeletableReused(d) ==
  LET clusters == Extent(d)
      from(i) == IF IsFree(d) \/ i = 1 THEN {} ELSE {clusters[i - 1]}
  IN /\ Entry(d.entry).kind = "deleted" /\ Entry(d.entry).size > 0
     /\ d.ancestors \cap Crosslinked = {}
     /\ \A other \in deleted \ {d} : ToSet(Extent(other)) \cap ToSet(clusters) = {}
     /\ \A i \in DOMAIN clusters : Incoming(clusters[i]) \in {{}, from(i)}
     /\ Len(clusters) = Entry(d.entry).size /\ Survives(d) /\ AllReadable(clusters)

Undeletable(d) ==
  LET clusters == Extent(d)
      from(i) == IF IsFree(d) \/ i = 1 THEN {} ELSE {clusters[i - 1]}
  IN /\ Entry(d.entry).kind = "deleted" /\ Entry(d.entry).size > 0
     /\ d.ancestors \cap Crosslinked = {}
     /\ ToSet(clusters) \cap Owned = {}
     /\ \A other \in deleted \ {d} : ToSet(Extent(other)) \cap ToSet(clusters) = {}
     /\ \A i \in DOMAIN clusters : Incoming(clusters[i]) \in {{}, from(i)}
     /\ Len(clusters) = Entry(d.entry).size /\ Survives(d) /\ AllReadable(clusters)

Undeleted == {d \in deleted : Undeletable(d)}

-----------------------------------------------------------------------------
ScanInit ==
  /\ phase = "layout" /\ queue = <<>> /\ pos = 1 /\ pending = {} /\ searched = FALSE
  /\ seen = {} /\ owners = {} /\ named = {} /\ found = {} /\ deleted = {} /\ excluded = {}

Scan == \/ Resolve \/ LeaveDirectory \/ Gap \/ Label \/ LongName
        \/ DeletedEntry \/ OddEntry \/ FileEntry \/ DirEntry \/ Search \/ Judge

Over == phase \in {"judged", "unknown"}
ScanSpec == (\E case \in Cases : image = case.image /\ bad = case.bad) /\ ScanInit
            /\ [][Scan]_<<saved, scan>>

-----------------------------------------------------------------------------
(* The floppy as it was written, for the properties. *)

Written(start) == Follow(image.fat[1], start)
IsLive(e) == Entry(e).kind \in {"file", "dir"}

\* The live entries of a directory: those before its end marker.
LiveIn(entries) ==
  {entries[i] : i \in {i \in DOMAIN entries :
     /\ IsLive(entries[i])
     /\ \A j \in 1 .. i - 1 : Entry(entries[j]).kind # "end"}}
WrittenIn(e) == EntriesOfChain(Written(Entry(e).start).clusters)

\* All live entries, down to so many levels below the root.
LiveTo[n \in 0 .. MaxDepth + 1] ==
  IF n = 0 THEN LiveIn(RootEntries)
  ELSE LiveTo[n - 1] \cup UNION {LiveIn(WrittenIn(e)) : e \in {e \in LiveTo[n - 1] : Entry(e).kind = "dir"}}
Live == LiveTo[MaxDepth]

\* The names a directory gives; a long name stands before its entry.
NamesIn(entries, i) ==
  {Entry(entries[i]).alias} \cup
    (IF i > 1 /\ Entry(entries[i - 1]).kind = "long" THEN {Entry(entries[i - 1]).name} ELSE {})
Orderly(entries) ==
  /\ \A i \in DOMAIN entries : Entry(entries[i]).kind # "odd"
  /\ \A i, j \in DOMAIN entries :
       /\ i < j /\ Entry(entries[i]).kind = "end" => Entry(entries[j]).kind = "end"
       /\ i # j /\ IsLive(entries[i]) /\ IsLive(entries[j])
            => NamesIn(entries, i) \cap NamesIn(entries, j) = {}

\* The chain of a live entry, and the live directories.
ChainOf(e) == IF Entry(e).start = 0 THEN NoChain ELSE Written(Entry(e).start)
LiveDirs == {e \in Live : Entry(e).kind = "dir"}

\* A cluster that begins with dot entries is the first of a directory, and lies
\* in the one they name.
DotsTrue ==
  \A h \in Clusters :
    image.fat[1][h] \in Clusters \cup {End} /\ image.parent[h] \in Clusters \cup {0} =>
      \E e \in LiveDirs :
        /\ Entry(e).start = h
        /\ \/ image.parent[h] = 0 /\ e \in LiveIn(RootEntries)
           \/ \E d \in LiveDirs : Entry(d).start = image.parent[h] /\ e \in LiveIn(WrittenIn(d))

\* A floppy without a fault: both copies of the FAT agree, every allocated
\* cluster belongs to one live entry, which it fits, names are unique, dot
\* entries are true, and nothing lies deeper than directories are followed.
Sound ==
  /\ image.fat[1] = image.fat[2]
  /\ Orderly(RootEntries)
  /\ \A e \in Live : /\ ChainOf(e).error = "none"
                     /\ Entry(e).kind = "file" => Len(ChainOf(e).clusters) = Entry(e).size
  /\ \A e \in LiveDirs : Orderly(WrittenIn(e))
  /\ \A e, d \in Live : e # d => ToSet(ChainOf(e).clusters) \cap ToSet(ChainOf(d).clusters) = {}
  /\ \A c \in Clusters : image.fat[1][c] \in Clusters \cup {End} =>
       \E e \in Live : c \in ToSet(ChainOf(e).clusters)
  /\ DotsTrue
  /\ LiveTo[MaxDepth + 1] = Live
Judged == phase = "judged"

-----------------------------------------------------------------------------
(* Properties. *)

\* What the state is made of.
Fat12TypeOK ==
  /\ phase \in {"layout", "scan", "judged", "unknown"} /\ pos \in Nat \ {0}
  /\ searched \in BOOLEAN /\ Cardinality(pending) <= 1
  /\ seen \subseteq Int /\ excluded \subseteq Clusters
  /\ \A pair \in owners : pair[1] \in Clusters
  /\ \A f \in found : \A c \in ToSet(f.clusters) : <<c, f.claim>> \in owners

\* On any image, however damaged or inconsistent, no cluster is given twice:
\* not to two recovered files, nor to one of them and a fragment of an
\* incomplete file, an unclaimed chain or a deleted file, nor to fragments of
\* two files, nor to any two of the unclaimed chains and deleted files.
LiveOnce ==
  LET kept == {f \in Incomplete : Safe(f)}
  IN /\ \A f, g \in Recovered : f.claim # g.claim => ToSet(f.clusters) \cap ToSet(g.clusters) = {}
     /\ \A f \in kept : \A g \in Recovered \cup kept :
          f.claim # g.claim => Fragments(f) \cap ToSet(g.clusters) = {}
     /\ \A f \in Recovered :
          /\ \A h \in Unclaimed : ToSet(f.clusters) \cap ToSet(Chain(h).clusters) = {}
          /\ \A d \in Undeleted : ToSet(f.clusters) \cap ToSet(Extent(d)) = {}
ForensicOnce ==
  /\ \A g, h \in Unclaimed : g # h => ToSet(Chain(g).clusters) \cap ToSet(Chain(h).clusters) = {}
  /\ \A d \in Undeleted :
       /\ \A h \in Unclaimed : ToSet(Extent(d)) \cap ToSet(Chain(h).clusters) = {}
       /\ \A e \in Undeleted : d # e => ToSet(Extent(d)) \cap ToSet(Extent(e)) = {}
ClaimedOnce == Judged => LiveOnce /\ ForensicOnce

\* The live entries that can be read in a directory, as far as its links can.
LinksRead(e) == FileChain(Entry(e)).error = "none"
ReadIn(entries) == {e \in LiveIn(entries) : SectorOf(e) \notin bad}
ReadOf(e) == ReadIn(EntriesOfChain(Chain(Entry(e).start).clusters))

\* What can be read from some entries on, without entering some directories.
ReadFrom(start, closed) ==
  LET to[n \in 0 .. MaxDepth] ==
        IF n = 0 THEN start
        ELSE to[n - 1] \cup UNION {ReadOf(e) : e \in {e \in to[n - 1] :
                                     Entry(e).kind = "dir" /\ Entry(e).start \notin closed}}
  IN to[MaxDepth]
Rooted == ReadFrom(ReadIn(RootEntries), {})

\* A directory has traces of its own: its links, its first sector and a child.
Traces(h) == /\ Chain(h).error = "none" /\ DataSector(h) \notin bad
             /\ HasChild(EntriesOfChain(Chain(h).clusters))

\* A directory whose entry cannot be read gives itself away by its traces and
\* its dot entries, unless deleted entries had to do with it, or the directory
\* that it is in must itself be recognised so.
GivesItselfAway(e) ==
  LET h == Entry(e).start
      parent == image.parent[h]
  IN /\ SectorOf(e) \in bad /\ Traces(h)
     /\ parent \in (Clusters \cup {0}) \ {h} /\ parent \notin excluded
     /\ ToSet(Chain(h).clusters) \cap excluded = {}
     /\ \A d \in LiveDirs \ Rooted : Entry(d).start = parent => ~Traces(parent)
Alone == {e \in LiveDirs : GivesItselfAway(e)}

\* The directories taken for lost ones: what is below one of them that is also
\* read through its entry is not had, since its clusters are claimed twice.
Taken == {h \in Clusters : <<<<h>>, <<"lost", h, 0>>>> \in named}
Reachable == Rooted \cup ReadFrom(UNION {ReadOf(e) : e \in Alone}, Taken)

\* Every recovered file is one that the floppy holds, whole and in order, and
\* was read: no damage makes a file up or joins it wrongly.
FilesTrue ==
  \A f \in Recovered : LET e == Entry(f.claim[2]) IN
    /\ f.claim[2] \in Live /\ AllReadable(f.clusters)
    /\ f.clusters = IF e.start = 0 THEN <<>> ELSE Written(e.start).clusters

\* Every file is recovered whose entry, links and content can be read, if its
\* directory can be reached from the root or gives itself away.
ReadableRecovered ==
  \A e \in Reachable :
    /\ Entry(e).kind = "file" /\ LinksRead(e)
    /\ AllReadable(FileChain(Entry(e)).clusters)
    => \E f \in Recovered : f.claim[2] = e

\* A document that has lost one link and nothing else is among the hypotheses,
\* unless a deleted entry claims some of it.
TailsConsidered ==
  \A f \in Incomplete :
    LET whole == Written(Entry(f.claim[2]).start).clusters
        tail == SubSeq(whole, Len(f.clusters) + 1, Len(whole))
    IN /\ f.issue = "unreadable" /\ whole \in image.whole /\ AllReadable(whole)
       /\ ToSet(whole) \cap excluded = {}
       /\ tail # <<>> /\ Chain(Head(tail)) = [clusters |-> tail, error |-> "none"]
       => tail \in Tails(f)

\* Of a floppy without a fault, whatever of it cannot be read, native recovery
\* gives what is true, and all that can be had.
TrueAndWhole == Judged /\ Sound => FilesTrue /\ ReadableRecovered /\ TailsConsidered
=============================================================================
