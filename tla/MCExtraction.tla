------------------------------ MODULE MCExtraction ------------------------------
EXTENDS Extraction

Five == 2 .. 6
Halves == [c \in Five |-> CASE c = 2 -> {1} [] c = 3 -> {1, 2} [] OTHER -> {2}]
Slot(kind, name, alias, start, size) ==
  [kind |-> kind, name |-> name, alias |-> alias, start |-> start, size |-> size]
File(alias, start, size) == Slot("file", "", alias, start, size)
Folder(alias, start) == Slot("dir", "", alias, start, 0)
Long(name, alias) == Slot("long", name, alias, 0, 0)
Gone(start, size) == Slot("deleted", "", "", start, size)
Odd(alias, start) == Slot("odd", "", alias, start, 0)
Nothing == Slot("end", "", "", 0, 0)
Volume == Slot("label", "", "", 0, 0)

Fat(chains) == [c \in Five |->
  IF \E chain \in chains : c \in ToSet(chain)
    THEN LET chain == CHOOSE chain \in chains : c \in ToSet(chain)
             i == CHOOSE i \in DOMAIN chain : chain[i] = c
         IN IF i = Len(chain) THEN End ELSE chain[i + 1]
    ELSE Free]
Image(root, chains, inside, parent) ==
  [fat |-> [k \in Copies |-> Fat(chains)], root |-> root,
   entries |-> [c \in Five |-> IF c \in DOMAIN inside THEN inside[c] ELSE <<>>],
   parent |-> [c \in Five |-> IF c \in DOMAIN parent THEN parent[c] ELSE -1],
   whole |-> {chain \in chains : Head(chain) \notin DOMAIN inside}]
None == [c \in {} |-> <<>>]
At(c, x) == [d \in {c} |-> x]

\* Floppies without a fault: fragmented files, a directory in two pieces, lost
\* directories inside each other, deleted files, a root without an end marker.
TwoFiles == Image(<<File("A", 2, 3), Long("long", "B"), File("B", 3, 2), Nothing>>,
                  {<<2, 4, 6>>, <<3, 5>>}, None, None)
InFolder == Image(<<Volume, File("A", 4, 1), Folder("D", 2), Nothing>>, {<<4>>, <<2, 5>>, <<3, 6>>},
                  [c \in {2, 5} |-> IF c = 2 THEN <<File("X", 3, 2), Gone(4, 1)>>
                                             ELSE <<File("Y", 0, 0), Nothing>>], At(2, 0))
Nested == Image(<<Folder("D", 2), Nothing, Nothing, Nothing>>, {<<2>>, <<3>>, <<4, 6>>, <<5>>},
                [c \in {2, 3} |-> IF c = 2 THEN <<Folder("E", 3), File("X", 5, 1)>>
                                           ELSE <<File("Y", 4, 2), Nothing>>],
                [c \in {2, 3} |-> IF c = 2 THEN 0 ELSE 2])
Deleted == Image(<<Gone(3, 2), File("A", 2, 1), Gone(4, 2), Nothing>>, {<<2>>}, None, None)
FullRoot == Image(<<File("A", 2, 2), File("B", 4, 1)>>, {<<2, 5>>, <<4>>}, None, None)
Sector == {Boot} \cup UNION {FatSectors(k, c) : k \in Copies, c \in Five}
          \cup {RootSector(1), RootSector(3)} \cup {DataSector(c) : c \in Five}
\* A lost directory below one without traces of its own.
Deep == Image(<<Volume, Volume, Folder("A", 2), Nothing>>, {<<2>>, <<3, 4>>, <<5>>, <<6>>},
              [c \in 2 .. 5 |-> CASE c = 2 -> <<Folder("B", 3), Nothing>> [] c = 3 -> <<Volume>>
                                  [] c = 4 -> <<Folder("C", 5), Nothing>> [] c = 5 -> <<File("F", 6, 1), Nothing>>],
              [c \in {2, 3, 5} |-> CASE c = 2 -> 0 [] c = 3 -> 2 [] c = 5 -> 3])
DamagedCases == [image : {TwoFiles, InFolder, Nested, Deep, Deleted, FullRoot},
                 bad : {b \in SUBSET Sector : Cardinality(b) <= 3}]

\* Floppies with faults: any links between three clusters, entries that share
\* them, one of them with a name twice, malformed, deleted or a directory.
AnyLinks(e) ==
  [fat : {[k \in Copies |-> [c \in Five |-> IF c \in DOMAIN l THEN l[c] ELSE Free]] : l \in [2 .. 4 -> {0, 1, 2, 3, 4}]},
   root : {<<File("A", a, n), e, Gone(d, 1), Nothing>> : a, d \in 2 .. 4, n \in 1 .. 2},
   entries : {[c \in Five |-> IF c = 2 THEN <<File("X", 4, 1), Nothing>> ELSE <<>>]},
   parent : {[c \in Five |-> IF c = 2 THEN 0 ELSE -1]}, whole : {{}}]
FaultyCases == [image : UNION {AnyLinks(e) : e \in {File("B", 3, 1), File("B", 3, 2), File("A", 3, 2), Odd("B", 3), Folder("D", 2)}},
                bad : {{}}]
Disagreeing == {[TwoFiles EXCEPT !.fat[2][c] = v] : c \in {2, 4, 5}, v \in {Free, End, 6}}
FoldersCrossed == {[InFolder EXCEPT !.fat[1][5] = 3, !.fat[2][5] = 3],
                   [InFolder EXCEPT !.root[2] = Slot("deleted dir", "", "", 2, 0)],
                   [Nested EXCEPT !.root[2] = Folder("D", 3)],
                   [Nested EXCEPT !.root[2] = Folder("E", 2)]}
\* Two files that share a cluster, and a document nobody claims.
Shared == LET sound == Image(<<File("A", 2, 2), File("B", 4, 2), Nothing>>, {<<2, 3>>, <<5, 6>>}, None, None)
          IN [sound EXCEPT !.fat[1][4] = 3, !.fat[2][4] = 3, !.whole = {<<5, 6>>}]
OddCases == [image : Disagreeing \cup FoldersCrossed \cup {Shared}, bad : {b \in SUBSET Sector : Cardinality(b) <= 1}]
StudiedCases == [image : {TwoFiles, FullRoot, Deleted, Nested, Shared}, bad : {{}, {DataSector(4)}}]
AllCases == DamagedCases \cup FaultyCases \cup OddCases
=============================================================================
