--------------------------- MODULE ExtractionProofs ---------------------------
(***************************************************************************)
(* Proofs about extraction, for every floppy, every damage and every       *)
(* number of runs.  Of a scan: it gives no cluster twice, and where the    *)
(* copies of the FAT agree a recovered file lies where the floppy had it.  *)
(* Of runs on one disk: what was once extracted is kept, and a repeated    *)
(* run comes to the same end.  Of a scan of a floppy without a fault: what *)
(* it recovers is true, and nothing that can be had is missed.             *)
(***************************************************************************)
EXTENDS Extraction, FiniteSetTheorems, SequenceTheorems, TLAPS

-----------------------------------------------------------------------------
(* Claims.                                                                 *)

\* Every file that was found has claimed the clusters of its chain.
ClaimsRecorded == \A f \in found : \A c \in ToSet(f.clusters) : <<c, f.claim>> \in owners

\* A cluster of a file that two claims name is crosslinked.
LEMMA TwoClaims ==
  ASSUME ClaimsRecorded, NEW f \in found, NEW g \in found, f.claim # g.claim,
         NEW c \in ToSet(f.clusters), c \in ToSet(g.clusters)
  PROVE  c \in Crosslinked
<1> DEFINE p == <<c, f.claim>>
           q == <<c, g.claim>>
<1>1. p \in owners /\ q \in owners BY DEF ClaimsRecorded
<1>2. p # q /\ p[1] = c /\ q[1] = c OBVIOUS
<1>3. c \in Owned BY <1>1, <1>2 DEF Owned
<1> HIDE DEF p, q
<1> QED BY <1>1, <1>2, <1>3 DEF Crosslinked

\* A file's clusters are owned.
LEMMA FoundIsOwned ==
  ASSUME ClaimsRecorded, NEW f \in found
  PROVE  ToSet(f.clusters) \subseteq Owned
<1> SUFFICES ASSUME NEW c \in ToSet(f.clusters) PROVE c \in Owned OBVIOUS
<1> DEFINE p == <<c, f.claim>>
<1>1. p \in owners BY DEF ClaimsRecorded
<1>2. p[1] = c OBVIOUS
<1> HIDE DEF p
<1> QED BY <1>1, <1>2 DEF Owned

\* A recovered file has no crosslinked cluster.
LEMMA RecoveredIsClean ==
  ASSUME NEW f \in Recovered
  PROVE  f \in found /\ ToSet(f.clusters) \cap Crosslinked = {}
<1>1. f \in found /\ Verdict(f) = "none" BY DEF Recovered
<1>2. f.issue = "none" BY <1>1 DEF Verdict
<1>3. (ToSet(f.clusters) \cup f.ancestors) \cap Crosslinked = {} BY <1>1, <1>2 DEF Verdict
<1> QED BY <1>1, <1>3

\* The fragments of a file are some of its clusters.
LEMMA FragmentsAreClusters ==
  ASSUME NEW f PROVE Fragments(f) \subseteq ToSet(f.clusters)
BY DEF Fragments, ToSet

\* The verdicts keep apart what the claims allow.
LEMMA ClaimsKeepApart == ClaimsRecorded => LiveOnce
<1> SUFFICES ASSUME ClaimsRecorded PROVE LiveOnce OBVIOUS
<1> DEFINE kept == {f \in Incomplete : Safe(f)}
<1>1. ASSUME NEW f \in kept PROVE f \in found /\ ToSet(f.clusters) \cap Crosslinked = {}
  BY <1>1 DEF Incomplete, Safe
<1>2. ASSUME NEW f \in Recovered, NEW g \in Recovered, f.claim # g.claim
      PROVE  ToSet(f.clusters) \cap ToSet(g.clusters) = {}
  BY <1>2, RecoveredIsClean, TwoClaims
<1>3. ASSUME NEW f \in kept, NEW g \in Recovered \cup kept, f.claim # g.claim
      PROVE  Fragments(f) \cap ToSet(g.clusters) = {}
  <2>1. g \in found BY <1>1, RecoveredIsClean
  <2>2. ToSet(f.clusters) \cap ToSet(g.clusters) = {} BY <1>1, <1>3, <2>1, TwoClaims
  <2> QED BY <2>2, FragmentsAreClusters
<1>4. ASSUME NEW f \in Recovered, NEW h \in Unclaimed
      PROVE  ToSet(f.clusters) \cap ToSet(Chain(h).clusters) = {}
  <2>1. ToSet(f.clusters) \subseteq Owned BY RecoveredIsClean, FoundIsOwned
  <2>2. ToSet(Chain(h).clusters) \cap Owned = {} BY DEF Unclaimed
  <2> QED BY <2>1, <2>2
<1>5. ASSUME NEW f \in Recovered, NEW d \in Undeleted
      PROVE  ToSet(f.clusters) \cap ToSet(Extent(d)) = {}
  <2>1. ToSet(f.clusters) \subseteq Owned BY RecoveredIsClean, FoundIsOwned
  <2>2. ToSet(Extent(d)) \cap Owned = {} BY DEF Undeleted, Undeletable
  <2> QED BY <2>1, <2>2
<1> QED BY <1>2, <1>3, <1>4, <1>5 DEF LiveOnce

-----------------------------------------------------------------------------
(* Counting.                                                               *)

\* A set of numbers that is not empty has a least element: the subsets of an
\* interval are well-founded.
LEMMA LeastBelow ==
  ASSUME NEW N \in Nat, NEW A, A \subseteq 0 .. N, A # {}
  PROVE \E x \in A : \A y \in A : ~(y < x)
<1> DEFINE S == 0 .. N
           T == {0 .. n : n \in A}
           R == StrictSubsetOrdering(S)
<1>1. IsFiniteSet(S) BY FS_Interval
<1>2. IsWellFoundedOn(R, SUBSET S)
  BY <1>1, FS_StrictSubsetOrderingWellFounded, FS_FiniteSubsetsOfFinite
<1>3. T \subseteq SUBSET S /\ T # {}
  <2>1. \A n \in A : 0 .. n \in SUBSET (0 .. N) OBVIOUS
  <2> QED BY <2>1
<1> HIDE DEF T, R
<1>4. PICK X \in T : \A Y \in T : ~ (<<Y, X>> \in R) BY <1>2, <1>3, WFMin
<1> USE DEF T, R
<1>5. PICK x \in A : X = 0 .. x OBVIOUS
<1>6. ASSUME NEW y \in A, y < x PROVE FALSE
  <2>1. x \in X /\ x \notin 0 .. y /\ 0 .. y \subseteq X BY <1>5, <1>6
  <2>2. 0 .. y \in T /\ 0 .. y \subseteq X /\ 0 .. y # X BY <2>1
  <2>3. <<0 .. y, X>> \in R BY <2>2, <1>3, <1>4 DEF StrictSubsetOrdering
  <2> QED BY <1>4, <2>2, <2>3
<1> QED BY <1>6

\* A set of numbers has a least.
LEMMA Least ==
  ASSUME NEW T, T \subseteq Nat, T # {} PROVE \E x \in T : \A y \in T : ~(y < x)
<1>1. PICK N \in T : TRUE OBVIOUS
<1>2. T \cap 0 .. N \subseteq 0 .. N /\ T \cap 0 .. N # {} BY <1>1
<1>3. PICK x \in T \cap 0 .. N : \A y \in T \cap 0 .. N : ~(y < x) BY <1>1, <1>2, LeastBelow
<1> QED BY <1>1, <1>3

\* Induction, for a set.
LEMMA Counting ==
  ASSUME NEW S, 0 \in S, \A n \in Nat : n \in S => n + 1 \in S
  PROVE Nat \subseteq S
<1>1. SUFFICES ASSUME Nat \ S # {} PROVE FALSE OBVIOUS
<1>2. PICK x \in Nat \ S : \A y \in Nat \ S : ~(y < x) BY <1>1, Least
<1>3. x # 0 /\ x \in Nat BY <1>2
<1>4. x - 1 \in Nat /\ x - 1 < x /\ (x - 1) + 1 = x BY <1>3
<1>5. x - 1 \in S BY <1>2, <1>4
<1>6. x \in S BY <1>4, <1>5
<1> QED BY <1>2, <1>6

-----------------------------------------------------------------------------
(* Chains.                                                                 *)

\* A walk of N steps.
IsWalk(walk, N, links, start) ==
  walk = [n \in 0 .. N |-> IF n = 0 THEN start
                           ELSE IF walk[n - 1] \in Clusters THEN links[walk[n - 1]] ELSE walk[n - 1]]

\* A walk of any length exists, longer ones by one more step.
LEMMA WalkExists ==
  ASSUME NEW links, NEW start
  PROVE  \A N \in Nat : \E walk : IsWalk(walk, N, links, start)
<1> DEFINE S == {N \in Nat : \E walk : IsWalk(walk, N, links, start)}
<1>1. 0 \in S
  <2> DEFINE f == [n \in 0 .. 0 |-> start]
  <2>1. \A n \in 0 .. 0 : n = 0 OBVIOUS
  <2>2. f = [n \in 0 .. 0 |-> IF n = 0 THEN start
                              ELSE IF f[n - 1] \in Clusters THEN links[f[n - 1]] ELSE f[n - 1]]
    BY <2>1
  <2>3. IsWalk(f, 0, links, start) BY <2>2 DEF IsWalk
  <2> QED BY <2>3
<1>2. ASSUME NEW N \in Nat, N \in S PROVE N + 1 \in S
  <2>1. PICK walk : IsWalk(walk, N, links, start) BY <1>2
  <2> DEFINE after == IF walk[N] \in Clusters THEN links[walk[N]] ELSE walk[N]
             f == [n \in 0 .. N + 1 |-> IF n <= N THEN walk[n] ELSE after]
  <2>2. ASSUME NEW n \in 0 .. N + 1
        PROVE f[n] = IF n = 0 THEN start ELSE IF f[n - 1] \in Clusters THEN links[f[n - 1]] ELSE f[n - 1]
    <3>1. CASE n <= N
      <4>1. n \in 0 .. N /\ f[n] = walk[n] BY <3>1
      <4>2. walk[n] = IF n = 0 THEN start
                      ELSE IF walk[n - 1] \in Clusters THEN links[walk[n - 1]] ELSE walk[n - 1]
        BY <4>1, <2>1 DEF IsWalk
      <4>3. CASE n = 0 BY <4>1, <4>2, <4>3
      <4>4. CASE n # 0
        <5>1. n - 1 \in 0 .. N /\ n - 1 \in 0 .. N + 1 /\ n - 1 <= N BY <4>1, <4>4
        <5>2. f[n - 1] = walk[n - 1] BY <5>1
        <5> HIDE DEF f
        <5> QED BY <4>1, <4>2, <4>4, <5>2
      <4> QED BY <4>3, <4>4
    <3>2. CASE ~(n <= N)
      <4>1. n = N + 1 /\ n - 1 = N /\ N \in 0 .. N + 1 /\ n # 0 BY <3>2
      <4>2. f[n] = after /\ f[N] = walk[N] BY <4>1
      <4> HIDE DEF f
      <4> QED BY <4>1, <4>2
    <3> QED BY <3>1, <3>2
  <2>3. f = [n \in 0 .. N + 1 |-> f[n]] OBVIOUS
  <2> HIDE DEF f
  <2>4. IsWalk(f, N + 1, links, start) BY <2>2, <2>3 DEF IsWalk
  <2> QED BY <2>4
<1> HIDE DEF S
<1>3. Nat \subseteq S BY <1>1, <1>2, Counting
<1> QED BY <1>3 DEF S

\* The clusters are numbered from 2.
LEMMA ClusterCount ==
  /\ IsFiniteSet(Clusters) /\ Cardinality(Clusters) \in Nat
  /\ Clusters = 2 .. Cardinality(Clusters) + 1
BY FatAssumption, FS_CardinalityType

\* Follow goes along a walk.
LEMMA WalkIs ==
  ASSUME NEW links, NEW start
  PROVE  IsWalk(Walk(links, start), Cardinality(Clusters), links, start)
<1>1. \E walk : IsWalk(walk, Cardinality(Clusters), links, start) BY ClusterCount, WalkExists
<1> HIDE DEF IsWalk
<1>2. IsWalk(CHOOSE walk : IsWalk(walk, Cardinality(Clusters), links, start),
             Cardinality(Clusters), links, start) BY <1>1, Zenon
<1>3. Walk(links, start) = CHOOSE walk : IsWalk(walk, Cardinality(Clusters), links, start)
  BY DEF Walk, IsWalk
<1> QED BY <1>2, <1>3
\* A walk follows the links from its start.
LEMMA WalkAt ==
  ASSUME NEW links, NEW start
  PROVE  LET walk == Walk(links, start) IN
         /\ walk[0] = start
         /\ \A n \in 1 .. Cardinality(Clusters) :
              walk[n] = IF walk[n - 1] \in Clusters THEN links[walk[n - 1]] ELSE walk[n - 1]
<1> DEFINE walk == Walk(links, start)
           N == Cardinality(Clusters)
<1>1. IsWalk(walk, N, links, start) BY WalkIs
<1>2. N \in Nat BY ClusterCount
<1> HIDE DEF walk, N
<1>3. walk[0] = start BY <1>1, <1>2 DEF IsWalk
<1>4. ASSUME NEW n \in 1 .. N
      PROVE  walk[n] = IF walk[n - 1] \in Clusters THEN links[walk[n - 1]] ELSE walk[n - 1]
  <2>1. n \in 0 .. N /\ n # 0 BY <1>2
  <2> QED BY <2>1, <1>1 DEF IsWalk
<1> USE DEF walk, N
<1> QED BY <1>3, <1>4

\* A walk stops before it has more steps than there are clusters.
LEMMA WalkStops ==
  ASSUME NEW walk
  PROVE  \E n \in 0 .. Cardinality(Clusters) : Stops(walk, n)
<1> DEFINE N == Cardinality(Clusters)
           f == [n \in 0 .. N |-> walk[n]]
<1>1. SUFFICES ASSUME \A n \in 0 .. N : ~Stops(walk, n) PROVE FALSE OBVIOUS
<1>2. N \in Nat BY ClusterCount
<1>3. f \in [0 .. N -> Clusters] BY <1>1 DEF Stops
<1>4. IsFiniteSet(0 .. N) /\ Cardinality(0 .. N) = N + 1 BY <1>2, FS_Interval
<1>5. N < N + 1 BY <1>2
<1> HIDE DEF f
<1>6. PICK x \in 0 .. N, y \in 0 .. N : x # y /\ f[x] = f[y]
  BY <1>3, <1>4, <1>5, ClusterCount, FS_PigeonHole
<1>7. walk[x] = walk[y] BY <1>6 DEF f
<1>8. CASE x < y
  <2>1. x \in 0 .. y - 1 BY <1>2, <1>8
  <2> QED BY <1>1, <1>7, <2>1 DEF Stops
<1>9. CASE y < x
  <2>1. y \in 0 .. x - 1 BY <1>2, <1>9
  <2> QED BY <1>1, <1>7, <2>1 DEF Stops
<1> QED BY <1>2, <1>6, <1>8, <1>9

\* A walk stops within as many steps as there are clusters.
LEMMA StopIs ==
  ASSUME NEW walk
  PROVE  /\ StopOf(walk) \in 0 .. Cardinality(Clusters)
         /\ Stops(walk, StopOf(walk))
         /\ \A m \in 0 .. StopOf(walk) - 1 : ~Stops(walk, m)
<1> DEFINE N == Cardinality(Clusters)
           A == {n \in 0 .. N : Stops(walk, n)}
<1>1. N \in Nat BY ClusterCount
<1>2. A \subseteq 0 .. N /\ A # {} BY WalkStops
<1>3. PICK n \in A : \A m \in A : ~(m < n) BY <1>1, <1>2, LeastBelow
<1>4. ASSUME NEW m \in 0 .. n - 1 PROVE ~Stops(walk, m)
  <2>1. m \in 0 .. N /\ m < n BY <1>1, <1>3, <1>4
  <2> QED BY <1>3, <2>1
<1>5. n \in 0 .. N /\ Stops(walk, n) BY <1>3
<1> HIDE DEF A
<1>6. \E k \in 0 .. N : Stops(walk, k) /\ \A m \in 0 .. k - 1 : ~Stops(walk, m)
  BY <1>4, <1>5
<1> QED BY <1>6 DEF StopOf

\* What Follow returns: different clusters, each linked to the next; without an
\* error the last one ends the chain.
IsChain(chain, links, start) ==
  LET clusters == chain.clusters IN
  /\ clusters \in Seq(Clusters)
  /\ \A i, j \in DOMAIN clusters : clusters[i] = clusters[j] => i = j
  /\ clusters # <<>> => clusters[1] = start
  /\ \A i \in DOMAIN clusters : i # 1 => i - 1 \in DOMAIN clusters /\ links[clusters[i - 1]] = clusters[i]
  /\ chain.error = "none" => /\ clusters # <<>>
                             /\ links[clusters[Len(clusters)]] = End

\* What following links gives.
LEMMA FollowIs ==
  ASSUME NEW links, NEW start
  PROVE  IsChain(Follow(links, start), links, start)
<1> DEFINE N == Cardinality(Clusters)
           walk == Walk(links, start)
           length == StopOf(walk)
           chain == Follow(links, start)
           clusters == [i \in 1 .. length |-> walk[i - 1]]
<1>1. N \in Nat /\ Clusters = 2 .. N + 1 BY ClusterCount
<1>2. length \in 0 .. N /\ \A m \in 0 .. length - 1 : ~Stops(walk, m) BY StopIs
<1>3. length \in Nat BY <1>1, <1>2
<1>4. chain.clusters = clusters BY DEF Follow
<1>5. chain.error = "none" => length > 0 /\ walk[length] = End BY DEF Follow
<1>6. walk[0] = start /\ \A n \in 1 .. N :
        walk[n] = IF walk[n - 1] \in Clusters THEN links[walk[n - 1]] ELSE walk[n - 1]
  BY WalkAt
<1> HIDE DEF walk, length, chain
<1>7. ASSUME NEW i \in 1 .. length PROVE walk[i - 1] \in Clusters /\ \A m \in 0 .. i - 2 : walk[m] # walk[i - 1]
  <2>1. i - 1 \in 0 .. length - 1 /\ (i - 1) - 1 = i - 2 BY <1>3
  <2>2. ~Stops(walk, i - 1) BY <1>2, <2>1
  <2> QED BY <2>1, <2>2 DEF Stops
<1>8. clusters \in Seq(Clusters) /\ Len(clusters) = length /\ DOMAIN clusters = 1 .. length
  BY <1>3, <1>7
<1>9. ASSUME NEW i \in 1 .. length, NEW j \in 1 .. length, clusters[i] = clusters[j] PROVE i = j
  <2>1. walk[i - 1] = walk[j - 1] BY <1>9
  <2>2. ~(i < j)
    <3>1. i < j => i - 1 \in 0 .. j - 2 BY <1>3
    <3> QED BY <2>1, <3>1, <1>7
  <2>3. ~(j < i)
    <3>1. j < i => j - 1 \in 0 .. i - 2 BY <1>3
    <3> QED BY <2>1, <3>1, <1>7
  <2> QED BY <2>2, <2>3, <1>3
<1>10. length > 0 => clusters[1] = start BY <1>3, <1>6
<1>11. ASSUME NEW i \in 1 .. length, i # 1
       PROVE  i - 1 \in 1 .. length /\ links[clusters[i - 1]] = clusters[i]
  <2>1. i - 1 \in 1 .. length /\ i - 1 \in 1 .. N BY <1>1, <1>2, <1>3, <1>11
  <2>2. walk[i - 1] = IF walk[(i - 1) - 1] \in Clusters THEN links[walk[(i - 1) - 1]] ELSE walk[(i - 1) - 1]
    BY <1>6, <2>1
  <2>3. walk[(i - 1) - 1] \in Clusters BY <1>7, <2>1
  <2>4. clusters[i - 1] = walk[(i - 1) - 1] /\ clusters[i] = walk[i - 1] BY <2>1
  <2> HIDE DEF clusters
  <2> QED BY <2>1, <2>2, <2>3, <2>4
<1>12. ASSUME length > 0, walk[length] = End
       PROVE  clusters # <<>> /\ links[clusters[length]] = End
  <2>1. length \in 1 .. N /\ length \in 1 .. length BY <1>1, <1>2, <1>12
  <2>2. walk[length - 1] \in Clusters BY <1>7, <2>1
  <2>3. walk[length] = links[walk[length - 1]] BY <1>6, <2>1, <2>2
  <2>4. clusters[length] = walk[length - 1] BY <2>1
  <2>5. clusters # <<>>
    <3> HIDE DEF clusters
    <3> QED BY <1>3, <1>8, <1>12
  <2> QED BY <1>12, <2>3, <2>4, <2>5
<1>13. clusters # <<>> => length > 0 BY <1>3, <1>8
<1> HIDE DEF clusters
<1>14. clusters # <<>> => clusters[1] = start BY <1>10, <1>13
<1>15. \A i, j \in DOMAIN clusters : clusters[i] = clusters[j] => i = j BY <1>8, <1>9
<1>16. \A i \in DOMAIN clusters :
         i # 1 => i - 1 \in DOMAIN clusters /\ links[clusters[i - 1]] = clusters[i]
  BY <1>8, <1>11
<1>17. chain.error = "none" => clusters # <<>> /\ links[clusters[Len(clusters)]] = End
  BY <1>5, <1>8, <1>12
<1>18. IsChain(chain, links, start) BY <1>4, <1>8, <1>14, <1>15, <1>16, <1>17 DEF IsChain
<1> QED BY <1>18 DEF chain
-----------------------------------------------------------------------------
(* Unclaimed chains and deleted files.                                     *)

\* A chain of this floppy is what Follow says.
LEMMA ChainIs == \A h : IsChain(Chain(h), Links, h)
BY FollowIs DEF Chain

\* Where at most one cluster leads, there is one predecessor.
LEMMA Predecessors ==
  ASSUME NEW c, Cardinality(Incoming(c)) <= 1, NEW a \in Incoming(c), NEW b \in Incoming(c)
  PROVE  a = b
<1>1. SUFFICES ASSUME a # b PROVE FALSE OBVIOUS
<1>2. IsFiniteSet(Incoming(c)) BY ClusterCount, FS_Subset DEF Incoming
<1>3. {a, b} \in SUBSET Incoming(c) OBVIOUS
<1>4. Cardinality({a}) = 1 /\ IsFiniteSet({a}) BY FS_Singleton
<1>5. Cardinality({a} \cup {b}) = 2 BY <1>1, <1>4, FS_AddElement
<1>6. {a} \cup {b} = {a, b} OBVIOUS
<1>7. 2 <= Cardinality(Incoming(c)) BY <1>2, <1>3, <1>5, <1>6, FS_Subset
<1> QED BY <1>2, <1>7, FS_CardinalityType

\* A head of an unclaimed chain is not linked to, and no cluster of its chain twice.
LEMMA UnclaimedIs ==
  ASSUME NEW h \in Unclaimed
  PROVE  LET clusters == Chain(h).clusters IN
         /\ clusters \in Seq(Clusters) /\ clusters # <<>>
         /\ Incoming(h) = {} /\ clusters[1] = h
         /\ ToSet(clusters) \cap (Owned \cup excluded) = {}
         /\ \A i \in DOMAIN clusters :
              /\ Cardinality(Incoming(clusters[i])) <= 1
              /\ i # 1 => i - 1 \in DOMAIN clusters /\ clusters[i - 1] \in Incoming(clusters[i])
              /\ Link(clusters[i]) # Free
<1> DEFINE clusters == Chain(h).clusters
<1>1. /\ Incoming(h) = {} /\ Chain(h).error = "none"
      /\ ToSet(clusters) \cap (Owned \cup excluded) = {}
      /\ \A i \in DOMAIN clusters : Cardinality(Incoming(clusters[i])) <= 1
  BY DEF Unclaimed
<1>2. /\ clusters \in Seq(Clusters) /\ clusters # <<>> /\ clusters[1] = h
      /\ \A i \in DOMAIN clusters :
           i # 1 => i - 1 \in DOMAIN clusters /\ Links[clusters[i - 1]] = clusters[i]
      /\ Links[clusters[Len(clusters)]] = End
  BY <1>1, ChainIs DEF IsChain
<1> HIDE DEF clusters
<1>3. \A i \in DOMAIN clusters : clusters[i] \in Clusters BY <1>2
<1>4. ASSUME NEW i \in DOMAIN clusters, i # 1
      PROVE  i - 1 \in DOMAIN clusters /\ clusters[i - 1] \in Incoming(clusters[i])
  BY <1>2, <1>3, <1>4 DEF Links, Incoming
<1>5. ASSUME NEW i \in DOMAIN clusters PROVE Link(clusters[i]) # Free
  <2>1. CASE i = Len(clusters)
    BY <1>2, <1>3, <2>1 DEF Links, Free, End
  <2>2. CASE i # Len(clusters)
    <3>1. i + 1 \in DOMAIN clusters /\ i + 1 # 1 /\ (i + 1) - 1 = i BY <1>2, <2>2
    <3>2. Links[clusters[i]] = clusters[i + 1] /\ clusters[i + 1] \in Clusters BY <1>2, <1>3, <3>1
    <3>3. Link(clusters[i]) \in Clusters BY <1>3, <3>2 DEF Links
    <3> QED BY <3>3, ClusterCount DEF Free
  <2> QED BY <2>1, <2>2
<1> USE DEF clusters
<1> QED BY <1>1, <1>2, <1>4, <1>5

\* Two unclaimed chains that met would have met at a head already.
LEMMA UnclaimedApart ==
  ASSUME NEW g \in Unclaimed, NEW h \in Unclaimed, g # h
  PROVE  ToSet(Chain(g).clusters) \cap ToSet(Chain(h).clusters) = {}
<1> DEFINE G == Chain(g).clusters
           H == Chain(h).clusters
           Met == {i \in DOMAIN G : \E j \in DOMAIN H : G[i] = H[j]}
<1>1. /\ G \in Seq(Clusters) /\ Incoming(g) = {} /\ G[1] = g
      /\ \A i \in DOMAIN G :
           /\ Cardinality(Incoming(G[i])) <= 1
           /\ i # 1 => i - 1 \in DOMAIN G /\ G[i - 1] \in Incoming(G[i])
  BY UnclaimedIs
<1>2. /\ H \in Seq(Clusters) /\ Incoming(h) = {} /\ H[1] = h
      /\ \A j \in DOMAIN H : j # 1 => j - 1 \in DOMAIN H /\ H[j - 1] \in Incoming(H[j])
  BY UnclaimedIs
<1> HIDE DEF G, H
<1>3. SUFFICES ASSUME Met # {} PROVE FALSE
  <2>1. ToSet(G) \cap ToSet(H) # {} => Met # {} BY <1>1, <1>2 DEF ToSet
  <2> QED BY <2>1 DEF G, H
<1>4. Met \subseteq Nat BY <1>1
<1>5. PICK i \in Met : \A k \in Met : ~(k < i) BY <1>3, <1>4, Least
<1>6. PICK j \in DOMAIN H : G[i] = H[j] BY <1>5
<1>7. i \in DOMAIN G BY <1>5
<1>8. i # 1 BY <1>1, <1>2, <1>6
<1>9. j # 1 BY <1>1, <1>2, <1>6, <1>7, <1>8
<1>10. G[i - 1] = H[j - 1] BY <1>1, <1>2, <1>6, <1>7, <1>8, <1>9, Predecessors
<1>11. i - 1 \in DOMAIN G /\ j - 1 \in DOMAIN H /\ i \in Nat /\ i - 1 < i
  BY <1>1, <1>2, <1>4, <1>6, <1>7, <1>8, <1>9
<1>12. i - 1 \in Met BY <1>10, <1>11
<1> QED BY <1>5, <1>11, <1>12

\* Each deleted entry has had the clusters of its chain set apart.
DeletedExcluded == \A d \in deleted : ToSet(Chain(Entry(d.entry).start).clusters) \subseteq excluded

\* An undeleted file has nothing in common with an unclaimed chain.
LEMMA UndeletedApart ==
  ASSUME DeletedExcluded, NEW d \in Undeleted, NEW h \in Unclaimed
  PROVE  ToSet(Extent(d)) \cap ToSet(Chain(h).clusters) = {}
<1> DEFINE H == Chain(h).clusters
<1>1. d \in deleted /\ Survives(d) BY DEF Undeleted, Undeletable
<1>2. ToSet(H) \cap excluded = {} /\ \A i \in DOMAIN H : Link(H[i]) # Free
  BY UnclaimedIs
<1>3. CASE IsFree(d)
  <2>1. \A i \in DOMAIN Extent(d) : Link(Extent(d)[i]) = Free BY <1>1, <1>3 DEF Survives
  <2> HIDE DEF H
  <2>2. ToSet(Extent(d)) \cap ToSet(H) = {} BY <1>2, <2>1 DEF ToSet
  <2> QED BY <2>2 DEF H
<1>4. CASE ~IsFree(d)
  <2>1. Extent(d) = Chain(Entry(d.entry).start).clusters BY <1>4 DEF Extent
  <2> QED BY <1>1, <1>2, <2>1 DEF DeletedExcluded
<1> QED BY <1>3, <1>4

\* No deleted file is given what another has.
LEMMA ForensicApart == DeletedExcluded => ForensicOnce
<1> SUFFICES ASSUME DeletedExcluded PROVE ForensicOnce OBVIOUS
<1>1. ASSUME NEW d \in Undeleted, NEW e \in Undeleted, d # e
      PROVE  ToSet(Extent(d)) \cap ToSet(Extent(e)) = {}
  BY <1>1 DEF Undeleted, Undeletable
<1> QED BY <1>1, UnclaimedApart, UndeletedApart DEF ForensicOnce
\* The copies of a link that can be read agree with a FAT whose copies agree.
LEMMA LinkIs ==
  ASSUME image.fat[1] = image.fat[2], NEW c \in Clusters
  PROVE  Link(c) \in {image.fat[1][c], Unreadable}
<1> DEFINE K == {k \in Copies : FatSectors(k, c) \cap bad = {}}
           values == {image.fat[k][c] : k \in K}
<1>1. values \subseteq {image.fat[1][c]} BY DEF Copies
<1>2. Link(c) = CASE values = {} -> Unreadable
                  [] Cardinality(values) > 1 -> Disputed
                  [] OTHER -> CHOOSE v \in values : TRUE
  BY DEF Link
<1> HIDE DEF values
<1>3. CASE values = {} BY <1>2, <1>3, FS_EmptySet
<1>4. CASE values # {}
  <2>1. values = {image.fat[1][c]} BY <1>1, <1>4
  <2>2. Cardinality(values) = 1 BY <2>1, FS_Singleton
  <2>3. Link(c) = CHOOSE v \in values : TRUE BY <1>2, <1>4, <2>2
  <2>4. (CHOOSE v \in values : TRUE) \in values BY <1>4
  <2> QED BY <2>1, <2>3, <2>4
<1> QED BY <1>3, <1>4

\* Two walks that stop for the same reason, and whose links agree on the way of
\* the first, are the same way.
LEMMA SameWay ==
  ASSUME NEW links, NEW other, NEW start,
         \A n \in 0 .. StopOf(Walk(links, start)) - 1 :
            Walk(links, start)[n] \in Clusters =>
              other[Walk(links, start)[n]] = links[Walk(links, start)[n]]
  PROVE  Follow(other, start) = Follow(links, start)
<1> DEFINE N == Cardinality(Clusters)
           walk == Walk(links, start)
           way == Walk(other, start)
           length == StopOf(walk)
<1>1. N \in Nat BY ClusterCount
<1>2. /\ length \in 0 .. N /\ Stops(walk, length)
      /\ \A m \in 0 .. length - 1 : ~Stops(walk, m)
  BY StopIs
<1>3. /\ walk[0] = start
      /\ \A n \in 1 .. N :
           walk[n] = IF walk[n - 1] \in Clusters THEN links[walk[n - 1]] ELSE walk[n - 1]
  BY WalkAt
<1>4. /\ way[0] = start
      /\ \A n \in 1 .. N :
           way[n] = IF way[n - 1] \in Clusters THEN other[way[n - 1]] ELSE way[n - 1]
  BY WalkAt
<1>5. \A n \in 0 .. length - 1 : walk[n] \in Clusters => other[walk[n]] = links[walk[n]]
  OBVIOUS
<1>6. StopOf(way) \in 0 .. N /\ Stops(way, StopOf(way)) /\ \A m \in 0 .. StopOf(way) - 1 : ~Stops(way, m)
  BY StopIs
<1> DEFINE S == {n \in Nat : n <= length => way[n] = walk[n]}
<1> HIDE DEF walk, way, length
<1>7. 0 \in S BY <1>3, <1>4
<1>8. ASSUME NEW n \in Nat, n \in S PROVE n + 1 \in S
  <2>1. SUFFICES ASSUME n + 1 <= length PROVE way[n + 1] = walk[n + 1] OBVIOUS
  <2>2. n + 1 \in 1 .. N /\ (n + 1) - 1 = n /\ n \in 0 .. length - 1 BY <1>1, <1>2, <2>1
  <2>3. way[n] = walk[n] BY <1>1, <1>2, <1>8, <2>1
  <2>4. way[n + 1] = IF way[n] \in Clusters THEN other[way[n]] ELSE way[n] BY <1>4, <2>2
  <2>5. walk[n + 1] = IF walk[n] \in Clusters THEN links[walk[n]] ELSE walk[n] BY <1>3, <2>2
  <2>6. walk[n] \in Clusters => other[walk[n]] = links[walk[n]] BY <1>5, <2>2
  <2> QED BY <2>3, <2>4, <2>5, <2>6
<1> HIDE DEF S
<1>9. Nat \subseteq S BY <1>7, <1>8, Counting
<1>10. \A n \in 0 .. length : way[n] = walk[n] BY <1>1, <1>2, <1>9 DEF S
<1>11. \A n \in 0 .. length : Stops(way, n) <=> Stops(walk, n)
  <2>1. ASSUME NEW n \in 0 .. length PROVE Stops(way, n) <=> Stops(walk, n)
    <3>1. \A m \in 0 .. n - 1 : m \in 0 .. length BY <1>1, <1>2
    <3> QED BY <1>10, <3>1 DEF Stops
  <2> QED BY <2>1
<1>12. StopOf(way) = length
  <2>1. Stops(way, length) BY <1>1, <1>2, <1>11
  <2>2. \A m \in 0 .. length - 1 : ~Stops(way, m) BY <1>1, <1>2, <1>11
  <2>3. ~(length < StopOf(way)) BY <1>1, <1>2, <1>6, <2>1
  <2>4. ~(StopOf(way) < length) BY <1>1, <1>2, <1>6, <2>2
  <2> QED BY <1>1, <1>2, <1>6, <2>3, <2>4
<1>13. way[length] = walk[length] BY <1>1, <1>2, <1>10
<1>14. [i \in 1 .. length |-> way[i - 1]] = [i \in 1 .. length |-> walk[i - 1]]
  <2>1. \A i \in 1 .. length : i - 1 \in 0 .. length BY <1>1, <1>2
  <2> QED BY <1>10, <2>1
<1>15. Follow(other, start) = [clusters |-> [i \in 1 .. length |-> way[i - 1]],
        error |-> CASE length > 0 /\ way[length] = End -> "none"
                    [] length > 0 /\ way[length] = Unreadable -> "unreadable"
                    [] length > 0 /\ way[length] = Disputed -> "disputed"
                    [] OTHER -> "invalid"]
  BY <1>12 DEF Follow, way
<1>16. Follow(links, start) = [clusters |-> [i \in 1 .. length |-> walk[i - 1]],
        error |-> CASE length > 0 /\ walk[length] = End -> "none"
                    [] length > 0 /\ walk[length] = Unreadable -> "unreadable"
                    [] length > 0 /\ walk[length] = Disputed -> "disputed"
                    [] OTHER -> "invalid"]
  BY DEF Follow, walk, length
<1> QED BY <1>13, <1>14, <1>15, <1>16

\* A chain that could be read to its end is the one that was written.
LEMMA ReadAsWritten ==
  ASSUME image.fat[1] = image.fat[2], NEW start, Chain(start).error = "none"
  PROVE  Written(start) = Chain(start)
<1> DEFINE walk == Walk(Links, start)
           length == StopOf(walk)
           clusters == Chain(start).clusters
<1>1. IsChain(Chain(start), Links, start) BY ChainIs
<1>2. clusters = [i \in 1 .. length |-> walk[i - 1]] BY DEF Chain, Follow
<1>3. length \in Nat BY StopIs, ClusterCount
<1>4. \A n \in 0 .. length - 1 : n + 1 \in 1 .. length /\ clusters[n + 1] = walk[n]
  BY <1>2, <1>3
<1>5. DOMAIN clusters = 1 .. length BY <1>2
<1> HIDE DEF walk, length
<1>6. ASSUME NEW n \in 0 .. length - 1, walk[n] \in Clusters
      PROVE  image.fat[1][walk[n]] = Links[walk[n]]
  <2>1. n + 1 \in DOMAIN clusters /\ clusters[n + 1] = walk[n] BY <1>4, <1>5
  <2>2. Links[walk[n]] \in Clusters \cup {End}
    <3>1. CASE n + 1 = Len(clusters) BY <1>1, <2>1, <3>1 DEF IsChain
    <3>2. CASE n + 1 # Len(clusters)
      <4>1. clusters \in Seq(Clusters) BY <1>1 DEF IsChain
      <4> HIDE DEF clusters
      <4>2. n + 2 \in DOMAIN clusters /\ n + 2 # 1 /\ (n + 2) - 1 = n + 1
        BY <1>3, <2>1, <3>2, <4>1
      <4>3. Links[clusters[n + 1]] = clusters[n + 2] BY <1>1, <4>2 DEF IsChain, clusters
      <4> QED BY <2>1, <4>1, <4>2, <4>3
    <3> QED BY <3>1, <3>2
  <2>3. Links[walk[n]] = Link(walk[n]) BY <1>6 DEF Links
  <2>4. Unreadable \notin Clusters \cup {End} BY ClusterCount DEF Unreadable, End
  <2> QED BY <1>6, <2>2, <2>3, <2>4, LinkIs
<1>7. \A n \in 0 .. length - 1 : walk[n] \in Clusters => image.fat[1][walk[n]] = Links[walk[n]]
  BY <1>6
<1> USE DEF walk, length
<1>8. Follow(image.fat[1], start) = Follow(Links, start) BY <1>7, SameWay
<1> QED BY <1>8 DEF Written, Chain

\* A file that was found is what its entry and its links say.
FoundAsRead ==
  \A f \in found : LET e == Entry(f.claim[2]) IN
    f.clusters = FileChain(e).clusters /\ f.issue = Issue(e, FileChain(e))

\* If the copies of the FAT agree, what is recovered was read, and lies where
\* the floppy had it.
AsWritten ==
  image.fat[1] = image.fat[2] =>
    \A f \in Recovered : LET e == Entry(f.claim[2]) IN
      AllReadable(f.clusters) /\ f.clusters = IF e.start = 0 THEN <<>> ELSE Written(e.start).clusters

\* A file found is as the floppy had it.
LEMMA FoundIsTrue == FoundAsRead => AsWritten
<1> SUFFICES ASSUME FoundAsRead, image.fat[1] = image.fat[2], NEW f \in Recovered
             PROVE  LET e == Entry(f.claim[2]) IN
                    /\ AllReadable(f.clusters)
                    /\ f.clusters = IF e.start = 0 THEN <<>> ELSE Written(e.start).clusters
  BY DEF AsWritten
<1> DEFINE e == Entry(f.claim[2])
           chain == FileChain(e)
<1>1. f \in found /\ f.issue = "none" BY DEF Recovered, Verdict
<1>2. f.clusters = chain.clusters /\ Issue(e, chain) = "none" BY <1>1 DEF FoundAsRead
<1> HIDE DEF e
<1>3. chain.error = "none" /\ AllReadable(chain.clusters) BY <1>2 DEF Issue
<1> DEFINE Goal == AllReadable(f.clusters) /\ f.clusters = IF e.start = 0 THEN <<>> ELSE Written(e.start).clusters
<1>4. ASSUME e.size = 0 /\ e.start = 0 PROVE Goal
  BY <1>2, <1>3, <1>4 DEF FileChain, NoChain
<1>5. ASSUME ~(e.size = 0 /\ e.start = 0) PROVE Goal
  <2>1. chain = Chain(e.start) BY <1>5 DEF FileChain
  <2> HIDE DEF chain
  <2>2. Written(e.start) = chain BY <1>3, <2>1, ReadAsWritten
  <2>3. e.start # 0
    <3>1. IsChain(chain, Links, e.start) BY <2>1, ChainIs
    <3>2. chain.clusters[1] = e.start /\ chain.clusters # <<>> /\ chain.clusters \in Seq(Clusters)
      BY <1>3, <3>1 DEF IsChain
    <3>3. e.start \in Clusters BY <3>2
    <3> QED BY <3>3, ClusterCount
  <2> QED BY <1>2, <1>3, <2>2, <2>3
<1>6. Goal BY <1>4, <1>5
<1> QED BY <1>6 DEF e

\* What the scan has learned is so.
LearntInv == DeletedExcluded /\ FoundAsRead

\* That stays so as long as nothing more is learnt.
LEMMA LearntGrows ==
  ASSUME LearntInv, UNCHANGED saved, UNCHANGED <<found, deleted, excluded>>
  PROVE  LearntInv'
<1>1. \A s : Chain(s)' = Chain(s) BY DEF Chain, Links, Link, saved, FatSectors
<1>2. \A e : Entry(e)' = Entry(e) BY DEF Entry, saved
<1>3. \A e, chain : Issue(e, chain)' = Issue(e, chain) BY DEF Issue, AllReadable, saved
<1>4. \A e : FileChain(e)' = FileChain(e) BY <1>1 DEF FileChain
<1> QED BY <1>1, <1>2, <1>3, <1>4 DEF LearntInv, DeletedExcluded, FoundAsRead

\* No step of a traversal drops a claim, and a file is found with its claims.
LEMMA ScanRecords == ASSUME ClaimsRecorded, Scan PROVE ClaimsRecorded'
<1> DEFINE Grows == found' = found /\ owners \subseteq owners'
<1>1. Grows => ClaimsRecorded' BY DEF ClaimsRecorded
<1>2. CASE FileEntry
  <2> DEFINE chain == FileChain(Entry(Here))
             new == [claim |-> Claim, size |-> Entry(Here).size, clusters |-> chain.clusters,
                     issue |-> Issue(Entry(Here), chain), ancestors |-> Dir.ancestors,
                     keys |-> Dir.keys \cup Keys]
  <2>1. found' = found \cup {new} BY <1>2 DEF FileEntry
  <2>2. owners' = owners \cup {<<c, Claim>> : c \in ToSet(chain.clusters)}
    BY <1>2 DEF FileEntry, TakeClusters
  <2>3. new.clusters = chain.clusters /\ new.claim = Claim OBVIOUS
  <2> HIDE DEF new, chain
  <2> QED BY <2>1, <2>2, <2>3 DEF ClaimsRecorded
<1>3. CASE Resolve BY <1>1, <1>3 DEF Resolve
<1>4. CASE LeaveDirectory BY <1>1, <1>4 DEF LeaveDirectory
<1>5. CASE Gap BY <1>1, <1>5 DEF Gap
<1>6. CASE Label BY <1>1, <1>6 DEF Label
<1>7. CASE LongName BY <1>1, <1>7 DEF LongName
<1>8. CASE DeletedEntry BY <1>1, <1>8 DEF DeletedEntry
<1>9. CASE OddEntry BY <1>1, <1>9 DEF OddEntry, TakeClusters
<1>10. CASE DirEntry BY <1>1, <1>10 DEF DirEntry, TakeClusters
<1>11. CASE Search BY <1>1, <1>11 DEF Search
<1>12. CASE Judge BY <1>1, <1>12 DEF Judge
<1> QED BY <1>2, <1>3, <1>4, <1>5, <1>6, <1>7, <1>8, <1>9, <1>10, <1>11, <1>12 DEF Scan

\* An entry's file and a deleted entry are added with what their chains say.
LEMMA ScanLearns == ASSUME LearntInv, Scan PROVE LearntInv'
<1>0. UNCHANGED saved
  BY DEF Scan, Resolve, LeaveDirectory, Gap, Label, LongName, DeletedEntry, OddEntry, FileEntry,
         DirEntry, Search, Judge
<1>1. \A s : Chain(s)' = Chain(s) BY <1>0 DEF Chain, Links, Link, saved, FatSectors
<1>2. \A e : Entry(e)' = Entry(e) BY <1>0 DEF Entry, saved
<1>3. \A e, chain : Issue(e, chain)' = Issue(e, chain) BY <1>0 DEF Issue, AllReadable, saved
<1>4. \A e : FileChain(e)' = FileChain(e) BY <1>1 DEF FileChain
<1>5. CASE FileEntry
  <2> DEFINE chain == FileChain(Entry(Here))
             new == [claim |-> Claim, size |-> Entry(Here).size, clusters |-> chain.clusters,
                     issue |-> Issue(Entry(Here), chain), ancestors |-> Dir.ancestors,
                     keys |-> Dir.keys \cup Keys]
  <2>1. found' = found \cup {new} /\ UNCHANGED <<deleted, excluded>> BY <1>5 DEF FileEntry
  <2>2. Entry(new.claim[2]) = Entry(Here) BY DEF Claim
  <2>3. new.clusters = FileChain(Entry(Here)).clusters
        /\ new.issue = Issue(Entry(Here), FileChain(Entry(Here)))
    OBVIOUS
  <2> HIDE DEF new, chain
  <2>4. ASSUME NEW f \in found'
        PROVE  /\ f.clusters = FileChain(Entry(f.claim[2])).clusters
               /\ f.issue = Issue(Entry(f.claim[2]), FileChain(Entry(f.claim[2])))
    BY <2>1, <2>2, <2>3 DEF LearntInv, FoundAsRead
  <2>5. FoundAsRead' BY <2>4, <1>2, <1>3, <1>4 DEF FoundAsRead
  <2>6. DeletedExcluded' BY <2>1, <1>1, <1>2 DEF LearntInv, DeletedExcluded
  <2> QED BY <2>5, <2>6 DEF LearntInv
<1>6. CASE DeletedEntry
  <2> DEFINE new == [entry |-> Here, ancestors |-> Dir.ancestors]
  <2>1. /\ deleted' = deleted \cup {new} /\ UNCHANGED found
        /\ excluded' = excluded \cup ToSet(Chain(Entry(Here).start).clusters)
    BY <1>6 DEF DeletedEntry
  <2>2. new.entry = Here OBVIOUS
  <2> HIDE DEF new
  <2>3. ASSUME NEW d \in deleted'
        PROVE  ToSet(Chain(Entry(d.entry).start).clusters) \subseteq excluded'
    BY <2>1, <2>2 DEF LearntInv, DeletedExcluded
  <2>4. DeletedExcluded' BY <2>3, <1>1, <1>2 DEF DeletedExcluded
  <2>5. FoundAsRead' BY <2>1, <1>2, <1>3, <1>4 DEF LearntInv, FoundAsRead
  <2> QED BY <2>4, <2>5 DEF LearntInv
<1>7. CASE Resolve BY <1>0, <1>7, LearntGrows DEF Resolve
<1>8. CASE LeaveDirectory BY <1>0, <1>8, LearntGrows DEF LeaveDirectory
<1>9. CASE Gap BY <1>0, <1>9, LearntGrows DEF Gap
<1>10. CASE Label BY <1>0, <1>10, LearntGrows DEF Label
<1>11. CASE LongName BY <1>0, <1>11, LearntGrows DEF LongName
<1>12. CASE OddEntry BY <1>0, <1>12, LearntGrows DEF OddEntry
<1>13. CASE DirEntry BY <1>0, <1>13, LearntGrows DEF DirEntry
<1>14. CASE Search BY <1>0, <1>14, LearntGrows DEF Search
<1>15. CASE Judge BY <1>0, <1>15, LearntGrows DEF Judge
<1> QED BY <1>5, <1>6, <1>7, <1>8, <1>9, <1>10, <1>11, <1>12, <1>13, <1>14, <1>15 DEF Scan

-----------------------------------------------------------------------------
(* Payloads.                                                               *)

\* A run scans only where nothing was published, and has 7-Zip make a directory
\* only where native recovery has published nothing.
NothingInTheWay ==
  /\ native = [k \in Kinds |-> native[k]]
  /\ at = "scan" => native[Kind] = {}
  /\ at = "extract" /\ folder.kind = "none" => native["live"] = {}

ExtractionInv == ClaimsRecorded /\ NothingInTheWay

\* Where 7-Zip is to make the directory, there is no generation.
LEMMA ExtractsFirst ==
  ASSUME Classify = "extract", folder.kind = "none"
  PROVE  native["live"] = {}
<1>1. Presence \notin {"manual", "native"} BY DEF Classify
<1>2. ~loose /\ ~NativePreferred BY <1>1 DEF Presence
<1>3. Extracted = {} BY DEF Extracted
<1>4. native["live"] # {} => Preferred # {}
  BY <1>3 DEF Preferred
<1> QED BY <1>2, <1>3, <1>4 DEF NativePreferred

\* Before the first run ...
LEMMA InitInv == Init => ExtractionInv
BY DEF Init, ScanInit, ExtractionInv, ClaimsRecorded, NothingInTheWay, Kinds

\* ... and after every step.
LEMMA StepInv == ExtractionInv /\ [Next]_vars => ExtractionInv'
<1> SUFFICES ASSUME ExtractionInv, [Next]_vars PROVE ExtractionInv' OBVIOUS
<1> USE DEF ExtractionInv
<1>1. UNCHANGED scan => ClaimsRecorded' BY DEF scan, ClaimsRecorded
<1>2. Rescan => ClaimsRecorded' BY DEF Rescan, ClaimsRecorded
<1>3. ASSUME NEW m \in Modes, Start(m) PROVE ExtractionInv'
  <2>1. ClaimsRecorded' BY <1>2, <1>3 DEF Start
  <2>2. UNCHANGED <<folder, native, loose, log>> BY <1>3 DEF Start, disk
  <2>3. at' # "scan" BY <1>3 DEF Start, Classify
  <2>4. at' = "extract" => Classify = "extract" BY <1>3 DEF Start, Classify
  <2> QED BY <2>1, <2>2, <2>3, <2>4, ExtractsFirst DEF NothingInTheWay
<1>4. CASE Extract
  <2>1. ClaimsRecorded' BY <1>1, <1>4 DEF Extract
  <2>2. at' \notin {"scan", "extract"} /\ UNCHANGED native BY <1>4 DEF Extract, GoTo, Finish
  <2> QED BY <2>1, <2>2 DEF NothingInTheWay
<1>5. CASE Backup
  <2>1. ClaimsRecorded' BY <1>1, <1>5 DEF Backup
  <2>2. at' \notin {"scan", "extract"} /\ UNCHANGED native BY <1>5 DEF Backup, GoTo, Finish
  <2> QED BY <2>1, <2>2 DEF NothingInTheWay
<1>6. CASE Check
  <2>1. ClaimsRecorded' BY <1>1, <1>6 DEF Check
  <2>2. UNCHANGED native BY <1>6 DEF Check, disk
  <2>3. at' # "extract" BY <1>6 DEF Check, GoTo, Finish
  <2>4. at' = "scan" => native[Kind] = {} /\ UNCHANGED mode BY <1>6 DEF Check, GoTo, Finish
  <2> QED BY <2>1, <2>2, <2>3, <2>4 DEF NothingInTheWay, Kind
<1>7. CASE Analyze
  <2>1. ClaimsRecorded' BY <1>7, ScanRecords DEF Analyze
  <2> QED BY <1>7, <2>1 DEF Analyze, disk, run, NothingInTheWay, Kind
<1>8. CASE Publish
  <2>1. ClaimsRecorded' BY <1>2, <1>8 DEF Publish
  <2>2. at' \notin {"scan", "extract"} BY <1>8 DEF Publish, GoTo, Finish
  <2>3. native' = [k \in Kinds |-> native'[k]] BY <1>8 DEF Publish, NothingInTheWay
  <2> QED BY <2>1, <2>2, <2>3 DEF NothingInTheWay
<1>9. CASE CopyReport
  <2>1. ClaimsRecorded' BY <1>1, <1>9 DEF CopyReport
  <2>2. at' \notin {"scan", "extract"} /\ UNCHANGED native BY <1>9 DEF CopyReport, GoTo, Finish
  <2> QED BY <2>1, <2>2 DEF NothingInTheWay
<1>10. CASE Preserve
  <2>1. ClaimsRecorded' BY <1>1, <1>10 DEF Preserve
  <2>2. at' \notin {"scan", "extract"} /\ UNCHANGED native BY <1>10 DEF Preserve, Finish
  <2> QED BY <2>1, <2>2 DEF NothingInTheWay
<1>11. CASE Crash
  <2>1. ClaimsRecorded' BY <1>1, <1>11 DEF Crash
  <2> QED BY <1>11, <2>1 DEF Crash, NothingInTheWay
<1>12. CASE PutFiles
  <2>1. ClaimsRecorded' BY <1>1, <1>12 DEF PutFiles
  <2>2. UNCHANGED <<at, mode, native>> BY <1>12 DEF PutFiles
  <2>3. folder'.kind = "none" => folder.kind = "none" BY <1>12 DEF PutFiles
  <2> QED BY <2>1, <2>2, <2>3 DEF NothingInTheWay, Kind
<1>13. CASE TakeFiles
  <2>1. ClaimsRecorded' BY <1>1, <1>13 DEF TakeFiles
  <2> QED BY <1>13, <2>1 DEF TakeFiles, NothingInTheWay, Kind
<1>14. CASE UNCHANGED vars
  BY <1>1, <1>14 DEF vars, disk, run, NothingInTheWay, Kind
<1> QED BY <1>3, <1>4, <1>5, <1>6, <1>7, <1>8, <1>9, <1>10, <1>11, <1>12, <1>13, <1>14
        DEF Next, Step

\* On every floppy, whatever could not be read and however it is inconsistent,
\* what a finished scan gives for live entries is nobody else's: not another
\* recovered file's, fragment's, unclaimed chain's or deleted file's.
THEOREM LiveFilesKeepTheirClusters == Spec => [](Judged => LiveOnce)
<1>1. ExtractionInv => (Judged => LiveOnce) BY ClaimsKeepApart DEF ExtractionInv
<1> QED BY InitInv, StepInv, <1>1, PTL DEF Spec

\* Between scans nothing is learned; a new scan forgets everything.
LEMMA LearntStep == LearntInv /\ [Next]_vars => LearntInv'
<1> SUFFICES ASSUME LearntInv, [Next]_vars PROVE LearntInv' OBVIOUS
<1>1. Rescan => LearntInv' BY DEF Rescan, LearntInv, DeletedExcluded, FoundAsRead
<1>2. UNCHANGED <<saved, scan>> => LearntInv' BY LearntGrows DEF scan
<1>3. ASSUME NEW m \in Modes, Start(m) PROVE LearntInv' BY <1>1, <1>3 DEF Start
<1>4. CASE Analyze BY <1>4, ScanLearns DEF Analyze
<1>5. CASE Publish BY <1>1, <1>5 DEF Publish
<1>6. CASE Extract BY <1>2, <1>6 DEF Extract
<1>7. CASE Backup BY <1>2, <1>7 DEF Backup
<1>8. CASE Check BY <1>2, <1>8 DEF Check
<1>9. CASE CopyReport BY <1>2, <1>9 DEF CopyReport
<1>10. CASE Preserve BY <1>2, <1>10 DEF Preserve
<1>11. CASE Crash BY <1>2, <1>11 DEF Crash
<1>12. CASE PutFiles BY <1>2, <1>12 DEF PutFiles
<1>13. CASE TakeFiles BY <1>2, <1>13 DEF TakeFiles
<1>14. CASE UNCHANGED vars BY <1>2, <1>14 DEF vars
<1> QED BY <1>3, <1>4, <1>5, <1>6, <1>7, <1>8, <1>9, <1>10, <1>11, <1>12, <1>13, <1>14
        DEF Next, Step

\* Every finished scan, on any image and with any bad sectors, gives each cluster
\* once: to a recovered file, a fragment, an unclaimed chain or a deleted file
\* (src/fat12.rs, src/fat12_orphans.rs, src/fat12_deleted.rs).
THEOREM EveryClusterOnce == Spec => []ClaimedOnce
<1>1. Init => LearntInv BY DEF Init, ScanInit, LearntInv, DeletedExcluded, FoundAsRead
<1>2. ExtractionInv /\ LearntInv => ClaimedOnce
  BY ClaimsKeepApart, ForensicApart DEF ExtractionInv, LearntInv, ClaimedOnce
<1> QED BY InitInv, StepInv, <1>1, LearntStep, <1>2, PTL DEF Spec

\* On a floppy whose copies of the FAT agree, whatever cannot be read and however
\* its entries contradict each other, a recovered file consists of the clusters
\* that its chain had, in order, and all of them were read (src/fat12.rs, chain).
THEOREM RecoveredAsWritten == Spec => []AsWritten
<1>1. Init => LearntInv BY DEF Init, ScanInit, LearntInv, DeletedExcluded, FoundAsRead
<1>2. LearntInv => AsWritten BY FoundIsTrue DEF LearntInv
<1> QED BY <1>1, LearntStep, <1>2, PTL DEF Spec

-----------------------------------------------------------------------------
\* Without a new generation and without a new directory of 7-Zip's, what is
\* preferred stays.
LEMMA SamePreferred ==
  ASSUME UNCHANGED native, Extracted' = Extracted
  PROVE  Preferred' = Preferred
BY DEF Preferred

PayloadStep ==
  \A old \in Preferred : \E new \in Preferred' :
    old.files \subseteq new.files /\ old.reachable \subseteq new.reachable

\* One step: only a first generation and 7-Zip's first directory change anything.
LEMMA StepKeeps == ASSUME ExtractionInv, [Next]_vars PROVE PayloadStep
<1>1. Preferred' = Preferred => PayloadStep BY DEF PayloadStep
<1>2. UNCHANGED <<folder, native>> => PayloadStep
  BY <1>1, SamePreferred DEF Extracted
<1>3. CASE Extract
  <2>1. UNCHANGED native BY <1>3 DEF Extract
  <2>2. CASE folder.kind = "none"
    <3>1. Preferred = {}
      BY <1>3, <2>2 DEF Extract, ExtractionInv, NothingInTheWay, Preferred, Extracted
    <3> QED BY <3>1 DEF PayloadStep
  <2>3. CASE folder.kind # "none"
    <3>1. UNCHANGED folder BY <1>3, <2>3 DEF Extract
    <3> QED BY <1>2, <2>1, <3>1
  <2> QED BY <2>2, <2>3
<1>4. CASE Publish
  <2>1. UNCHANGED folder /\ Extracted' = Extracted BY <1>4 DEF Publish, Extracted
  <2>2. CASE UNCHANGED native BY <1>2, <2>1, <2>2
  <2>3. CASE native' # native
    <3>1. PICK g : native' = [native EXCEPT ![Kind] = {g}] BY <1>4, <2>3 DEF Publish
    <3>2. native[Kind] = {} /\ native = [k \in Kinds |-> native[k]]
      BY <1>4 DEF Publish, ExtractionInv, NothingInTheWay
    <3>3. CASE Kind = "deleted"
      <4>1. native'["live"] = native["live"] BY <3>1, <3>2, <3>3 DEF Kinds
      <4>2. Preferred' = Preferred BY <2>1, <4>1 DEF Preferred
      <4> QED BY <1>1, <4>2
    <3>4. CASE Kind = "live"
      <4>1. native["live"] = {} /\ native'["live"] = {g} BY <3>1, <3>2, <3>4 DEF Kinds
      <4>2. Preferred = Extracted BY <4>1 DEF Preferred
      <4>3. \/ Preferred' = Extracted
            \/ Preferred' = {g.content} /\ \A old \in Extracted : Keeps(g.content, old)
        BY <2>1, <4>1 DEF Preferred
      <4> QED BY <4>2, <4>3 DEF PayloadStep, Keeps
    <3> QED BY <3>3, <3>4 DEF Kind
  <2> QED BY <2>2, <2>3
<1>5. CASE PutFiles
  <2>1. UNCHANGED native BY <1>5 DEF PutFiles
  <2>2. Extracted = {} /\ Extracted' = {} BY <1>5 DEF PutFiles, Unmarked, Extracted
  <2> QED BY <1>1, <2>1, <2>2, SamePreferred
<1>6. ASSUME NEW m \in Modes, Start(m) PROVE PayloadStep BY <1>2, <1>6 DEF Start, disk
<1>7. CASE Backup BY <1>2, <1>7 DEF Backup
<1>8. CASE Check BY <1>2, <1>8 DEF Check, disk
<1>9. CASE Analyze BY <1>2, <1>9 DEF Analyze, disk
<1>10. CASE CopyReport BY <1>2, <1>10 DEF CopyReport
<1>11. CASE Preserve BY <1>2, <1>11 DEF Preserve
<1>12. CASE Crash BY <1>2, <1>12 DEF Crash
<1>13. CASE TakeFiles BY <1>2, <1>13 DEF TakeFiles
<1>14. CASE UNCHANGED vars BY <1>2, <1>14 DEF vars, disk
<1> QED BY <1>3, <1>4, <1>5, <1>6, <1>7, <1>8, <1>9, <1>10, <1>11, <1>12, <1>13, <1>14
        DEF Next, Step

\* Nothing that the preferred generation of an acquisition holds is lost by a
\* later run, in whichever way the runs are mixed, repeated and cut off.
THEOREM ExtractedPayloadsKept == Spec => PayloadsKept
<1>1. ExtractionInv /\ [Next]_vars => [PayloadStep]_vars BY StepKeeps
<1>2. Spec => [][PayloadStep]_vars BY InitInv, StepInv, <1>1, PTL DEF Spec
<1> QED BY <1>2, PTL DEF PayloadsKept, PayloadStep
-----------------------------------------------------------------------------
(* Repetition.                                                             *)

\* Native recovery scans and publishes only what has a map of its sectors, and
\* fragments are those of the generation that was published.
SalvageInv ==
  /\ native["live"] # {} \/ at = "scan" => log \notin {"progress", "unknown"}
  /\ fragments => \E g \in native["live"] : g.partial
  /\ SalvageRepeats

\* Before the first run there is nothing to repeat.
LEMMA SalvageInit == Init => SalvageInv
BY DEF Init, SalvageInv, SalvageRepeats, Kinds

\* Where the run is not over, there is nothing to say of its end.
LEMMA SalvageStep == ExtractionInv /\ SalvageInv /\ [Next]_vars => SalvageInv'
<1> SUFFICES ASSUME ExtractionInv, SalvageInv, [Next]_vars PROVE SalvageInv' OBVIOUS
<1> DEFINE Mapped == native["live"] # {} \/ at = "scan" => log \notin {"progress", "unknown"}
           Own == fragments => \E g \in native["live"] : g.partial
<1>0. Mapped /\ Own /\ SalvageRepeats BY DEF SalvageInv
<1>1. at' # "idle" => SalvageRepeats' BY DEF SalvageRepeats
<1>2. status' \in {"none", "cut off", "failed", "manual", "reused"} => SalvageRepeats' BY DEF SalvageRepeats
<1>3. UNCHANGED <<native, log, fragments>> /\ (at' = "scan" => at = "scan") => Mapped' /\ Own' BY <1>0
<1>4. UNCHANGED disk => Presence' = Presence
  BY DEF disk, Presence, NativePreferred, Preferred, Extracted
<1>5. ASSUME NEW m \in Modes, Start(m) PROVE SalvageInv'
  <2>1. UNCHANGED <<native, log, fragments, disk>> /\ at' # "scan"
    BY <1>5 DEF Start, disk, Classify
  <2>2. CASE at' # "idle"
    BY <1>1, <1>3, <2>1, <2>2 DEF SalvageInv
  <2>3. CASE at' = "idle"
    <3>1. status' = Classify /\ Classify \notin {"recovery", "extract"}
      BY <1>5, <2>3 DEF Start
    <3>2. Classify \in {"manual", "in_progress"} BY <3>1 DEF Classify
    <3>3. Classify = "in_progress" => log = "progress" BY DEF Classify
    <3>4. SalvageRepeats'
      <4>1. CASE Classify = "manual" BY <1>2, <3>1, <4>1
      <4>2. CASE Classify = "in_progress"
        BY <1>0, <2>1, <3>3, <4>2 DEF SalvageRepeats
      <4> QED BY <3>2, <4>1, <4>2
    <3> QED BY <1>3, <2>1, <3>4 DEF SalvageInv
  <2> QED BY <2>2, <2>3
<1>6. CASE Extract
  <2>1. UNCHANGED <<native, log, fragments>> /\ at' # "scan" BY <1>6 DEF Extract, GoTo, Finish
  <2>2. CASE folder.kind = "none"
    <3>1. native["live"] = {} BY <1>6, <2>2 DEF Extract, ExtractionInv, NothingInTheWay
    <3> QED BY <1>3, <2>1, <3>1 DEF SalvageInv, SalvageRepeats
  <2>3. CASE folder.kind # "none"
    <3>1. at' = "backup" \/ status' = "reused" BY <1>6, <2>3 DEF Extract, GoTo, Finish
    <3> QED BY <1>1, <1>2, <1>3, <2>1, <3>1 DEF SalvageInv
  <2> QED BY <2>2, <2>3
<1>7. CASE Backup
  <2>1. UNCHANGED <<native, log, fragments>> /\ at' # "scan" BY <1>7 DEF Backup, GoTo, Finish
  <2>2. at' # "idle" \/ status' = "failed" BY <1>7 DEF Backup, GoTo, Finish
  <2> QED BY <1>1, <1>2, <1>3, <2>1, <2>2 DEF SalvageInv
<1>8. CASE Check
  <2>1. UNCHANGED disk BY <1>8 DEF Check
  <2>2. UNCHANGED <<native, log, fragments>> /\ Presence' = Presence BY <1>4, <2>1 DEF disk
  <2>3. at' = "scan" => log \notin {"progress", "unknown"} BY <1>8 DEF Check, GoTo, Finish
  <2>4. at' = "idle" => \/ mode # "deleted" /\ Presence = "manual"
                        \/ log \in {"progress", "unknown"}
    BY <1>8 DEF Check, GoTo, Finish
  <2>5. Mapped' /\ Own' BY <1>0, <2>2, <2>3
  <2>6. SalvageRepeats'
    <3>1. CASE at' # "idle" BY <1>1, <3>1
    <3>2. CASE at' = "idle" /\ Presence = "manual" BY <2>2, <3>2 DEF SalvageRepeats
    <3>3. CASE at' = "idle" /\ log \in {"progress", "unknown"}
      BY <1>0, <2>2, <3>3 DEF SalvageRepeats
    <3> QED BY <2>4, <3>1, <3>2, <3>3
  <2> QED BY <2>5, <2>6 DEF SalvageInv
<1>9. CASE Analyze
  <2>1. UNCHANGED <<at, native, log, fragments>> /\ at = "scan" BY <1>9 DEF Analyze, disk, run
  <2> QED BY <1>1, <1>3, <2>1 DEF SalvageInv
<1>10. CASE Publish
  <2>1. at = "scan" /\ UNCHANGED <<log, fragments, mode>> BY <1>10 DEF Publish, GoTo, Finish
  <2>2. native[Kind] = {} /\ native = [k \in Kinds |-> native[k]]
    BY <2>1 DEF ExtractionInv, NothingInTheWay
  <2>3. CASE mode = "deleted"
    <3>1. native'["live"] = native["live"]
      BY <1>10, <2>2, <2>3 DEF Publish, Kind, Kinds
    <3>2. mode' = "deleted" /\ at' # "scan" BY <1>10, <2>1, <2>3 DEF Publish, GoTo, Finish
    <3>3. Mapped' /\ Own' BY <1>0, <2>1, <3>1, <3>2
    <3> QED BY <3>2, <3>3 DEF SalvageInv, SalvageRepeats
  <2>4. CASE mode # "deleted"
    <3>1. at' = "copy" BY <1>10, <2>4 DEF Publish, GoTo
    <3>2. ~fragments BY <1>0, <2>2, <2>4 DEF Kind
    <3>3. Mapped' /\ Own' BY <1>0, <2>1, <3>1, <3>2
    <3> QED BY <1>1, <3>1, <3>3 DEF SalvageInv
  <2> QED BY <2>3, <2>4
<1>11. CASE CopyReport
  <2>1. UNCHANGED <<native, log, fragments, mode>> /\ at' # "scan" BY <1>11 DEF CopyReport, GoTo, Finish
  <2>2. CASE mode = "deleted" BY <1>3, <2>1, <2>2 DEF SalvageInv, SalvageRepeats
  <2>3. CASE mode # "deleted"
    <3>1. at' # "idle" \/ copy'["live"] = "torn" BY <1>11, <2>3 DEF CopyReport, Kind, GoTo, Finish
    <3> QED BY <1>1, <1>3, <2>1, <3>1 DEF SalvageInv, SalvageRepeats
  <2> QED BY <2>2, <2>3
<1>12. CASE Preserve
  <2>1. UNCHANGED <<native, log>> /\ at' = "idle" /\ status' = "partial_recovered"
    BY <1>12 DEF Preserve, Finish
  <2>2. fragments' <=> \E g \in native["live"] : g.partial
    BY <1>0, <1>12 DEF Preserve
  <2> QED BY <1>0, <2>1, <2>2 DEF SalvageInv, SalvageRepeats
<1>13. CASE Crash
  <2>1. UNCHANGED <<native, log>> /\ at' = "idle" /\ status' = "cut off" BY <1>13 DEF Crash
  <2>2. fragments' => fragments \/ \E g \in native["live"] : g.partial BY <1>13 DEF Crash
  <2>3. Mapped' /\ Own' BY <1>0, <2>1, <2>2
  <2> QED BY <1>2, <2>1, <2>3 DEF SalvageInv
<1>14. CASE PutFiles
  <2>1. UNCHANGED <<at, native, log, fragments>> BY <1>14 DEF PutFiles
  <2>2. at' # "idle" \/ status' = "none" BY <1>14 DEF PutFiles
  <2> QED BY <1>1, <1>2, <1>3, <2>1, <2>2 DEF SalvageInv
<1>15. CASE TakeFiles
  <2>1. UNCHANGED <<at, native, log, fragments>> /\ status' = "none" BY <1>15 DEF TakeFiles
  <2> QED BY <1>2, <1>3, <2>1 DEF SalvageInv
<1>16. CASE UNCHANGED vars
  <2>1. UNCHANGED <<disk, run, native, log, fragments, at, mode, status, copy>> BY <1>16 DEF vars, disk, run
  <2> QED BY <1>0, <1>3, <1>4, <2>1 DEF SalvageInv, SalvageRepeats
<1> QED BY <1>5, <1>6, <1>7, <1>8, <1>9, <1>10, <1>11, <1>12, <1>13, <1>14, <1>15, <1>16
        DEF Next, Step

\* Native recovery of a disk can be repeated: whatever is mixed, repeated and
\* cut off, a later run finds the generation that was published and its
\* fragments, and does not take them for somebody else's (src/fragments.rs,
\* src/fat12_recovery.rs).
THEOREM SalvageIsRepeatable == Spec => []SalvageRepeats
<1>1. SalvageInv => SalvageRepeats BY DEF SalvageInv
<1> QED BY InitInv, StepInv, SalvageInit, SalvageStep, <1>1, PTL DEF Spec

-----------------------------------------------------------------------------
(* Listings.                                                               *)

Held(s) == ToSet(Chain(s).clusters)
Contents(s) == EntriesOfChain(Chain(s).clusters)
Places == {"data"} \X Clusters \X Nat

\* A sequence put together of the first ones of others.
IsJoined(f, N, seqs) == f = [i \in 1 .. N |-> IF i = 1 THEN seqs[i] ELSE f[i - 1] \o seqs[i]]

\* Sequences can be joined one after the other.
LEMMA JoinedExists ==
  ASSUME NEW seqs, NEW S, \A i \in DOMAIN seqs : seqs[i] \in Seq(S)
  PROVE  \A N \in Nat : 1 .. N \subseteq DOMAIN seqs =>
           \E f : IsJoined(f, N, seqs) /\ \A i \in 1 .. N : f[i] \in Seq(S)
<1> DEFINE Has(N) == \E f : IsJoined(f, N, seqs) /\ \A i \in 1 .. N : f[i] \in Seq(S)
           T == {N \in Nat : 1 .. N \subseteq DOMAIN seqs => Has(N)}
<1>1. 0 \in T
  <2> DEFINE f == [i \in 1 .. 0 |-> seqs[i]]
  <2>1. f = [i \in 1 .. 0 |-> IF i = 1 THEN seqs[i] ELSE f[i - 1] \o seqs[i]] OBVIOUS
  <2> HIDE DEF f
  <2>2. IsJoined(f, 0, seqs) /\ \A i \in 1 .. 0 : f[i] \in Seq(S) BY <2>1 DEF IsJoined
  <2> QED BY <2>2
<1>2. ASSUME NEW N \in Nat, N \in T PROVE N + 1 \in T
  <2>1. SUFFICES ASSUME 1 .. N + 1 \subseteq DOMAIN seqs PROVE Has(N + 1) OBVIOUS
  <2>2. 1 .. N \subseteq DOMAIN seqs /\ N + 1 \in DOMAIN seqs BY <2>1
  <2>3. PICK g : IsJoined(g, N, seqs) /\ \A i \in 1 .. N : g[i] \in Seq(S) BY <1>2, <2>2
  <2> DEFINE next == IF N = 0 THEN seqs[1] ELSE g[N] \o seqs[N + 1]
             f == [i \in 1 .. N + 1 |-> IF i <= N THEN g[i] ELSE next]
  <2>4. ASSUME NEW i \in 1 .. N + 1
        PROVE f[i] = (IF i = 1 THEN seqs[i] ELSE f[i - 1] \o seqs[i]) /\ f[i] \in Seq(S)
    <3>1. CASE i <= N
      <4>1. i \in 1 .. N /\ f[i] = g[i] BY <3>1
      <4>2. g[i] = IF i = 1 THEN seqs[i] ELSE g[i - 1] \o seqs[i] BY <2>3, <4>1 DEF IsJoined
      <4>3. i # 1 => i - 1 \in 1 .. N + 1 /\ i - 1 <= N BY <4>1
      <4>4. i # 1 => f[i - 1] = g[i - 1] BY <4>3
      <4> HIDE DEF f
      <4> QED BY <2>3, <4>1, <4>2, <4>4
    <3>2. CASE ~(i <= N)
      <4>1. i = N + 1 /\ i - 1 = N /\ (i # 1 => N \in 1 .. N /\ N \in 1 .. N + 1) /\ (i = 1 <=> N = 0) BY <3>2
      <4>2. f[i] = next /\ (i # 1 => f[i - 1] = g[N]) BY <4>1
      <4>3. seqs[i] \in Seq(S) BY <2>1
      <4>4. next \in Seq(S)
        <5>1. CASE N = 0 BY <4>1, <4>3, <5>1
        <5>2. CASE N # 0
          <6>1. g[N] \in Seq(S) /\ seqs[N + 1] \in Seq(S) BY <2>3, <4>1, <4>3, <5>2
          <6> QED BY <6>1, <5>2
        <5> QED BY <5>1, <5>2
      <4> HIDE DEF f
      <4> QED BY <4>1, <4>2, <4>4
    <3> QED BY <3>1, <3>2
  <2>5. f = [i \in 1 .. N + 1 |-> f[i]] OBVIOUS
  <2> HIDE DEF f
  <2>6. IsJoined(f, N + 1, seqs) BY <2>4, <2>5, Zenon DEF IsJoined
  <2> QED BY <2>4, <2>6
<1> HIDE DEF T
<1>3. Nat \subseteq T BY <1>1, <1>2, Counting
<1> QED BY <1>3 DEF T

\* The listing of a chain, entry by entry: each part follows the one before.
LEMMA Joined ==
  ASSUME NEW clusters \in Seq(Clusters), Counted(image), clusters # <<>>
  PROVE  \E f : /\ EntriesOfChain(clusters) = f[Len(clusters)]
                /\ \A i \in 1 .. Len(clusters) : f[i] \in Seq(Places)
                /\ f[1] = EntriesOf(clusters[1])
                /\ \A i \in 2 .. Len(clusters) : f[i] = f[i - 1] \o EntriesOf(clusters[i])
<1> DEFINE N == Len(clusters)
           seqs == [i \in DOMAIN clusters |-> EntriesOf(clusters[i])]
<1>1. N \in Nat /\ N # 0 /\ DOMAIN clusters = 1 .. N OBVIOUS
<1>2. ASSUME NEW i \in DOMAIN clusters PROVE seqs[i] \in Seq(Places)
  <2>1. clusters[i] \in Clusters /\ Len(image.entries[clusters[i]]) \in Nat BY DEF Counted
  <2>2. EntriesOf(clusters[i]) \in Seq(Places) BY <2>1 DEF EntriesOf, Places
  <2> QED BY <2>2
<1>3. Len(seqs) = N /\ DOMAIN seqs = 1 .. N
  <2>1. seqs \in Seq(Seq(Places)) BY <1>1, <1>2
  <2> QED BY <1>1, <2>1
<1> HIDE DEF seqs
<1>4. \E f : IsJoined(f, N, seqs) /\ \A i \in 1 .. N : f[i] \in Seq(Places)
  BY <1>1, <1>2, <1>3, JoinedExists
<1>5. EntriesOfChain(clusters) = FlattenSeq(seqs) BY DEF EntriesOfChain, seqs
<1> DEFINE f == CHOOSE f : IsJoined(f, N, seqs)
<1>6. FlattenSeq(seqs) = f[N] BY <1>1, <1>3 DEF FlattenSeq, IsJoined
<1>7. IsJoined(f, N, seqs) BY <1>4, Zenon
<1> HIDE DEF f
<1>8. PICK g : IsJoined(g, N, seqs) /\ \A i \in 1 .. N : g[i] \in Seq(Places) BY <1>4
<1>9. \A i \in 1 .. N : f[i] = g[i]
  <2> DEFINE T == {n \in Nat : n \in 1 .. N => f[n] = g[n]}
  <2>1. 0 \in T OBVIOUS
  <2>2. ASSUME NEW n \in Nat, n \in T PROVE n + 1 \in T
    <3>1. SUFFICES ASSUME n + 1 \in 1 .. N PROVE f[n + 1] = g[n + 1] OBVIOUS
    <3>2. f[n + 1] = IF n + 1 = 1 THEN seqs[n + 1] ELSE f[(n + 1) - 1] \o seqs[n + 1] BY <1>7, <3>1 DEF IsJoined
    <3>3. g[n + 1] = IF n + 1 = 1 THEN seqs[n + 1] ELSE g[(n + 1) - 1] \o seqs[n + 1] BY <1>8, <3>1 DEF IsJoined
    <3>4. (n + 1) - 1 = n /\ (n + 1 # 1 => n \in 1 .. N) BY <1>1, <3>1
    <3> QED BY <2>2, <3>2, <3>3, <3>4
  <2> HIDE DEF T
  <2>3. Nat \subseteq T BY <2>1, <2>2, Counting
  <2> QED BY <1>1, <2>3 DEF T
<1>10. f[1] = EntriesOf(clusters[1])
  <2>1. 1 \in 1 .. N BY <1>1
  <2> QED BY <1>1, <1>7, <2>1 DEF IsJoined, seqs
<1>11. ASSUME NEW i \in 2 .. N PROVE f[i] = f[i - 1] \o EntriesOf(clusters[i])
  <2>1. i \in 1 .. N /\ i # 1 BY <1>1
  <2> QED BY <1>1, <1>7, <2>1 DEF IsJoined, seqs
<1> QED BY <1>5, <1>6, <1>8, <1>9, <1>10, <1>11

\* One sequence begins with another.
Begins(s, t) == Len(s) <= Len(t) /\ \A i \in 1 .. Len(s) : s[i] = t[i]

\* The place of the i-th entry of a cluster.
At(c, i) == <<"data", c, i>>

\* What lies where in two sequences joined.
LEMMA Concatenation ==
  ASSUME NEW S, NEW s \in Seq(S), NEW t \in Seq(S)
  PROVE  /\ s \o t \in Seq(S) /\ Len(s \o t) = Len(s) + Len(t)
         /\ \A i \in 1 .. Len(s) : (s \o t)[i] = s[i]
         /\ \A i \in 1 .. Len(t) : (s \o t)[Len(s) + i] = t[i]
         /\ \A i \in 1 .. Len(s \o t) : i \notin 1 .. Len(s) => i - Len(s) \in 1 .. Len(t) /\ (s \o t)[i] = t[i - Len(s)]
OBVIOUS

\* What clusters list together, and that the listing of the first n of them is its beginning.
LEMMA JoinedParts ==
  ASSUME NEW clusters \in Seq(Clusters), Counted(image), NEW f,
         \A i \in 1 .. Len(clusters) : f[i] \in Seq(Places),
         f[1] = EntriesOf(clusters[1]),
         \A i \in 2 .. Len(clusters) : f[i] = f[i - 1] \o EntriesOf(clusters[i])
  PROVE  \A n \in 1 .. Len(clusters) :
           /\ \A x : x \in ToSet(f[n]) <=>
                \E k \in 1 .. n : \E i \in 1 .. Len(image.entries[clusters[k]]) : x = At(clusters[k], i)
           /\ \A m \in 1 .. n : Begins(f[m], f[n])
           /\ (\A i, j \in DOMAIN clusters : clusters[i] = clusters[j] => i = j) =>
                \A i, j \in DOMAIN f[n] : f[n][i] = f[n][j] => i = j
<1> DEFINE N == Len(clusters)
           Own(c) == {At(c, i) : i \in 1 .. Len(image.entries[c])}
           Ranged(n) == \A x : x \in ToSet(f[n]) <=> \E k \in 1 .. n : x \in Own(clusters[k])
           Begun(n) == \A m \in 1 .. n : Begins(f[m], f[n])
           Different == \A i, j \in DOMAIN clusters : clusters[i] = clusters[j] => i = j
           Apart_(n) == Different => \A i, j \in DOMAIN f[n] : f[n][i] = f[n][j] => i = j
           T == {n \in Nat : n \in 1 .. N => Ranged(n) /\ Begun(n) /\ Apart_(n)}
<1>1. ASSUME NEW c \in Clusters
      PROVE  /\ EntriesOf(c) \in Seq(Places) /\ Len(EntriesOf(c)) \in Nat
             /\ \A x : x \in ToSet(EntriesOf(c)) <=> x \in Own(c)
             /\ \A i, j \in DOMAIN EntriesOf(c) : EntriesOf(c)[i] = EntriesOf(c)[j] => i = j
  <2>1. Len(image.entries[c]) \in Nat BY DEF Counted
  <2>2. EntriesOf(c) \in Seq(Places) BY <2>1 DEF EntriesOf, Places
  <2>3. EntriesOf(c) = [i \in 1 .. Len(image.entries[c]) |-> At(c, i)] BY DEF EntriesOf, At
  <2>4. \A i, j : At(c, i) = At(c, j) => i = j BY DEF At
  <2>5. ToSet(EntriesOf(c)) = Own(c) BY <2>3 DEF ToSet
  <2>6. \A i, j \in DOMAIN EntriesOf(c) : EntriesOf(c)[i] = EntriesOf(c)[j] => i = j BY <2>3, <2>4
  <2>7. Len(EntriesOf(c)) \in Nat BY <2>2
  <2> QED BY <2>2, <2>5, <2>6, <2>7
<1>2. \A i \in 1 .. N : clusters[i] \in Clusters OBVIOUS
<1>3. \A c, d, x : x \in Own(c) /\ x \in Own(d) => c = d BY DEF At
<1> HIDE DEF Own
<1>4. 0 \in T OBVIOUS
<1>5. ASSUME NEW n \in Nat, n \in T PROVE n + 1 \in T
  <2>1. SUFFICES ASSUME n + 1 \in 1 .. N PROVE Ranged(n + 1) /\ Begun(n + 1) /\ Apart_(n + 1) OBVIOUS
  <2>2. clusters[n + 1] \in Clusters BY <1>2, <2>1
  <2>3. CASE n = 0
    <3>1. f[n + 1] = EntriesOf(clusters[n + 1]) /\ f[n + 1] \in Seq(Places) BY <2>1, <2>3
    <3>2. Ranged(n + 1)
      <4>1. 1 .. n + 1 = {n + 1} BY <2>3
      <4> QED BY <1>1, <2>2, <3>1, <4>1
    <3>3. Begun(n + 1)
      <4>1. 1 .. n + 1 = {n + 1} BY <2>3
      <4>2. Len(f[n + 1]) \in Nat BY <3>1
      <4>3. Begins(f[n + 1], f[n + 1]) BY <4>2 DEF Begins
      <4> QED BY <4>1, <4>3
    <3>4. Apart_(n + 1) BY <1>1, <2>2, <3>1
    <3> QED BY <3>2, <3>3, <3>4
  <2>4. CASE n # 0
    <3> DEFINE s == f[n]
               t == EntriesOf(clusters[n + 1])
    <3>1. n \in 1 .. N /\ n + 1 \in 2 .. N /\ (n + 1) - 1 = n BY <2>1, <2>4
    <3>2. f[n + 1] = s \o t BY <3>1
    <3>3. s \in Seq(Places) /\ t \in Seq(Places) BY <1>1, <2>2, <3>1
    <3>4. Ranged(n) /\ Begun(n) /\ Apart_(n) BY <1>5, <3>1
    <3>5. \A x : x \in ToSet(t) <=> x \in Own(clusters[n + 1]) BY <1>1, <2>2
    <3>6. 1 .. n + 1 = 1 .. n \cup {n + 1} BY <3>1
    <3>7. \A i, j \in DOMAIN t : t[i] = t[j] => i = j BY <1>1, <2>2
    <3> HIDE DEF s, t, T
    <3> DEFINE u == s \o t
    <3>8. /\ u \in Seq(Places) /\ Len(u) = Len(s) + Len(t) /\ Len(s) \in Nat /\ Len(t) \in Nat
          /\ DOMAIN u = 1 .. Len(u) /\ DOMAIN s = 1 .. Len(s) /\ DOMAIN t = 1 .. Len(t)
          /\ \A i \in 1 .. Len(s) : u[i] = s[i]
          /\ \A i \in 1 .. Len(t) : u[Len(s) + i] = t[i]
          /\ \A i \in 1 .. Len(u) : i \notin 1 .. Len(s) => i - Len(s) \in 1 .. Len(t) /\ u[i] = t[i - Len(s)]
      BY <3>3, Concatenation
    <3> HIDE DEF u
    <3>9. \A x : x \in ToSet(u) <=> x \in ToSet(s) \/ x \in ToSet(t)
      <4>1. ASSUME NEW x \in ToSet(s) PROVE x \in ToSet(u)
        <5>1. PICK i \in 1 .. Len(s) : x = s[i] BY <3>8, <4>1 DEF ToSet
        <5>2. i \in 1 .. Len(u) BY <3>8
        <5> QED BY <3>8, <5>1, <5>2 DEF ToSet
      <4>2. ASSUME NEW x \in ToSet(t) PROVE x \in ToSet(u)
        <5>1. PICK i \in 1 .. Len(t) : x = t[i] BY <3>8, <4>2 DEF ToSet
        <5>2. Len(s) + i \in 1 .. Len(u) BY <3>8
        <5> QED BY <3>8, <5>1, <5>2 DEF ToSet
      <4>3. ASSUME NEW x \in ToSet(u) PROVE x \in ToSet(s) \/ x \in ToSet(t)
        <5>1. PICK i \in 1 .. Len(u) : x = u[i] BY <3>8, <4>3 DEF ToSet
        <5> QED BY <3>8, <5>1 DEF ToSet
      <4> QED BY <4>1, <4>2, <4>3
    <3>10. Ranged(n + 1)
      <4> SUFFICES ASSUME NEW x
                   PROVE x \in ToSet(f[n + 1]) <=> \E k \in 1 .. n + 1 : x \in Own(clusters[k])
        OBVIOUS
      <4>1. x \in ToSet(f[n + 1]) <=> x \in ToSet(s) \/ x \in ToSet(t) BY <3>2, <3>9 DEF u
      <4>2. x \in ToSet(s) <=> \E k \in 1 .. n : x \in Own(clusters[k]) BY <3>4 DEF s
      <4>3. (\E k \in 1 .. n + 1 : x \in Own(clusters[k])) <=>
              (\E k \in 1 .. n : x \in Own(clusters[k])) \/ x \in Own(clusters[n + 1])
        BY <3>6
      <4> QED BY <3>5, <4>1, <4>2, <4>3
    <3>11. Begun(n + 1)
      <4> SUFFICES ASSUME NEW m \in 1 .. n + 1 PROVE Begins(f[m], f[n + 1]) OBVIOUS
      <4>1. CASE m = n + 1
        <5>1. f[m] = u BY <3>2, <4>1 DEF u
        <5> QED BY <3>8, <5>1, <4>1 DEF Begins
      <4>2. CASE m \in 1 .. n
        <5>1. Begins(f[m], s) BY <3>4, <4>2 DEF s
        <5>2. m \in 1 .. N BY <3>1, <4>2
        <5>3. Len(f[m]) \in Nat BY <5>2
        <5>4. \A i \in 1 .. Len(f[m]) : i \in 1 .. Len(s) /\ f[m][i] = s[i] BY <5>1, <5>3, <3>8 DEF Begins
        <5>5. Len(f[m]) <= Len(u) BY <5>1, <5>3, <3>8 DEF Begins
        <5>6. Begins(f[m], u) BY <5>4, <5>5, <3>8 DEF Begins
        <5> QED BY <5>6, <3>2 DEF u
      <4> QED BY <3>6, <4>1, <4>2
    <3>12. Apart_(n + 1)
      <4> SUFFICES ASSUME Different, NEW i \in DOMAIN u, NEW j \in DOMAIN u, u[i] = u[j] PROVE i = j
        BY <3>2 DEF u
      <4>1. \A x : x \in ToSet(s) /\ x \in ToSet(t) => FALSE
        <5> SUFFICES ASSUME NEW x, x \in ToSet(s), x \in ToSet(t) PROVE FALSE OBVIOUS
        <5>1. PICK k \in 1 .. n : x \in Own(clusters[k]) BY <3>4 DEF s
        <5>2. x \in Own(clusters[n + 1]) BY <3>5
        <5>3. clusters[k] = clusters[n + 1] BY <1>3, <5>1, <5>2
        <5>4. k \in DOMAIN clusters /\ n + 1 \in DOMAIN clusters /\ k # n + 1 BY <3>1
        <5> QED BY <5>3, <5>4
      <4>2. \A x, y \in DOMAIN s : s[x] = s[y] => x = y BY <3>4 DEF s
      <4>3. ASSUME NEW x \in DOMAIN u
            PROVE  \/ x \in DOMAIN s /\ u[x] = s[x] /\ u[x] \in ToSet(s)
                   \/ x - Len(s) \in DOMAIN t /\ u[x] = t[x - Len(s)] /\ u[x] \in ToSet(t) /\ x \notin DOMAIN s
        BY <3>8 DEF ToSet
      <4>4. CASE i \in DOMAIN s /\ j \in DOMAIN s BY <3>8, <4>2, <4>4
      <4>5. CASE i \notin DOMAIN s /\ j \notin DOMAIN s
        <5>1. i - Len(s) = j - Len(s) BY <4>3, <4>5, <3>7
        <5> QED BY <5>1, <3>8
      <4>6. CASE i \in DOMAIN s /\ j \notin DOMAIN s
        <5>1. u[i] \in ToSet(s) BY <4>3, <4>6
        <5>2. u[j] \in ToSet(t) BY <4>3, <4>6
        <5> QED BY <4>1, <5>1, <5>2
      <4>7. CASE i \notin DOMAIN s /\ j \in DOMAIN s
        <5>1. u[j] \in ToSet(s) BY <4>3, <4>7
        <5>2. u[i] \in ToSet(t) BY <4>3, <4>7
        <5> QED BY <4>1, <5>1, <5>2
      <4> QED BY <4>4, <4>5, <4>6, <4>7
    <3> QED BY <3>10, <3>11, <3>12
  <2> QED BY <2>3, <2>4
<1> HIDE DEF T
<1>6. Nat \subseteq T BY <1>4, <1>5, Counting
<1>7. ASSUME NEW n \in 1 .. N PROVE Ranged(n) /\ Begun(n) /\ Apart_(n)
  <2>1. n \in Nat BY <1>7
  <2> QED BY <1>6, <2>1 DEF T
<1>8. ASSUME NEW n \in 1 .. N
      PROVE  \A x : x \in ToSet(f[n]) <=>
               \E k \in 1 .. n : \E i \in 1 .. Len(image.entries[clusters[k]]) : x = At(clusters[k], i)
  <2>1. Ranged(n) BY <1>7
  <2>2. \A c, x : x \in Own(c) <=> \E i \in 1 .. Len(image.entries[c]) : x = At(c, i) BY DEF Own
  <2> QED BY <2>1, <2>2
<1> QED BY <1>7, <1>8

\* No cluster, no entry.
LEMMA EmptyListing == EntriesOfChain(<<>>) = <<>>
<1> DEFINE seqs == [i \in DOMAIN <<>> |-> EntriesOf(<<>>[i])]
<1>1. DOMAIN seqs = {} /\ 1 .. 0 = {} OBVIOUS
<1>2. seqs = <<>> BY <1>1
<1>3. Len(seqs) = 0 BY <1>2
<1> HIDE DEF seqs
<1>4. FlattenSeq(seqs) = <<>> BY <1>2, <1>3 DEF FlattenSeq
<1> QED BY <1>4 DEF EntriesOfChain, seqs

\* The elements of a beginning.
LEMMA BeginsTyped ==
  ASSUME NEW S, NEW s \in Seq(S), NEW t \in Seq(S), Begins(s, t)
  PROVE  \A i \in DOMAIN s : i \in DOMAIN t /\ s[i] = t[i]
BY DEF Begins

\* What the listing of a chain holds: each entry of each cluster once, and that
\* of a longer chain begins with it.
LEMMA ListingIs ==
  ASSUME NEW clusters \in Seq(Clusters), Counted(image)
  PROVE  /\ EntriesOfChain(clusters) \in Seq(Places)
         /\ \A x : x \in ToSet(EntriesOfChain(clusters)) <=>
              \E k \in DOMAIN clusters : \E i \in 1 .. Len(image.entries[clusters[k]]) : x = At(clusters[k], i)
         /\ (\A i, j \in DOMAIN clusters : clusters[i] = clusters[j] => i = j) =>
              \A i, j \in DOMAIN EntriesOfChain(clusters) :
                EntriesOfChain(clusters)[i] = EntriesOfChain(clusters)[j] => i = j
<1>1. CASE clusters = <<>>
  <2>1. EntriesOfChain(clusters) = <<>> BY <1>1, EmptyListing
  <2>2. DOMAIN clusters = {} /\ DOMAIN EntriesOfChain(clusters) = {} BY <1>1, <2>1
  <2>3. ToSet(EntriesOfChain(clusters)) = {} BY <2>2 DEF ToSet
  <2> QED BY <2>1, <2>2, <2>3
<1>2. CASE clusters # <<>>
  <2> DEFINE n == Len(clusters)
  <2>1. PICK f : /\ EntriesOfChain(clusters) = f[n]
                 /\ \A i \in 1 .. n : f[i] \in Seq(Places)
                 /\ f[1] = EntriesOf(clusters[1])
                 /\ \A i \in 2 .. n : f[i] = f[i - 1] \o EntriesOf(clusters[i])
    BY <1>2, Joined
  <2>2. n \in 1 .. n /\ DOMAIN clusters = 1 .. n BY <1>2
  <2>3. /\ \A x : x \in ToSet(f[n]) <=>
              \E k \in 1 .. n : \E i \in 1 .. Len(image.entries[clusters[k]]) : x = At(clusters[k], i)
        /\ (\A i, j \in DOMAIN clusters : clusters[i] = clusters[j] => i = j) =>
                \A i, j \in DOMAIN f[n] : f[n][i] = f[n][j] => i = j
    <3>1. \A k \in 1 .. Len(clusters) :
           /\ \A x : x \in ToSet(f[k]) <=>
                \E l \in 1 .. k : \E i \in 1 .. Len(image.entries[clusters[l]]) : x = At(clusters[l], i)
           /\ \A m \in 1 .. k : Begins(f[m], f[k])
           /\ (\A i, j \in DOMAIN clusters : clusters[i] = clusters[j] => i = j) =>
                \A i, j \in DOMAIN f[k] : f[k][i] = f[k][j] => i = j
      BY <2>1, JoinedParts, Zenon
    <3> HIDE DEF n
    <3> QED BY <2>2, <3>1 DEF n
  <2>4. f[n] \in Seq(Places) BY <2>1, <2>2
  <2> DEFINE E == EntriesOfChain(clusters)
  <2>5. E = f[n] BY <2>1
  <2> HIDE DEF E, n
  <2>6. /\ E \in Seq(Places)
        /\ \A x : x \in ToSet(E) <=>
              \E k \in 1 .. n : \E i \in 1 .. Len(image.entries[clusters[k]]) : x = At(clusters[k], i)
        /\ (\A i, j \in DOMAIN clusters : clusters[i] = clusters[j] => i = j) =>
                \A i, j \in DOMAIN E : E[i] = E[j] => i = j
    BY <2>3, <2>4, <2>5, Zenon
  <2> QED BY <2>2, <2>6 DEF E, n
<1> QED BY <1>1, <1>2

\* The listing of the first clusters is the beginning of the listing of all.
LEMMA ListingBegins ==
  ASSUME NEW c \in Seq(Clusters), NEW d \in Seq(Clusters), Counted(image), Begins(c, d)
  PROVE  Begins(EntriesOfChain(c), EntriesOfChain(d))
<1>1. EntriesOfChain(d) \in Seq(Places) BY ListingIs
<1>2. CASE c = <<>>
  <2>1. EntriesOfChain(c) = <<>> BY <1>2, EmptyListing
  <2>2. Len(EntriesOfChain(d)) \in Nat BY <1>1
  <2> QED BY <2>1, <2>2 DEF Begins
<1>3. CASE c # <<>>
  <2> DEFINE n == Len(c)
             m == Len(d)
  <2>1. n \in Nat /\ m \in Nat /\ n # 0 /\ n <= m /\ \A i \in 1 .. n : c[i] = d[i] BY <1>3 DEF Begins
  <2>2. d # <<>> BY <2>1
  <2>3. PICK f : /\ EntriesOfChain(c) = f[n]
                 /\ \A i \in 1 .. n : f[i] \in Seq(Places)
                 /\ f[1] = EntriesOf(c[1])
                 /\ \A i \in 2 .. n : f[i] = f[i - 1] \o EntriesOf(c[i])
    BY <1>3, Joined
  <2>4. PICK g : /\ EntriesOfChain(d) = g[m]
                 /\ \A i \in 1 .. m : g[i] \in Seq(Places)
                 /\ g[1] = EntriesOf(d[1])
                 /\ \A i \in 2 .. m : g[i] = g[i - 1] \o EntriesOf(d[i])
    BY <2>2, Joined
  <2> HIDE DEF n, m
  <2> DEFINE T == {k \in Nat : k \in 1 .. n => f[k] = g[k]}
  <2>5. 0 \in T OBVIOUS
  <2>6. ASSUME NEW k \in Nat, k \in T PROVE k + 1 \in T
    <3>1. SUFFICES ASSUME k + 1 \in 1 .. n PROVE f[k + 1] = g[k + 1] OBVIOUS
    <3>2. CASE k = 0 BY <2>1, <2>3, <2>4, <3>1, <3>2
    <3>3. CASE k # 0
      <4>1. k \in 1 .. n /\ k + 1 \in 2 .. n /\ k + 1 \in 2 .. m /\ (k + 1) - 1 = k BY <2>1, <3>1, <3>3
      <4>2. f[k] = g[k] /\ c[k + 1] = d[k + 1] BY <2>1, <2>6, <3>1, <4>1
      <4>3. f[k + 1] = f[k] \o EntriesOf(c[k + 1]) BY <2>3, <4>1
      <4>4. g[k + 1] = g[k] \o EntriesOf(d[k + 1]) BY <2>4, <4>1
      <4> QED BY <4>2, <4>3, <4>4
    <3> QED BY <3>2, <3>3
  <2> HIDE DEF T
  <2>7. Nat \subseteq T BY <2>5, <2>6, Counting
  <2>8. f[n] = g[n]
    <3>1. n \in 1 .. n BY <2>1
    <3> QED BY <2>7, <3>1, <2>1 DEF T
  <2>9. Begins(g[n], g[m])
    <3>1. m \in 1 .. m /\ n \in 1 .. m BY <2>1
    <3> QED BY <2>4, <3>1, JoinedParts DEF m
  <2> QED BY <2>3, <2>4, <2>8, <2>9
<1> QED BY <1>2, <1>3

W(s) == Written(s).clusters

\* The chain as it was written is a chain of the first copy of the FAT.
LEMMA WrittenIs == \A h : IsChain(Written(h), image.fat[1], h)
BY FollowIs DEF Written

\* Both are sequences of clusters.
LEMMA ChainsTyped == \A h : Chain(h).clusters \in Seq(Clusters) /\ W(h) \in Seq(Clusters)
BY ChainIs, WrittenIs DEF IsChain, W

\* A chain that does not start at a cluster has none.
LEMMA NoStart ==
  ASSUME NEW h, h \notin Clusters
  PROVE  Chain(h).clusters = <<>> /\ W(h) = <<>> /\ Chain(h).error # "none" /\ Written(h).error # "none"
<1>1. IsChain(Chain(h), Links, h) /\ IsChain(Written(h), image.fat[1], h) BY ChainIs, WrittenIs
<1>2. ASSUME NEW c, c \in Seq(Clusters), c # <<>> => c[1] = h PROVE c = <<>>
  <2>1. c # <<>> => c[1] \in Clusters BY <1>2
  <2> QED BY <1>2, <2>1
<1>3. Chain(h).clusters = <<>> BY <1>1, <1>2 DEF IsChain
<1>4. W(h) = <<>> BY <1>1, <1>2 DEF IsChain, W
<1> QED BY <1>1, <1>3, <1>4 DEF IsChain, W

\* What was read of a chain is the beginning of what was written.
LEMMA ReadBegins ==
  ASSUME image.fat[1] = image.fat[2], NEW start
  PROVE  Begins(Chain(start).clusters, W(start))
<1> DEFINE N == Cardinality(Clusters)
           walk == Walk(Links, start)
           way == Walk(image.fat[1], start)
           length == StopOf(walk)
           limit == StopOf(way)
<1>1. N \in Nat BY ClusterCount
<1>2. /\ length \in 0 .. N /\ \A m \in 0 .. length - 1 : ~Stops(walk, m)
      /\ limit \in 0 .. N /\ Stops(way, limit)
  BY StopIs
<1>3. /\ walk[0] = start
      /\ \A n \in 1 .. N :
           walk[n] = IF walk[n - 1] \in Clusters THEN Links[walk[n - 1]] ELSE walk[n - 1]
  BY WalkAt
<1>4. /\ way[0] = start
      /\ \A n \in 1 .. N :
           way[n] = IF way[n - 1] \in Clusters THEN image.fat[1][way[n - 1]] ELSE way[n - 1]
  BY WalkAt
<1>5. Chain(start).clusters = [i \in 1 .. length |-> walk[i - 1]] BY DEF Chain, Follow
<1>6. W(start) = [i \in 1 .. limit |-> way[i - 1]] BY DEF W, Written, Follow
<1> HIDE DEF walk, way, length, limit
<1>7. \A n \in 0 .. length - 1 : walk[n] \in Clusters BY <1>2 DEF Stops
<1> DEFINE S == {n \in Nat : n < length => way[n] = walk[n]}
<1>8. 0 \in S BY <1>3, <1>4
<1>9. ASSUME NEW n \in Nat, n \in S PROVE n + 1 \in S
  <2>1. SUFFICES ASSUME n + 1 < length PROVE way[n + 1] = walk[n + 1] OBVIOUS
  <2>2. n + 1 \in 1 .. N /\ (n + 1) - 1 = n /\ n \in 0 .. length - 1 /\ n + 1 \in 0 .. length - 1
    BY <1>1, <1>2, <2>1
  <2>3. way[n] = walk[n] /\ walk[n] \in Clusters /\ walk[n + 1] \in Clusters BY <1>2, <1>7, <1>9, <2>1, <2>2
  <2>4. walk[n + 1] = Link(walk[n]) BY <1>3, <2>2, <2>3 DEF Links
  <2>5. way[n + 1] = image.fat[1][walk[n]] BY <1>4, <2>2, <2>3
  <2>6. Link(walk[n]) \in {image.fat[1][walk[n]], Unreadable} BY <2>3, LinkIs
  <2>7. Unreadable \notin Clusters BY ClusterCount DEF Unreadable
  <2> QED BY <2>3, <2>4, <2>5, <2>6, <2>7
<1> HIDE DEF S
<1>10. Nat \subseteq S BY <1>8, <1>9, Counting
<1>11. \A n \in 0 .. length - 1 : way[n] = walk[n] BY <1>1, <1>2, <1>10 DEF S
<1>12. ~(limit < length)
  <2>1. SUFFICES ASSUME limit < length PROVE FALSE OBVIOUS
  <2>2. limit \in 0 .. length - 1 /\ \A m \in 0 .. limit - 1 : m \in 0 .. length - 1 BY <1>1, <1>2, <2>1
  <2>3. ~Stops(walk, limit) BY <1>2, <2>2
  <2>4. Stops(walk, limit) BY <1>2, <1>11, <2>2 DEF Stops
  <2> QED BY <2>3, <2>4
<1>13. length \in Nat /\ limit \in Nat /\ length <= limit BY <1>1, <1>2, <1>12
<1>14. Len(Chain(start).clusters) = length /\ Len(W(start)) = limit
  <2>1. Chain(start).clusters \in Seq(Clusters) /\ W(start) \in Seq(Clusters) BY ChainsTyped
  <2> QED BY <1>5, <1>6, <1>13, <2>1
<1>15. ASSUME NEW i \in 1 .. length PROVE Chain(start).clusters[i] = W(start)[i]
  <2>1. i - 1 \in 0 .. length - 1 /\ i \in 1 .. limit BY <1>13
  <2> QED BY <1>5, <1>6, <1>11, <2>1
<1> QED BY <1>13, <1>14, <1>15 DEF Begins

\* What can be had of a chain was written so, where the copies agree.
LEMMA HeldIsWritten ==
  ASSUME image.fat[1] = image.fat[2], NEW s
  PROVE  Held(s) \subseteq ToSet(W(s)) /\ ToSet(W(s)) \subseteq Clusters
<1>1. Chain(s).clusters \in Seq(Clusters) /\ W(s) \in Seq(Clusters) BY ChainsTyped
<1>2. Begins(Chain(s).clusters, W(s)) BY ReadBegins
<1>3. \A i \in DOMAIN Chain(s).clusters : i \in DOMAIN W(s) /\ Chain(s).clusters[i] = W(s)[i]
  BY <1>1, <1>2, BeginsTyped
<1>4. Held(s) \subseteq ToSet(W(s)) BY <1>3 DEF Held, ToSet
<1>5. ToSet(W(s)) \subseteq Clusters BY <1>1 DEF ToSet
<1> QED BY <1>4, <1>5

\* What is read of the entries of a directory is how its listing begins.
LEMMA ContentsBegin ==
  ASSUME image.fat[1] = image.fat[2], Counted(image), NEW e
  PROVE  /\ Contents(Entry(e).start) \in Seq(Places) /\ WrittenIn(e) \in Seq(Places)
         /\ \A i \in DOMAIN Contents(Entry(e).start) :
              i \in DOMAIN WrittenIn(e) /\ Contents(Entry(e).start)[i] = WrittenIn(e)[i]
<1> DEFINE s == Entry(e).start
<1>1. Chain(s).clusters \in Seq(Clusters) /\ W(s) \in Seq(Clusters) BY ChainsTyped
<1>2. Begins(Chain(s).clusters, W(s)) BY ReadBegins
<1>3. WrittenIn(e) = EntriesOfChain(W(s)) BY DEF WrittenIn, W
<1>4. Contents(s) \in Seq(Places) /\ WrittenIn(e) \in Seq(Places) BY <1>1, <1>3, ListingIs DEF Contents
<1>5. Begins(Contents(s), WrittenIn(e)) BY <1>1, <1>2, <1>3, ListingBegins DEF Contents
<1> QED BY <1>4, <1>5, BeginsTyped

\* The entries read of a directory lie in its clusters, and no others do.
LEMMA ContentsIs ==
  ASSUME Counted(image), NEW s
  PROVE  /\ \A x \in ToSet(Contents(s)) : x[1] = "data" /\ x[2] \in Held(s) /\ x \in Places
         /\ \A x \in ToSet(EntriesOfChain(W(s))) : x[1] = "data" /\ x[2] \in ToSet(W(s)) /\ x \in Places
         /\ \A t : \A x \in ToSet(EntriesOfChain(W(t))) : x[2] \in Held(s) => x \in ToSet(Contents(s))
         /\ \A i, j \in DOMAIN Contents(s) : Contents(s)[i] = Contents(s)[j] => i = j
<1> DEFINE has(c, x) == \E k \in DOMAIN c : \E i \in 1 .. Len(image.entries[c[k]]) : x = At(c[k], i)
<1>1. \A t : Chain(t).clusters \in Seq(Clusters) /\ W(t) \in Seq(Clusters) BY ChainsTyped
<1>2. ASSUME NEW c \in Seq(Clusters), NEW x, has(c, x) PROVE x[1] = "data" /\ x[2] \in ToSet(c) /\ x \in Places
  <2>1. PICK k \in DOMAIN c : \E i \in 1 .. Len(image.entries[c[k]]) : x = At(c[k], i) BY <1>2
  <2>2. PICK i \in 1 .. Len(image.entries[c[k]]) : x = At(c[k], i) BY <2>1
  <2>3. c[k] \in Clusters BY <2>1
  <2>4. i \in Nat BY <2>2, <2>3 DEF Counted
  <2> QED BY <2>1, <2>2, <2>3, <2>4 DEF At, Places, ToSet
<1>3. ASSUME NEW t, NEW x, has(W(t), x), x[2] \in Held(s) PROVE has(Chain(s).clusters, x)
  <2>1. PICK k \in DOMAIN W(t) : \E i \in 1 .. Len(image.entries[W(t)[k]]) : x = At(W(t)[k], i) BY <1>3
  <2>2. x[2] = W(t)[k] BY <2>1 DEF At
  <2>3. PICK l \in DOMAIN Chain(s).clusters : x[2] = Chain(s).clusters[l] BY <1>3 DEF Held, ToSet
  <2> QED BY <2>1, <2>2, <2>3
<1>4. \A t, x : x \in ToSet(EntriesOfChain(W(t))) <=> has(W(t), x) BY <1>1, ListingIs, Zenon
<1>5. \A x : x \in ToSet(Contents(s)) <=> has(Chain(s).clusters, x) BY <1>1, ListingIs, Zenon DEF Contents
<1>6. \A i, j \in DOMAIN Contents(s) : Contents(s)[i] = Contents(s)[j] => i = j
  <2>1. \A i, j \in DOMAIN Chain(s).clusters : Chain(s).clusters[i] = Chain(s).clusters[j] => i = j
    BY ChainIs DEF IsChain
  <2> QED BY <1>1, <2>1, ListingIs, Zenon DEF Contents
<1> HIDE DEF has
<1>7. \A x \in ToSet(Contents(s)) : x[1] = "data" /\ x[2] \in Held(s) /\ x \in Places
  BY <1>1, <1>2, <1>5 DEF Held
<1>8. \A x \in ToSet(EntriesOfChain(W(s))) : x[1] = "data" /\ x[2] \in ToSet(W(s)) /\ x \in Places
  BY <1>1, <1>2, <1>4
<1>9. \A t : \A x \in ToSet(EntriesOfChain(W(t))) : x[2] \in Held(s) => x \in ToSet(Contents(s))
  BY <1>3, <1>4, <1>5
<1> QED BY <1>6, <1>7, <1>8, <1>9

Deeper(s) == s \cup UNION {LiveIn(WrittenIn(e)) : e \in {e \in s : Entry(e).kind = "dir"}}
IsLiveTo(f, N) == f = [n \in 0 .. N |-> IF n = 0 THEN LiveIn(RootEntries) ELSE Deeper(f[n - 1])]

\* The live entries down to any depth exist ...
LEMMA LiveToExists == \A N \in Nat : \E f : IsLiveTo(f, N)
<1> DEFINE T == {N \in Nat : \E f : IsLiveTo(f, N)}
<1>1. 0 \in T
  <2> DEFINE f == [n \in 0 .. 0 |-> LiveIn(RootEntries)]
  <2>1. \A n \in 0 .. 0 : n = 0 OBVIOUS
  <2>2. f = [n \in 0 .. 0 |-> IF n = 0 THEN LiveIn(RootEntries) ELSE Deeper(f[n - 1])] BY <2>1
  <2>3. IsLiveTo(f, 0) BY <2>2 DEF IsLiveTo
  <2> QED BY <2>3
<1>2. ASSUME NEW N \in Nat, N \in T PROVE N + 1 \in T
  <2>1. PICK g : IsLiveTo(g, N) BY <1>2
  <2> DEFINE f == [n \in 0 .. N + 1 |-> IF n <= N THEN g[n] ELSE Deeper(g[N])]
  <2>2. ASSUME NEW n \in 0 .. N + 1
        PROVE f[n] = IF n = 0 THEN LiveIn(RootEntries) ELSE Deeper(f[n - 1])
    <3>1. CASE n <= N
      <4>1. n \in 0 .. N /\ f[n] = g[n] BY <3>1
      <4>2. g[n] = IF n = 0 THEN LiveIn(RootEntries) ELSE Deeper(g[n - 1]) BY <4>1, <2>1 DEF IsLiveTo
      <4>3. n # 0 => n - 1 \in 0 .. N + 1 /\ n - 1 <= N BY <4>1
      <4>4. n # 0 => f[n - 1] = g[n - 1] BY <4>3
      <4> HIDE DEF f
      <4> QED BY <4>1, <4>2, <4>4
    <3>2. CASE ~(n <= N)
      <4>1. n = N + 1 /\ n - 1 = N /\ N \in 0 .. N + 1 /\ n # 0 BY <3>2
      <4>2. f[n] = Deeper(g[N]) /\ f[N] = g[N] BY <4>1
      <4> HIDE DEF f
      <4> QED BY <4>1, <4>2
    <3> QED BY <3>1, <3>2
  <2>3. f = [n \in 0 .. N + 1 |-> f[n]] OBVIOUS
  <2> HIDE DEF f
  <2>4. IsLiveTo(f, N + 1) BY <2>2, <2>3, Zenon DEF IsLiveTo
  <2> QED BY <2>4
<1> HIDE DEF T
<1>3. Nat \subseteq T BY <1>1, <1>2, Counting
<1> QED BY <1>3 DEF T

\* ... and are those of the definition, depth by depth ...
LEMMA LiveToIs ==
  /\ LiveTo[0] = LiveIn(RootEntries)
  /\ \A n \in 1 .. MaxDepth + 1 : LiveTo[n] = Deeper(LiveTo[n - 1])
<1>1. MaxDepth + 1 \in Nat BY FatAssumption
<1>2. \E f : IsLiveTo(f, MaxDepth + 1) BY <1>1, LiveToExists
<1>3. IsLiveTo(CHOOSE f : IsLiveTo(f, MaxDepth + 1), MaxDepth + 1) BY <1>2, Zenon
<1>4. LiveTo = CHOOSE f : IsLiveTo(f, MaxDepth + 1) BY DEF LiveTo, IsLiveTo, Deeper
<1>5. IsLiveTo(LiveTo, MaxDepth + 1) BY <1>3, <1>4
<1>6. 0 \in 0 .. MaxDepth + 1 /\ \A n \in 1 .. MaxDepth + 1 : n \in 0 .. MaxDepth + 1 /\ n # 0 BY <1>1
<1> QED BY <1>5, <1>6 DEF IsLiveTo

\* ... and do not get fewer.
LEMMA LiveToGrows ==
  \A n \in 0 .. MaxDepth : LiveTo[n] \subseteq LiveTo[n + 1]
<1> SUFFICES ASSUME NEW n \in 0 .. MaxDepth PROVE LiveTo[n] \subseteq LiveTo[n + 1] OBVIOUS
<1>1. n + 1 \in 1 .. MaxDepth + 1 /\ (n + 1) - 1 = n BY FatAssumption
<1> QED BY <1>1, LiveToIs DEF Deeper

\* An entry of a level lies in the root or in a directory of a level above.
LEMMA LevelOf ==
  \A n \in 0 .. MaxDepth + 1 : \A x \in LiveTo[n] :
    \/ x \in LiveIn(RootEntries)
    \/ n > 0 /\ \E d \in LiveTo[n - 1] : Entry(d).kind = "dir" /\ x \in LiveIn(WrittenIn(d))
<1> DEFINE Has(n) == \A x \in LiveTo[n] :
              \/ x \in LiveIn(RootEntries)
              \/ n > 0 /\ \E d \in LiveTo[n - 1] : Entry(d).kind = "dir" /\ x \in LiveIn(WrittenIn(d))
           T == {n \in Nat : n \in 0 .. MaxDepth + 1 => Has(n)}
<1>1. 0 \in T BY LiveToIs
<1>2. ASSUME NEW n \in Nat, n \in T PROVE n + 1 \in T
  <2>1. SUFFICES ASSUME n + 1 \in 0 .. MaxDepth + 1, NEW x \in LiveTo[n + 1]
                 PROVE  \/ x \in LiveIn(RootEntries)
                        \/ \E d \in LiveTo[n] : Entry(d).kind = "dir" /\ x \in LiveIn(WrittenIn(d))
    OBVIOUS
  <2>2. n + 1 \in 1 .. MaxDepth + 1 /\ (n + 1) - 1 = n /\ n \in 0 .. MaxDepth + 1 BY <2>1, FatAssumption
  <2>3. LiveTo[n + 1] = Deeper(LiveTo[n]) BY <2>2, LiveToIs
  <2>4. x \in LiveTo[n] \/ \E d \in LiveTo[n] : Entry(d).kind = "dir" /\ x \in LiveIn(WrittenIn(d))
    BY <2>1, <2>3 DEF Deeper
  <2>5. CASE x \in LiveTo[n]
    <3>1. Has(n) BY <1>2, <2>2
    <3>2. CASE x \in LiveIn(RootEntries) BY <3>2
    <3>3. CASE n > 0 /\ \E d \in LiveTo[n - 1] : Entry(d).kind = "dir" /\ x \in LiveIn(WrittenIn(d))
      <4>1. n - 1 \in 0 .. MaxDepth /\ (n - 1) + 1 = n BY <2>2, <3>3, FatAssumption
      <4>2. LiveTo[n - 1] \subseteq LiveTo[n] BY <4>1, LiveToGrows
      <4> QED BY <3>3, <4>2
    <3> QED BY <2>5, <3>1, <3>2, <3>3
  <2> QED BY <2>4, <2>5
<1> HIDE DEF T
<1>3. Nat \subseteq T BY <1>1, <1>2, Counting
<1>4. ASSUME NEW n \in 0 .. MaxDepth + 1 PROVE Has(n) BY <1>3, FatAssumption DEF T
<1> QED BY <1>4

-----------------------------------------------------------------------------
(* A floppy without a fault.                                               *)

\* What a directory lists is the listing of its chain.
LEMMA WrittenListing == \A e : WrittenIn(e) = EntriesOfChain(W(Entry(e).start))
BY DEF WrittenIn, W

\* The entries of the root are no other directory's.
LEMMA RootIs ==
  ASSUME Counted(image)
  PROVE  /\ DOMAIN RootEntries = 1 .. Len(RootEntries) /\ Len(RootEntries) \in Nat
         /\ \A i \in DOMAIN RootEntries : RootEntries[i] = <<"root", 0, i>>
         /\ \A x \in ToSet(RootEntries) : x[1] = "root"
         /\ \A i, j \in DOMAIN RootEntries : RootEntries[i] = RootEntries[j] => i = j
<1>1. Len(image.root) \in Nat BY DEF Counted
<1>2. RootEntries \in Seq({"root"} \X {0} \X Nat) BY <1>1 DEF RootEntries
<1>3. \A i \in DOMAIN RootEntries : RootEntries[i] = <<"root", 0, i>> BY DEF RootEntries
<1> QED BY <1>2, <1>3 DEF ToSet

\* In an orderly listing every live entry comes before the end.
LEMMA LiveInIs ==
  ASSUME NEW E, DOMAIN E = 1 .. Len(E), Len(E) \in Nat, Orderly(E)
  PROVE  LiveIn(E) = {E[i] : i \in {i \in DOMAIN E : IsLive(E[i])}}
<1>1. ASSUME NEW i \in DOMAIN E, IsLive(E[i]), NEW j \in 1 .. i - 1
      PROVE  Entry(E[j]).kind # "end"
  <2>1. j \in DOMAIN E /\ j < i BY <1>1
  <2>2. Entry(E[j]).kind = "end" => Entry(E[i]).kind = "end" BY <2>1 DEF Orderly
  <2> QED BY <1>1, <2>2 DEF IsLive
<1> QED BY <1>1 DEF LiveIn

\* Live entries of a listing are in it.
LEMMA LiveInListing == \A E : LiveIn(E) \subseteq ToSet(E) /\ \A x \in LiveIn(E) : IsLive(x)
BY DEF LiveIn, ToSet

\* Live entries: in the root, or in a live directory; each where its cluster is.
LEMMA LiveIs ==
  ASSUME Sound, Counted(image)
  PROVE  /\ LiveIn(RootEntries) \subseteq Live
         /\ \A d \in LiveDirs : LiveIn(WrittenIn(d)) \subseteq Live
         /\ \A x \in Live : \/ x \in LiveIn(RootEntries) /\ x[1] = "root"
                            \/ \E d \in LiveDirs : x \in LiveIn(WrittenIn(d)) /\ x[1] = "data"
         /\ \A x \in Live : IsLive(x)
<1>1. MaxDepth \in Nat BY FatAssumption
<1>2. Live = LiveTo[MaxDepth] /\ LiveTo[MaxDepth + 1] = Live BY DEF Sound, Live
<1>3. Deeper(Live) = Live
  <2>1. MaxDepth + 1 \in 1 .. MaxDepth + 1 /\ (MaxDepth + 1) - 1 = MaxDepth BY <1>1
  <2>2. LiveTo[MaxDepth + 1] = Deeper(LiveTo[MaxDepth]) BY <2>1, LiveToIs
  <2> QED BY <1>2, <2>2
<1>4. LiveIn(RootEntries) \subseteq Live
  <2> DEFINE T == {n \in Nat : n \in 0 .. MaxDepth => LiveIn(RootEntries) \subseteq LiveTo[n]}
  <2>1. 0 \in T BY LiveToIs
  <2>2. ASSUME NEW n \in Nat, n \in T PROVE n + 1 \in T
    <3>1. SUFFICES ASSUME n + 1 \in 0 .. MaxDepth PROVE LiveIn(RootEntries) \subseteq LiveTo[n + 1] OBVIOUS
    <3>2. n \in 0 .. MaxDepth BY <1>1, <3>1
    <3> QED BY <2>2, <3>2, LiveToGrows
  <2> HIDE DEF T
  <2>3. Nat \subseteq T BY <2>1, <2>2, Counting
  <2>4. MaxDepth \in T /\ MaxDepth \in 0 .. MaxDepth BY <1>1, <2>3
  <2> QED BY <1>2, <2>4 DEF T
<1>5. ASSUME NEW d \in LiveDirs PROVE LiveIn(WrittenIn(d)) \subseteq Live
  BY <1>3, <1>5 DEF Deeper, LiveDirs
<1>6. ASSUME NEW x \in Live
      PROVE  x \in LiveIn(RootEntries) \/ \E d \in LiveDirs : x \in LiveIn(WrittenIn(d))
  <2>1. MaxDepth \in 0 .. MaxDepth + 1 BY <1>1
  <2>2. CASE MaxDepth > 0 /\ \E d \in LiveTo[MaxDepth - 1] : Entry(d).kind = "dir" /\ x \in LiveIn(WrittenIn(d))
    <3>1. MaxDepth - 1 \in 0 .. MaxDepth /\ (MaxDepth - 1) + 1 = MaxDepth BY <1>1, <2>2
    <3>2. LiveTo[MaxDepth - 1] \subseteq LiveTo[MaxDepth] BY <3>1, LiveToGrows
    <3> QED BY <1>2, <2>2, <3>2 DEF LiveDirs
  <2> QED BY <1>2, <1>6, <2>1, <2>2, LevelOf
<1>7. \A x \in LiveIn(RootEntries) : x[1] = "root" BY RootIs, LiveInListing
<1>8. ASSUME NEW d \in LiveDirs, NEW x \in LiveIn(WrittenIn(d)) PROVE x[1] = "data"
  <2>1. x \in ToSet(EntriesOfChain(W(Entry(d).start))) BY <1>8, LiveInListing, WrittenListing
  <2> QED BY <2>1, ContentsIs
<1>9. \A x \in Live : IsLive(x) BY <1>6, LiveInListing
<1> QED BY <1>4, <1>5, <1>6, <1>7, <1>8, <1>9

\* Chains of different live entries have no cluster in common.
LEMMA Disjoint ==
  ASSUME Sound, NEW e \in Live, NEW d \in Live,
         NEW c \in ToSet(W(Entry(e).start)), c \in ToSet(W(Entry(d).start))
  PROVE  e = d
<1>1. ASSUME NEW x, NEW y \in ToSet(W(Entry(x).start)) PROVE ChainOf(x).clusters = W(Entry(x).start)
  <2>1. W(Entry(x).start) # <<>> BY <1>1 DEF ToSet
  <2>2. Entry(x).start \in Clusters BY <2>1, NoStart
  <2>3. Entry(x).start # 0 BY <2>2, ClusterCount
  <2> QED BY <2>3 DEF ChainOf, W
<1>2. ChainOf(e).clusters = W(Entry(e).start) /\ ChainOf(d).clusters = W(Entry(d).start) BY <1>1
<1> QED BY <1>2 DEF Sound

\* A live entry with a chain starts it.
LEMMA StartIs ==
  ASSUME Sound, NEW e \in Live, Entry(e).start \in Clusters
  PROVE  /\ W(Entry(e).start) # <<>> /\ W(Entry(e).start)[1] = Entry(e).start
         /\ Entry(e).start \in ToSet(W(Entry(e).start))
<1>1. Entry(e).start # 0 BY ClusterCount
<1>2. Written(Entry(e).start).error = "none" BY <1>1 DEF Sound, ChainOf
<1>3. IsChain(Written(Entry(e).start), image.fat[1], Entry(e).start) BY WrittenIs
<1>4. W(Entry(e).start) # <<>> /\ W(Entry(e).start)[1] = Entry(e).start BY <1>2, <1>3 DEF IsChain, W
<1>5. 1 \in DOMAIN W(Entry(e).start) BY <1>4, ChainsTyped
<1> QED BY <1>4, <1>5 DEF ToSet

\* An entry lies in one directory.
LEMMA HomeIs ==
  ASSUME Sound, Counted(image), NEW d \in Live, NEW x \in ToSet(WrittenIn(d))
  PROVE  /\ x[1] = "data" /\ x[2] \in ToSet(W(Entry(d).start)) /\ x \in Places
         /\ \A e \in Live : x[2] \in ToSet(W(Entry(e).start)) => e = d
         /\ \A e \in Live : x \in ToSet(WrittenIn(e)) => e = d
<1>1. \A e : x \in ToSet(WrittenIn(e)) => x[1] = "data" /\ x[2] \in ToSet(W(Entry(e).start)) /\ x \in Places
  BY WrittenListing, ContentsIs
<1>2. ASSUME NEW e \in Live, x[2] \in ToSet(W(Entry(e).start)) PROVE e = d
  BY <1>1, <1>2, Disjoint
<1> QED BY <1>1, <1>2

\* What lies in a directory is a level below it.
LEMMA LevelsBelow ==
  ASSUME Sound, Counted(image), NEW d \in LiveDirs, NEW x \in LiveIn(WrittenIn(d)),
         NEW n \in 0 .. MaxDepth, n > 0 => d \notin LiveTo[n - 1]
  PROVE  x \notin LiveTo[n]
<1>1. SUFFICES ASSUME x \in LiveTo[n] PROVE FALSE OBVIOUS
<1>2. x \in ToSet(WrittenIn(d)) /\ d \in Live BY LiveInListing DEF LiveDirs
<1>3. x[1] = "data" BY <1>2, HomeIs
<1>4. x \notin LiveIn(RootEntries) BY <1>3, RootIs, LiveInListing
<1>5. n \in 0 .. MaxDepth + 1 BY FatAssumption
<1>6. n > 0 /\ \E e \in LiveTo[n - 1] : Entry(e).kind = "dir" /\ x \in LiveIn(WrittenIn(e))
  BY <1>1, <1>4, <1>5, LevelOf
<1>7. PICK e \in LiveTo[n - 1] : Entry(e).kind = "dir" /\ x \in LiveIn(WrittenIn(e)) BY <1>6
<1>8. LiveTo[n - 1] \subseteq Live
  <2> DEFINE T == {k \in Nat : n - 1 + k \in 0 .. MaxDepth => LiveTo[n - 1] \subseteq LiveTo[n - 1 + k]}
  <2>1. 0 \in T BY <1>6, FatAssumption
  <2>2. ASSUME NEW k \in Nat, k \in T PROVE k + 1 \in T
    <3>1. SUFFICES ASSUME n - 1 + (k + 1) \in 0 .. MaxDepth PROVE LiveTo[n - 1] \subseteq LiveTo[n - 1 + (k + 1)] OBVIOUS
    <3>2. n - 1 + k \in 0 .. MaxDepth /\ (n - 1 + k) + 1 = n - 1 + (k + 1) BY <1>6, <3>1, FatAssumption
    <3>3. LiveTo[n - 1 + k] \subseteq LiveTo[(n - 1 + k) + 1] BY <3>2, LiveToGrows
    <3>4. LiveTo[n - 1] \subseteq LiveTo[n - 1 + k] BY <2>2, <3>2
    <3> QED BY <3>2, <3>3, <3>4
  <2> HIDE DEF T
  <2>3. Nat \subseteq T BY <2>1, <2>2, Counting
  <2>4. MaxDepth - (n - 1) \in Nat /\ n - 1 + (MaxDepth - (n - 1)) = MaxDepth /\ MaxDepth \in 0 .. MaxDepth
    BY <1>6, FatAssumption
  <2> QED BY <2>3, <2>4 DEF T, Live
<1>9. e \in Live /\ x \in ToSet(WrittenIn(e)) BY <1>7, <1>8, LiveInListing
<1>10. e = d BY <1>2, <1>9, HomeIs
<1> QED BY <1>6, <1>7, <1>10

\* Every allocated cluster is in the chain of a live entry, which goes on from it.
LEMMA Predecessor ==
  ASSUME Sound, NEW c \in Clusters, image.fat[1][c] \in Clusters
  PROVE  \E e \in Live : \E i \in DOMAIN W(Entry(e).start) :
           /\ W(Entry(e).start)[i] = c
           /\ i + 1 \in DOMAIN W(Entry(e).start) /\ W(Entry(e).start)[i + 1] = image.fat[1][c]
<1>1. PICK e \in Live : c \in ToSet(ChainOf(e).clusters) BY DEF Sound
<1> DEFINE w == W(Entry(e).start)
<1>2. Entry(e).start # 0
  <2>1. Entry(e).start = 0 => ToSet(ChainOf(e).clusters) = {} BY DEF ChainOf, NoChain, ToSet
  <2> QED BY <1>1, <2>1
<1>3. ChainOf(e) = Written(Entry(e).start) BY <1>2 DEF ChainOf
<1>4. c \in ToSet(w) BY <1>1, <1>3 DEF W
<1>5. /\ w \in Seq(Clusters) /\ w # <<>> /\ image.fat[1][w[Len(w)]] = End
      /\ \A i \in DOMAIN w : i # 1 => i - 1 \in DOMAIN w /\ image.fat[1][w[i - 1]] = w[i]
  <2>1. Written(Entry(e).start).error = "none" BY <1>3 DEF Sound
  <2> QED BY <2>1, WrittenIs DEF IsChain, W
<1> HIDE DEF w
<1>6. PICK i \in DOMAIN w : w[i] = c BY <1>4 DEF ToSet
<1>7. End \notin Clusters BY ClusterCount DEF End
<1>8. i # Len(w) BY <1>5, <1>6, <1>7
<1>9. i + 1 \in DOMAIN w /\ i + 1 # 1 /\ (i + 1) - 1 = i BY <1>5, <1>6, <1>8
<1>10. w[i + 1] = image.fat[1][c] BY <1>5, <1>6, <1>9
<1> QED BY <1>6, <1>9, <1>10 DEF w

-----------------------------------------------------------------------------
(* What can be read from some entries on.                                  *)

Onward(s, closed) ==
  s \cup UNION {ReadOf(e) : e \in {e \in s : Entry(e).kind = "dir" /\ Entry(e).start \notin closed}}
IsReadFrom(f, N, start, closed) ==
  f = [n \in 0 .. N |-> IF n = 0 THEN start ELSE Onward(f[n - 1], closed)]

\* The same of what can be read from a start: it exists ...
LEMMA ReadFromExists ==
  ASSUME NEW start, NEW closed
  PROVE  \A N \in Nat : \E f : IsReadFrom(f, N, start, closed)
<1> DEFINE T == {N \in Nat : \E f : IsReadFrom(f, N, start, closed)}
<1>1. 0 \in T
  <2> DEFINE f == [n \in 0 .. 0 |-> start]
  <2>1. \A n \in 0 .. 0 : n = 0 OBVIOUS
  <2>2. f = [n \in 0 .. 0 |-> IF n = 0 THEN start ELSE Onward(f[n - 1], closed)] BY <2>1
  <2>3. IsReadFrom(f, 0, start, closed) BY <2>2 DEF IsReadFrom
  <2> QED BY <2>3
<1>2. ASSUME NEW N \in Nat, N \in T PROVE N + 1 \in T
  <2>1. PICK g : IsReadFrom(g, N, start, closed) BY <1>2
  <2> DEFINE f == [n \in 0 .. N + 1 |-> IF n <= N THEN g[n] ELSE Onward(g[N], closed)]
  <2>2. ASSUME NEW n \in 0 .. N + 1
        PROVE f[n] = IF n = 0 THEN start ELSE Onward(f[n - 1], closed)
    <3>1. CASE n <= N
      <4>1. n \in 0 .. N /\ f[n] = g[n] BY <3>1
      <4>2. g[n] = IF n = 0 THEN start ELSE Onward(g[n - 1], closed) BY <4>1, <2>1 DEF IsReadFrom
      <4>3. n # 0 => n - 1 \in 0 .. N + 1 /\ n - 1 <= N BY <4>1
      <4>4. n # 0 => f[n - 1] = g[n - 1] BY <4>3
      <4> HIDE DEF f
      <4> QED BY <4>1, <4>2, <4>4
    <3>2. CASE ~(n <= N)
      <4>1. n = N + 1 /\ n - 1 = N /\ N \in 0 .. N + 1 /\ n # 0 BY <3>2
      <4>2. f[n] = Onward(g[N], closed) /\ f[N] = g[N] BY <4>1
      <4> HIDE DEF f
      <4> QED BY <4>1, <4>2
    <3> QED BY <3>1, <3>2
  <2>3. f = [n \in 0 .. N + 1 |-> f[n]] OBVIOUS
  <2> HIDE DEF f
  <2>4. IsReadFrom(f, N + 1, start, closed) BY <2>2, <2>3, Zenon DEF IsReadFrom
  <2> QED BY <2>4
<1> HIDE DEF T
<1>3. Nat \subseteq T BY <1>1, <1>2, Counting
<1> QED BY <1>3 DEF T

\* ... and is reached step by step.
LEMMA ReadFromIs ==
  ASSUME NEW start, NEW closed
  PROVE  \E to : /\ to[0] = start
                 /\ \A n \in 1 .. MaxDepth : to[n] = Onward(to[n - 1], closed)
                 /\ ReadFrom(start, closed) = to[MaxDepth]
<1>1. MaxDepth \in Nat BY FatAssumption
<1>2. \E f : IsReadFrom(f, MaxDepth, start, closed) BY <1>1, ReadFromExists
<1> DEFINE to == CHOOSE f : IsReadFrom(f, MaxDepth, start, closed)
<1>3. IsReadFrom(to, MaxDepth, start, closed) BY <1>2, Zenon
<1>4. ReadFrom(start, closed) = to[MaxDepth] BY DEF ReadFrom, IsReadFrom, Onward
<1> HIDE DEF to
<1>5. to[0] = start
  <2>1. 0 \in 0 .. MaxDepth BY <1>1
  <2> QED BY <1>3, <2>1 DEF IsReadFrom
<1>6. ASSUME NEW n \in 1 .. MaxDepth PROVE to[n] = Onward(to[n - 1], closed)
  <2>1. n \in 0 .. MaxDepth /\ n # 0 BY <1>1
  <2> QED BY <1>3, <2>1 DEF IsReadFrom
<1> QED BY <1>4, <1>5, <1>6

\* Levels that grow are below the last one.
LEMMA Growing ==
  ASSUME NEW f, NEW N \in Nat, \A n \in 1 .. N : f[n - 1] \subseteq f[n], NEW m \in 0 .. N
  PROVE  f[m] \subseteq f[N]
<1> DEFINE T == {k \in Nat : m + k <= N => f[m] \subseteq f[m + k]}
<1>1. 0 \in T
  <2>1. m + 0 = m OBVIOUS
  <2> QED BY <2>1
<1>2. ASSUME NEW k \in Nat, k \in T PROVE k + 1 \in T
  <2>1. SUFFICES ASSUME m + (k + 1) <= N PROVE f[m] \subseteq f[m + (k + 1)] OBVIOUS
  <2>2. m + (k + 1) \in 1 .. N /\ (m + (k + 1)) - 1 = m + k /\ m + k <= N BY <2>1
  <2>3. f[(m + (k + 1)) - 1] \subseteq f[m + (k + 1)] BY <2>2
  <2>4. f[m] \subseteq f[m + k] BY <1>2, <2>2
  <2> QED BY <2>2, <2>3, <2>4
<1> HIDE DEF T
<1>3. Nat \subseteq T BY <1>1, <1>2, Counting
<1>4. N - m \in Nat /\ m + (N - m) = N /\ N <= N OBVIOUS
<1>5. N - m \in T BY <1>3, <1>4
<1> QED BY <1>4, <1>5 DEF T

\* A set that holds the first entries and with a directory what is read of it
\* holds everything that is read.
LEMMA ReadWithin ==
  ASSUME NEW start, NEW closed, NEW P, start \subseteq P,
         \A e \in P : Entry(e).kind = "dir" /\ Entry(e).start \notin closed => ReadOf(e) \subseteq P
  PROVE  ReadFrom(start, closed) \subseteq P
<1>1. MaxDepth \in Nat BY FatAssumption
<1>2. PICK to : /\ to[0] = start
                /\ \A n \in 1 .. MaxDepth : to[n] = Onward(to[n - 1], closed)
                /\ ReadFrom(start, closed) = to[MaxDepth]
  BY ReadFromIs
<1> DEFINE T == {n \in Nat : n <= MaxDepth => to[n] \subseteq P}
<1>3. 0 \in T BY <1>2
<1>4. ASSUME NEW n \in Nat, n \in T PROVE n + 1 \in T
  <2>1. SUFFICES ASSUME n + 1 <= MaxDepth PROVE to[n + 1] \subseteq P OBVIOUS
  <2>2. n + 1 \in 1 .. MaxDepth /\ (n + 1) - 1 = n /\ n <= MaxDepth BY <1>1, <2>1
  <2>3. to[n] \subseteq P BY <1>4, <2>2
  <2>4. to[n + 1] = Onward(to[n], closed) BY <1>2, <2>2
  <2> QED BY <2>3, <2>4 DEF Onward
<1> HIDE DEF T
<1>5. Nat \subseteq T BY <1>3, <1>4, Counting
<1>6. MaxDepth \in T /\ MaxDepth <= MaxDepth BY <1>1, <1>5
<1> QED BY <1>2, <1>6 DEF T

\* And what is read was among the first entries, or is read of a directory.
LEMMA ReadThrough ==
  ASSUME NEW start, NEW closed, NEW x \in ReadFrom(start, closed)
  PROVE  \/ x \in start
         \/ \E d \in ReadFrom(start, closed) :
              Entry(d).kind = "dir" /\ Entry(d).start \notin closed /\ x \in ReadOf(d)
<1>1. MaxDepth \in Nat BY FatAssumption
<1>2. PICK to : /\ to[0] = start
                /\ \A n \in 1 .. MaxDepth : to[n] = Onward(to[n - 1], closed)
                /\ ReadFrom(start, closed) = to[MaxDepth]
  BY ReadFromIs
<1>3. \A n \in 1 .. MaxDepth : to[n - 1] \subseteq to[n] BY <1>2 DEF Onward
<1>4. \A n \in 0 .. MaxDepth : to[n] \subseteq to[MaxDepth] BY <1>1, <1>3, Growing
<1> DEFINE Through == \E d \in to[MaxDepth] :
             Entry(d).kind = "dir" /\ Entry(d).start \notin closed /\ x \in ReadOf(d)
           T == {n \in Nat : n <= MaxDepth /\ x \in to[n] => x \in start \/ Through}
<1>5. 0 \in T BY <1>2
<1>6. ASSUME NEW n \in Nat, n \in T PROVE n + 1 \in T
  <2>1. SUFFICES ASSUME n + 1 <= MaxDepth, x \in to[n + 1] PROVE x \in start \/ Through OBVIOUS
  <2>2. n + 1 \in 1 .. MaxDepth /\ (n + 1) - 1 = n /\ n <= MaxDepth /\ n \in 0 .. MaxDepth BY <1>1, <2>1
  <2>3. to[n + 1] = Onward(to[n], closed) BY <1>2, <2>2
  <2>4. x \in to[n] \/ \E d \in to[n] : Entry(d).kind = "dir" /\ Entry(d).start \notin closed /\ x \in ReadOf(d)
    BY <2>1, <2>3 DEF Onward
  <2>5. CASE x \in to[n] BY <1>6, <2>2, <2>5
  <2>6. CASE x \notin to[n]
    <3>1. to[n] \subseteq to[MaxDepth] BY <1>4, <2>2
    <3>2. Through BY <2>4, <2>6, <3>1
    <3> QED BY <3>2
  <2> QED BY <2>5, <2>6
<1> HIDE DEF T, Through
<1>7. Nat \subseteq T BY <1>5, <1>6, Counting
<1>8. MaxDepth \in T /\ MaxDepth <= MaxDepth BY <1>1, <1>7
<1>9. x \in to[MaxDepth] BY <1>2
<1>10. x \in start \/ Through BY <1>8, <1>9 DEF T
<1> QED BY <1>2, <1>10 DEF Through

\* A finite set of numbers in ascending order.
InOrder(s) == \A i, j \in DOMAIN s : i < j => s[i] < s[j]

\* A finite set of numbers has a greatest.
LEMMA Greatest ==
  ASSUME NEW A, A \subseteq Nat, IsFiniteSet(A), A # {}
  PROVE  \E x \in A : \A y \in A : y <= x
<1> DEFINE T == {n \in Nat : \A B : B \subseteq Nat /\ IsFiniteSet(B) /\ Cardinality(B) = n /\ B # {}
                               => \E x \in B : \A y \in B : y <= x}
<1>1. 0 \in T
  <2>1. ASSUME NEW B, IsFiniteSet(B), Cardinality(B) = 0 PROVE B = {} BY <2>1, FS_EmptySet
  <2> QED BY <2>1
<1>2. ASSUME NEW n \in Nat, n \in T PROVE n + 1 \in T
  <2>1. SUFFICES ASSUME NEW B, B \subseteq Nat, IsFiniteSet(B), Cardinality(B) = n + 1, B # {}
                 PROVE \E x \in B : \A y \in B : y <= x
    OBVIOUS
  <2>2. PICK b \in B : TRUE BY <2>1
  <2>3. IsFiniteSet(B \ {b}) /\ Cardinality(B \ {b}) = n
    <3>1. IsFiniteSet(B \ {b}) /\ Cardinality(B \ {b}) = Cardinality(B) - 1
      BY <2>1, <2>2, FS_RemoveElement
    <3> QED BY <2>1, <3>1
  <2>4. CASE B \ {b} = {}
    <3>1. \A y \in B : y = b /\ y \in Nat BY <2>1, <2>4
    <3> QED BY <2>2, <3>1
  <2>5. CASE B \ {b} # {}
    <3>1. PICK x \in B \ {b} : \A y \in B \ {b} : y <= x BY <1>2, <2>1, <2>3, <2>5
    <3>2. x \in Nat /\ b \in Nat BY <2>1, <2>2, <3>1
    <3>3. CASE b <= x BY <2>2, <3>1, <3>3
    <3>4. CASE ~(b <= x)
      <4>1. \A y \in B : y <= b BY <2>1, <2>2, <3>1, <3>2, <3>4
      <4> QED BY <2>2, <4>1
    <3> QED BY <3>3, <3>4
  <2> QED BY <2>4, <2>5
<1> HIDE DEF T
<1>3. Nat \subseteq T BY <1>1, <1>2, Counting
<1>4. Cardinality(A) \in Nat BY FS_CardinalityType
<1>5. Cardinality(A) \in T BY <1>3, <1>4
<1> QED BY <1>5 DEF T

\* So it can be put in order.
LEMMA AscendingExists ==
  ASSUME NEW A, A \subseteq Nat, IsFiniteSet(A)
  PROVE  \E s \in [1 .. Cardinality(A) -> A] : InOrder(s)
<1> DEFINE Has(B) == \E s \in [1 .. Cardinality(B) -> B] : InOrder(s)
           T == {n \in Nat : \A B : B \subseteq Nat /\ IsFiniteSet(B) /\ Cardinality(B) = n => Has(B)}
<1>1. 0 \in T
  <2>1. SUFFICES ASSUME NEW B, IsFiniteSet(B), Cardinality(B) = 0 PROVE Has(B) OBVIOUS
  <2> DEFINE s == [i \in 1 .. 0 |-> 0]
  <2>2. s \in [1 .. 0 -> B] /\ InOrder(s) BY DEF InOrder
  <2> HIDE DEF s
  <2> QED BY <2>1, <2>2
<1>2. ASSUME NEW n \in Nat, n \in T PROVE n + 1 \in T
  <2>1. SUFFICES ASSUME NEW B, B \subseteq Nat, IsFiniteSet(B), Cardinality(B) = n + 1 PROVE Has(B) OBVIOUS
  <2>2. B # {}
    <3>1. Cardinality(B) # 0 BY <2>1
    <3> QED BY <3>1, FS_EmptySet
  <2>3. PICK b \in B : \A y \in B : y <= b BY <2>1, <2>2, Greatest
  <2>4. IsFiniteSet(B \ {b}) /\ Cardinality(B \ {b}) = n
    <3>1. IsFiniteSet(B \ {b}) /\ Cardinality(B \ {b}) = Cardinality(B) - 1
      BY <2>1, <2>3, FS_RemoveElement
    <3> QED BY <2>1, <3>1
  <2>5. Has(B \ {b}) BY <1>2, <2>1, <2>4
  <2>6. PICK r \in [1 .. n -> B \ {b}] : InOrder(r) BY <2>4, <2>5
  <2> DEFINE s == [i \in 1 .. n + 1 |-> IF i <= n THEN r[i] ELSE b]
  <2>7. ASSUME NEW i \in 1 .. n + 1
        PROVE  s[i] \in B /\ (i <= n => i \in 1 .. n /\ s[i] = r[i]) /\ (~(i <= n) => i = n + 1 /\ s[i] = b)
    <3>1. CASE i <= n
      <4>1. i \in 1 .. n /\ s[i] = r[i] BY <3>1
      <4> QED BY <3>1, <4>1
    <3>2. CASE ~(i <= n) BY <3>2, <2>3
    <3> QED BY <3>1, <3>2
  <2>8. DOMAIN s = 1 .. n + 1 /\ s = [i \in 1 .. n + 1 |-> s[i]] OBVIOUS
  <2> HIDE DEF s
  <2>9. s \in [1 .. n + 1 -> B] BY <2>7, <2>8
  <2>10. ASSUME NEW i \in 1 .. n + 1, NEW j \in 1 .. n + 1, i < j PROVE s[i] < s[j]
    <3>1. i <= n /\ s[i] = r[i] /\ i \in 1 .. n BY <2>7, <2>10
    <3>2. CASE j <= n
      <4>1. j \in 1 .. n /\ s[j] = r[j] BY <2>7, <3>2
      <4> QED BY <2>6, <2>10, <3>1, <4>1 DEF InOrder
    <3>3. CASE ~(j <= n)
      <4>1. s[j] = b BY <2>7, <3>3
      <4>2. r[i] \in B /\ r[i] # b BY <2>6, <3>1
      <4>3. r[i] \in Nat /\ b \in Nat /\ r[i] <= b BY <2>1, <2>3, <4>2
      <4> QED BY <3>1, <4>1, <4>2, <4>3
    <3> QED BY <3>2, <3>3
  <2>11. InOrder(s) BY <2>8, <2>10 DEF InOrder
  <2> QED BY <2>1, <2>9, <2>11
<1> HIDE DEF T
<1>3. Nat \subseteq T BY <1>1, <1>2, Counting
<1>4. Cardinality(A) \in Nat BY FS_CardinalityType
<1>5. Cardinality(A) \in T BY <1>3, <1>4
<1> QED BY <1>5 DEF T

\* Every number has one place in it.
LEMMA AscendingIs ==
  ASSUME NEW A, A \subseteq Nat, IsFiniteSet(A)
  PROVE  /\ Ascending(A) \in [1 .. Cardinality(A) -> A] /\ Cardinality(A) \in Nat
         /\ \A i, j \in DOMAIN Ascending(A) : Ascending(A)[i] = Ascending(A)[j] => i = j
         /\ \A a \in A : \E i \in DOMAIN Ascending(A) : Ascending(A)[i] = a
<1> DEFINE n == Cardinality(A)
           s == CHOOSE s \in [1 .. n -> A] : InOrder(s)
<1>1. \E r \in [1 .. n -> A] : InOrder(r) BY AscendingExists
<1>2. s \in [1 .. n -> A] /\ InOrder(s) BY <1>1, Zenon
<1>3. Ascending(A) = s BY DEF Ascending, InOrder
<1>4. n \in Nat BY FS_CardinalityType
<1> HIDE DEF s, n
<1>5. ASSUME NEW i \in 1 .. n, NEW j \in 1 .. n, s[i] = s[j] PROVE i = j
  <2>1. s[i] \in Nat /\ s[j] \in Nat BY <1>2
  <2>2. i < j => s[i] < s[j] BY <1>2 DEF InOrder
  <2>3. j < i => s[j] < s[i] BY <1>2 DEF InOrder
  <2> QED BY <1>4, <1>5, <2>1, <2>2, <2>3
<1>6. s \in Surjection(1 .. n, A)
  <2>1. s \in Injection(1 .. n, A)
    BY <1>2, <1>5 DEF Injection, IsInjective
  <2>2. IsFiniteSet(1 .. n) /\ Cardinality(1 .. n) = n
    <3>1. Cardinality(1 .. n) = IF 1 > n THEN 0 ELSE n - 1 + 1 BY <1>4, FS_Interval
    <3> QED BY <1>4, <3>1, FS_Interval
  <2>3. Cardinality(1 .. n) = Cardinality(A) BY <2>2 DEF n
  <2> QED BY <2>1, <2>3, FS_Injection
<1>7. \A a \in A : \E i \in 1 .. n : s[i] = a BY <1>6 DEF Surjection
<1>8. DOMAIN s = 1 .. n BY <1>2
<1>9. s \in [1 .. n -> A] /\ n \in Nat BY <1>2, <1>4
<1> QED BY <1>3, <1>5, <1>7, <1>8, <1>9 DEF n

-----------------------------------------------------------------------------
(* The root and the live directories, with what they list and what of it   *)
(* can be read.                                                            *)

Top == <<"top", 0, 0>>
Homes == {Top} \cup LiveDirs
Listing(d) == IF d = Top THEN RootEntries ELSE WrittenIn(d)
ReadPart(d) == IF d = Top THEN RootEntries ELSE Contents(Entry(d).start)

\* The root is not one of the directories that an entry names.
LEMMA TopIsNoEntry ==
  ASSUME Sound, Counted(image)
  PROVE  /\ \A x \in Live : x[1] \in {"root", "data"}
         /\ Top \notin LiveDirs
         /\ \A d \in LiveDirs : Listing(d) = WrittenIn(d) /\ ReadPart(d) = Contents(Entry(d).start)
<1>1. \A x \in Live : x[1] \in {"root", "data"} BY LiveIs
<1>2. Top[1] = "top" BY DEF Top
<1>3. Top \notin LiveDirs BY <1>1, <1>2 DEF LiveDirs
<1> QED BY <1>1, <1>3 DEF Listing, ReadPart

\* What can be read of a directory is the beginning of what it lists.
LEMMA Read ==
  ASSUME Sound, Counted(image), NEW d \in Homes
  PROVE  /\ DOMAIN Listing(d) = 1 .. Len(Listing(d)) /\ Len(Listing(d)) \in Nat /\ Orderly(Listing(d))
         /\ DOMAIN ReadPart(d) = 1 .. Len(ReadPart(d)) /\ Len(ReadPart(d)) \in Nat
         /\ \A i \in DOMAIN ReadPart(d) : i \in DOMAIN Listing(d) /\ ReadPart(d)[i] = Listing(d)[i]
         /\ \A i, j \in DOMAIN ReadPart(d) : ReadPart(d)[i] = ReadPart(d)[j] => i = j
         /\ \A x \in ToSet(Listing(d)) : x[1] \in {"root", "data"}
<1>1. CASE d = Top
  <2>1. Listing(d) = RootEntries /\ ReadPart(d) = RootEntries BY <1>1 DEF Listing, ReadPart
  <2>2. Orderly(RootEntries) BY DEF Sound
  <2> QED BY <2>1, <2>2, RootIs
<1>2. CASE d # Top
  <2>1. d \in LiveDirs BY <1>2 DEF Homes
  <2>2. Listing(d) = WrittenIn(d) /\ ReadPart(d) = Contents(Entry(d).start) BY <2>1, TopIsNoEntry
  <2>3. Orderly(WrittenIn(d)) /\ image.fat[1] = image.fat[2] BY <2>1 DEF Sound
  <2>4. WrittenIn(d) \in Seq(Places) /\ Contents(Entry(d).start) \in Seq(Places)
    BY <2>3, ContentsBegin
  <2>5. \A i \in DOMAIN Contents(Entry(d).start) :
          i \in DOMAIN WrittenIn(d) /\ Contents(Entry(d).start)[i] = WrittenIn(d)[i]
    BY <2>3, ContentsBegin
  <2>6. \A x \in Places : x[1] = "data" BY DEF Places
  <2>7. \A x \in ToSet(WrittenIn(d)) : x[1] = "data" BY <2>4, <2>6 DEF ToSet
  <2>8. \A i, j \in DOMAIN Contents(Entry(d).start) :
          Contents(Entry(d).start)[i] = Contents(Entry(d).start)[j] => i = j
    BY ContentsIs
  <2>9. DOMAIN WrittenIn(d) = 1 .. Len(WrittenIn(d)) /\ Len(WrittenIn(d)) \in Nat
        /\ DOMAIN Contents(Entry(d).start) = 1 .. Len(Contents(Entry(d).start))
        /\ Len(Contents(Entry(d).start)) \in Nat
    BY <2>4
  <2> QED BY <2>2, <2>3, <2>5, <2>7, <2>8, <2>9
<1> QED BY <1>1, <1>2

\* The live entries of a directory are live ones.
LEMMA LiveThere ==
  ASSUME Sound, Counted(image), NEW d \in Homes, NEW i \in DOMAIN Listing(d), IsLive(Listing(d)[i])
  PROVE  Listing(d)[i] \in LiveIn(Listing(d)) /\ Listing(d)[i] \in Live
<1>1. LiveIn(Listing(d)) = {Listing(d)[j] : j \in {j \in DOMAIN Listing(d) : IsLive(Listing(d)[j])}}
  BY Read, LiveInIs
<1>2. Listing(d)[i] \in LiveIn(Listing(d)) BY <1>1
<1>3. LiveIn(Listing(d)) \subseteq Live
  <2>1. CASE d = Top BY <2>1, LiveIs DEF Listing
  <2>2. CASE d # Top
    <3>1. d \in LiveDirs BY <2>2 DEF Homes
    <3> QED BY <3>1, TopIsNoEntry, LiveIs
  <2> QED BY <2>1, <2>2
<1> QED BY <1>2, <1>3

\* Every entry is in one directory.
LEMMA OneHome ==
  ASSUME Sound, Counted(image), NEW d \in Homes, NEW c \in Homes, NEW x,
         x \in ToSet(Listing(d)) \cup ToSet(ReadPart(d)), x \in ToSet(Listing(c)) \cup ToSet(ReadPart(c))
  PROVE  d = c
<1>1. \A e \in Homes : ToSet(ReadPart(e)) \subseteq ToSet(Listing(e))
  <2> SUFFICES ASSUME NEW e \in Homes, NEW y \in ToSet(ReadPart(e)) PROVE y \in ToSet(Listing(e)) OBVIOUS
  <2>1. PICK i \in DOMAIN ReadPart(e) : y = ReadPart(e)[i] BY DEF ToSet
  <2>2. i \in DOMAIN Listing(e) /\ y = Listing(e)[i] BY <2>1, Read
  <2> QED BY <2>2 DEF ToSet
<1>2. x \in ToSet(Listing(d)) /\ x \in ToSet(Listing(c)) BY <1>1
<1>3. \A e \in Homes : e = Top \/ (e \in LiveDirs /\ e \in Live /\ Listing(e) = WrittenIn(e))
  BY TopIsNoEntry DEF Homes, LiveDirs
<1>4. ASSUME NEW e \in Homes, x \in ToSet(Listing(e)) PROVE (e = Top) <=> (x[1] = "root")
  <2>1. CASE e = Top BY <1>4, <2>1, RootIs DEF Listing
  <2>2. CASE e # Top
    <3>1. e \in Live /\ x \in ToSet(WrittenIn(e)) BY <1>3, <1>4, <2>2
    <3>2. x[1] = "data" BY <3>1, HomeIs
    <3> QED BY <2>2, <3>2
  <2> QED BY <2>1, <2>2
<1>5. (d = Top) <=> (c = Top) BY <1>2, <1>4
<1>6. CASE d # Top
  <2>1. d \in Live /\ c \in Live /\ x \in ToSet(WrittenIn(d)) /\ x \in ToSet(WrittenIn(c)) BY <1>2, <1>3, <1>5, <1>6
  <2> QED BY <2>1, HomeIs
<1> QED BY <1>5, <1>6

\* Every live entry is in a directory.
LEMMA SomeHome ==
  ASSUME Sound, Counted(image), NEW x \in Live
  PROVE  \E d \in Homes : x \in LiveIn(Listing(d))
<1>1. CASE x \in LiveIn(RootEntries)
  <2>1. Listing(Top) = RootEntries /\ Top \in Homes BY DEF Listing, Homes
  <2> QED BY <1>1, <2>1
<1>2. CASE \E d \in LiveDirs : x \in LiveIn(WrittenIn(d))
  <2>1. PICK d \in LiveDirs : x \in LiveIn(WrittenIn(d)) BY <1>2
  <2>2. Listing(d) = WrittenIn(d) /\ d \in Homes BY TopIsNoEntry DEF Homes
  <2> QED BY <2>1, <2>2
<1> QED BY <1>1, <1>2, LiveIs

\* Two directories that start at the same cluster are one.
LEMMA SameStart ==
  ASSUME Sound, NEW d \in Live, NEW c \in Live, Entry(d).start = Entry(c).start, Entry(d).start \in Clusters
  PROVE  d = c
BY StartIs, Disjoint

\* A directory of which something can be read starts at a cluster.
LEMMA Started ==
  ASSUME Counted(image), NEW s, NEW x \in ToSet(Contents(s))
  PROVE  s \in Clusters
<1>1. SUFFICES ASSUME s \notin Clusters PROVE FALSE OBVIOUS
<1>2. Contents(s) = <<>> BY <1>1, NoStart, EmptyListing DEF Contents
<1> QED BY <1>2 DEF ToSet

\* A name can be had of a listing in part as of the whole.
LEMMA SameNames ==
  ASSUME Sound, Counted(image), NEW d \in Homes, NEW i \in DOMAIN ReadPart(d)
  PROVE  NamesIn(ReadPart(d), i) = NamesIn(Listing(d), i)
<1>1. i \in 1 .. Len(ReadPart(d)) /\ Len(ReadPart(d)) \in Nat BY Read
<1>2. i > 1 => i - 1 \in DOMAIN ReadPart(d) BY <1>1, Read
<1>3. ReadPart(d)[i] = Listing(d)[i] /\ (i > 1 => ReadPart(d)[i - 1] = Listing(d)[i - 1]) BY <1>2, Read
<1> QED BY <1>3 DEF NamesIn

\* Two live entries of a directory with a name in common are the same.
LEMMA NamesDiffer ==
  ASSUME Sound, Counted(image), NEW d \in Homes, NEW i \in DOMAIN ReadPart(d), NEW j \in DOMAIN ReadPart(d),
         IsLive(ReadPart(d)[i]), IsLive(ReadPart(d)[j]),
         NEW n \in NamesIn(ReadPart(d), i), n \in NamesIn(ReadPart(d), j)
  PROVE  i = j
<1>1. n \in NamesIn(Listing(d), i) /\ n \in NamesIn(Listing(d), j) BY SameNames
<1>2. i \in DOMAIN Listing(d) /\ j \in DOMAIN Listing(d) /\ IsLive(Listing(d)[i]) /\ IsLive(Listing(d)[j])
  BY Read
<1>3. i # j => NamesIn(Listing(d), i) \cap NamesIn(Listing(d), j) = {} BY <1>2, Read DEF Orderly
<1> QED BY <1>1, <1>3

\* What is read of a directory's live entries.
LEMMA ReadOfIs ==
  ASSUME Sound, Counted(image), NEW d \in LiveDirs, NEW x
  PROVE  x \in ReadOf(d) <=> x \in ToSet(ReadPart(d)) /\ x \in Live /\ SectorOf(x) \notin bad
<1> DEFINE E == ReadPart(d)
<1>0. d \in Homes BY DEF Homes
<1>1. ReadOf(d) = ReadIn(E) BY TopIsNoEntry DEF ReadOf, Contents
<1>2. DOMAIN E = 1 .. Len(E) /\ Len(E) \in Nat BY <1>0, Read
<1>3. \A i \in DOMAIN E : i \in DOMAIN Listing(d) /\ E[i] = Listing(d)[i] BY <1>0, Read
<1> HIDE DEF E
<1>4. Orderly(Listing(d)) BY <1>0, Read
<1>5. LiveIn(E) = {E[i] : i \in {i \in DOMAIN E : IsLive(E[i])}}
  <2>1. ASSUME NEW i \in DOMAIN E, IsLive(E[i]), NEW j \in 1 .. i - 1
        PROVE  Entry(E[j]).kind # "end"
    <3>1. j \in DOMAIN E /\ j < i BY <1>2, <2>1
    <3>2. i \in DOMAIN Listing(d) /\ j \in DOMAIN Listing(d) /\ E[i] = Listing(d)[i] /\ E[j] = Listing(d)[j]
      BY <1>3, <3>1
    <3>3. Entry(E[j]).kind = "end" => Entry(E[i]).kind = "end" BY <1>4, <3>1, <3>2 DEF Orderly
    <3> QED BY <2>1, <3>3 DEF IsLive
  <2> QED BY <2>1 DEF LiveIn
<1>6. ASSUME NEW i \in DOMAIN E, IsLive(E[i]) PROVE E[i] \in Live
  <2>1. i \in DOMAIN Listing(d) /\ E[i] = Listing(d)[i] BY <1>3
  <2> QED BY <1>0, <1>6, <2>1, LiveThere
<1>7. \A y \in Live : IsLive(y) BY LiveIs
<1>8. x \in LiveIn(E) <=> x \in ToSet(E) /\ x \in Live BY <1>5, <1>6, <1>7 DEF ToSet
<1> QED BY <1>1, <1>8 DEF ReadIn, E

\* What can be read of the root.
LEMMA ReadInRoot ==
  ASSUME Sound, Counted(image), NEW x
  PROVE  x \in ReadIn(RootEntries) <=> x \in ToSet(RootEntries) /\ x \in Live /\ SectorOf(x) \notin bad
<1>1. LiveIn(RootEntries) = {RootEntries[i] : i \in {i \in DOMAIN RootEntries : IsLive(RootEntries[i])}}
  <2>1. Orderly(RootEntries) BY DEF Sound
  <2> QED BY <2>1, RootIs, LiveInIs
<1>2. LiveIn(RootEntries) \subseteq Live /\ \A y \in Live : IsLive(y) BY LiveIs
<1>3. x \in LiveIn(RootEntries) <=> x \in ToSet(RootEntries) /\ x \in Live BY <1>1, <1>2 DEF ToSet
<1> QED BY <1>3 DEF ReadIn

-----------------------------------------------------------------------------
(* What the traversal keeps, on a floppy without a fault.                  *)

StartOf(e) == IF e[1] = "lost" THEN e[2] ELSE Entry(e).start
LostClaim(h) == <<<<h>>, <<"lost", h, 0>>>>
Names == {0} \cup Clusters
         \cup UNION {{Entry(x).alias, Entry(x).name} : x \in ToSet(RootEntries) \cup Places}
Keyed == Seq(Names) \ {<<>>}
Named(e) == \E p \in named : p[2] = e

\* A directory goes by a key, and was entered.
Opens(k, d) == IF d = Top THEN k = <<0>>
               ELSE (k = <<Entry(d).start>> /\ Entry(d).start \in Taken) \/ <<k, d>> \in named
Entered(d) == d = Top \/ Entry(d).start \in seen

\* A name is given by the directory of the entry that bears it.
Given(p) ==
  \E d \in Homes, k \in Keyed, n \in Names : \E i \in DOMAIN ReadPart(d) :
    /\ p = <<Append(k, n), ReadPart(d)[i]>> /\ n \in NamesIn(ReadPart(d), i)
    /\ Opens(k, d) /\ Entered(d)
    /\ ReadPart(d)[i] \in Live /\ SectorOf(ReadPart(d)[i]) \notin bad
NamedInv == \A p \in named : (\E h \in Taken : p = LostClaim(h)) \/ Given(p)
\* One entry to a key.
Apart == \A p, q \in named : p[1] = q[1] => p[2] = q[2]
TakenInv == Taken \subseteq seen /\ \A h \in Taken : \E d \in LiveDirs : Entry(d).start = h
SeenInv == \A s \in seen : s \in Taken \/ \E p \in named : p[2] \in LiveDirs /\ Entry(p[2]).start = s

\* A claim is a name's, one to an entry, on what can be had of its chain.
OwnersInv ==
  /\ \A q \in owners : q = <<q[1], q[2]>> /\ q[2] \in named /\ q[1] \in Held(StartOf(q[2][2]))
  /\ \A q, r \in owners : q[2][2] = r[2][2] => q[2] = r[2]
  /\ \A p \in named : Held(StartOf(p[2])) \subseteq Owned

\* A directory in the queue is one that was entered, and no nearer to the root
\* than its depth.
Directories == [key : Keyed, entries : {ReadPart(d) : d \in Homes}, ancestors : SUBSET Clusters,
                depth : 0 .. MaxDepth, keys : SUBSET Keyed]
Sourced(D) ==
  \E d \in Homes : /\ D.entries = ReadPart(d) /\ Opens(D.key, d) /\ Entered(d)
                   /\ D.depth > 0 => \A x \in LiveIn(Listing(d)) : x \notin LiveTo[D.depth - 1]
QueueInv == queue \in Seq(Directories) /\ \A i \in DOMAIN queue : Sourced(queue[i])
PendingInv ==
  \/ pending = {}
  \/ /\ queue # <<>> /\ pos > 1 /\ pos - 1 \in DOMAIN Dir.entries
     /\ pending = {Entry(Dir.entries[pos - 1])} /\ Entry(Dir.entries[pos - 1]).kind = "long"

\* What waits in the queue waits once and has no name yet; what can be read and
\* does not wait has one.
Waits(e) == \E i \in DOMAIN queue : \E j \in DOMAIN queue[i].entries :
              (i > 1 \/ j >= pos) /\ queue[i].entries[j] = e
WaitingInv ==
  /\ \A i, k \in DOMAIN queue : i # k => ToSet(queue[i].entries) \cap ToSet(queue[k].entries) = {}
  /\ \A e : Waits(e) => ~Named(e)
ProgressInv ==
  phase \in {"scan", "judged"} =>
    \A d \in Homes : Entered(d) =>
      \A x \in ToSet(ReadPart(d)) : x \in Live /\ SectorOf(x) \notin bad => Named(x) \/ Waits(x)
\* A file with a name was found, a directory entered, if it lists anything.
VisitedInv ==
  \A p \in named : p[2] \in Live =>
    IF Entry(p[2]).kind = "file" THEN \E f \in found : f.claim[2] = p[2]
    ELSE Entry(p[2]).start \in seen \/ LiveIn(WrittenIn(p[2])) = {}
FoundInv == \A f \in found : /\ f.claim \in named /\ f.claim[2] \in Live
                             /\ Entry(f.claim[2]).kind = "file" /\ f.size = Entry(f.claim[2]).size

\* Directories of which each, unless it was taken for a lost one, is in the root
\* or in another of them, have all ancestors of what is in them.
Trees == {d \in LiveDirs : Entry(d).start \in Clusters}
Within(x, H) == \E d \in H \cup {Top} : x \in ToSet(ReadPart(d))
Closed(H) == \A d \in H : Entry(d).start \notin Taken => Within(d, H)
Span(H) == UNION {Held(Entry(d).start) : d \in H}
PathInv ==
  \A H \in SUBSET Trees : Closed(H) =>
    /\ \A i \in DOMAIN queue : \A x \in ToSet(queue[i].entries) :
         Within(x, H) => queue[i].ancestors \subseteq Span(H)
    /\ \A f \in found : Within(f.claim[2], H) => f.ancestors \subseteq Span(H)

\* The search takes every directory that gives itself away, and none that can
\* be reached from the root.
SearchInv ==
  /\ ~searched => Taken = {}
  /\ searched => /\ \A e \in Alone : Entry(e).start \in Taken
                 /\ \A e \in Rooted : Entry(e).kind = "dir" => Entry(e).start \notin Taken
ShapeInv ==
  /\ pos \in Nat \ {0}
  /\ queue = <<>> => pos = 1 /\ pending = {}
  /\ phase # "scan" => queue = <<>>
  /\ phase \in {"layout", "unknown"} => named = {} /\ owners = {} /\ found = {} /\ seen = {} /\ ~searched
  /\ phase = "judged" => searched

Tree == /\ NamedInv /\ Apart /\ TakenInv /\ SeenInv /\ OwnersInv /\ QueueInv /\ PendingInv /\ WaitingInv
        /\ ProgressInv /\ VisitedInv /\ FoundInv /\ PathInv /\ SearchInv /\ ShapeInv
TreeInv == Counted(image) /\ (Sound => Tree)

-----------------------------------------------------------------------------
\* The floppy does not change.
Same ==
  /\ \A s : Chain(s)' = Chain(s) /\ Written(s)' = Written(s) /\ Held(s)' = Held(s) /\ Contents(s)' = Contents(s)
  /\ \A e : Entry(e)' = Entry(e) /\ StartOf(e)' = StartOf(e)
  /\ \A d : Listing(d)' = Listing(d) /\ ReadPart(d)' = ReadPart(d) /\ WrittenIn(d)' = WrittenIn(d)
  /\ \A E, i : NamesIn(E, i)' = NamesIn(E, i)
  /\ \A E : LiveIn(E)' = LiveIn(E)
  /\ RootEntries' = RootEntries /\ LiveTo' = LiveTo /\ Live' = Live /\ LiveDirs' = LiveDirs /\ Homes' = Homes
  /\ Trees' = Trees
  /\ \A H : Span(H)' = Span(H) /\ \A x : Within(x, H)' = Within(x, H)
  /\ Names' = Names /\ Keyed' = Keyed /\ Directories' = Directories /\ Rooted' = Rooted
  /\ \A h : Traces(h)' = Traces(h)
  /\ Counted(image)' = Counted(image) /\ Sound' = Sound /\ image' = image /\ bad' = bad

\* As long as the saved image and its bad sectors are the same.
LEMMA Unchanged == ASSUME UNCHANGED saved PROVE Same
<1>1. \A s : Chain(s)' = Chain(s) BY DEF Chain, Links, Link, saved, FatSectors
<1>2. \A s : Written(s)' = Written(s) BY DEF Written, saved
<1>3. \A e : Entry(e)' = Entry(e) BY DEF Entry, saved
<1>4. \A e : EntriesOf(e)' = EntriesOf(e) BY DEF EntriesOf, saved
<1>5. \A E : LiveIn(E)' = LiveIn(E) BY <1>3 DEF LiveIn, IsLive
<1>6. \A c : EntriesOfChain(c)' = EntriesOfChain(c) BY <1>4 DEF EntriesOfChain
<1>7. \A e : WrittenIn(e)' = WrittenIn(e) BY <1>2, <1>3, <1>6 DEF WrittenIn
<1>8. RootEntries' = RootEntries BY DEF RootEntries, saved
<1>9. LiveTo' = LiveTo
  <2>1. \A s : Deeper(s)' = Deeper(s) BY <1>3, <1>5, <1>7 DEF Deeper
  <2>2. \A f, N : IsLiveTo(f, N)' <=> IsLiveTo(f, N) BY <1>5, <1>8, <2>1 DEF IsLiveTo
  <2>3. (CHOOSE f : IsLiveTo(f, MaxDepth + 1)) = CHOOSE f : IsLiveTo(f, MaxDepth + 1)' BY <2>2
  <2> QED BY <2>3 DEF LiveTo, IsLiveTo, Deeper
<1>10. Live' = Live /\ LiveDirs' = LiveDirs /\ Homes' = Homes BY <1>3, <1>9 DEF Live, LiveDirs, Homes, Top
<1>11. \A s : Held(s)' = Held(s) /\ Contents(s)' = Contents(s) BY <1>1, <1>6 DEF Held, Contents
<1>12. \A e : StartOf(e)' = StartOf(e) BY <1>3 DEF StartOf
<1>13. \A d : Listing(d)' = Listing(d) /\ ReadPart(d)' = ReadPart(d)
  BY <1>3, <1>7, <1>8, <1>11 DEF Listing, ReadPart, Top
<1>14. \A E, i : NamesIn(E, i)' = NamesIn(E, i) BY <1>3 DEF NamesIn
<1>15. Names' = Names /\ Keyed' = Keyed
  <2>1. Names' = Names BY <1>3, <1>8 DEF Names, Places
  <2> QED BY <2>1 DEF Keyed
<1>16. Directories' = Directories BY <1>10, <1>13, <1>15 DEF Directories
<1>17. bad' = bad /\ image' = image BY DEF saved
<1>18. Trees' = Trees BY <1>3, <1>10 DEF Trees
<1>19. \A H : Span(H)' = Span(H) BY <1>3, <1>11 DEF Span
<1>20. \A H, x : Within(x, H)' = Within(x, H) BY <1>13 DEF Within, Top
<1>21. \A E : HasChild(E)' = HasChild(E) BY <1>3, <1>17 DEF HasChild, SectorOf
<1>22. \A h : Traces(h)' = Traces(h) BY <1>1, <1>6, <1>17, <1>21 DEF Traces
<1>23. Rooted' = Rooted
  <2>1. \A E : ReadIn(E)' = ReadIn(E) BY <1>5, <1>17 DEF ReadIn, SectorOf
  <2>2. \A e : ReadOf(e)' = ReadOf(e) BY <1>1, <1>3, <1>6, <2>1 DEF ReadOf
  <2>3. \A s, c : Onward(s, c)' = Onward(s, c) BY <1>3, <2>2 DEF Onward
  <2>4. \A f, N, s, c : IsReadFrom(f, N, s, c)' <=> IsReadFrom(f, N, s, c) BY <2>3 DEF IsReadFrom
  <2> DEFINE to(s, c) == CHOOSE f : IsReadFrom(f, MaxDepth, s, c)
  <2>5. \A s, c : ReadFrom(s, c) = to(s, c)[MaxDepth] BY DEF ReadFrom, IsReadFrom, Onward
  <2>6. \A s, c : ReadFrom(s, c)' = to(s, c)'[MaxDepth] BY DEF ReadFrom, IsReadFrom, Onward
  <2>7. \A s, c : to(s, c)' = to(s, c) BY <2>4
  <2> HIDE DEF to
  <2>8. \A s, c : ReadFrom(s, c)' = ReadFrom(s, c) BY <2>5, <2>6, <2>7
  <2>9. ReadIn(RootEntries)' = ReadIn(RootEntries) BY <1>8, <2>1
  <2> QED BY <2>8, <2>9 DEF Rooted
<1>24. Counted(image)' = Counted(image) BY <1>17
<1>25. Sound' = Sound
  <2>1. \A E : Orderly(E)' = Orderly(E) BY <1>3, <1>14 DEF Orderly, IsLive
  <2>2. \A e : ChainOf(e)' = ChainOf(e) BY <1>2, <1>3 DEF ChainOf
  <2>3. DotsTrue' = DotsTrue BY <1>3, <1>5, <1>7, <1>8, <1>10, <1>17 DEF DotsTrue
  <2> QED BY <1>3, <1>7, <1>8, <1>9, <1>10, <1>17, <2>1, <2>2, <2>3 DEF Sound
<1> QED BY <1>1, <1>2, <1>3, <1>5, <1>7, <1>8, <1>9, <1>10, <1>11, <1>12, <1>13, <1>14, <1>15, <1>16,
           <1>17, <1>18, <1>19, <1>20, <1>22, <1>23, <1>24, <1>25 DEF Same

\* Names and directories known are never forgotten.
LEMMA Grown ==
  ASSUME Same, named \subseteq named', seen \subseteq seen'
  PROVE  /\ Taken \subseteq Taken'
         /\ \A k, d : Opens(k, d) => Opens(k, d)'
         /\ \A d : Entered(d) => Entered(d)'
         /\ \A p : Given(p) => Given(p)'
         /\ \A e : Named(e) => Named(e)'
         /\ \A D : Sourced(D) => Sourced(D)'
<1>1. Taken \subseteq Taken' BY DEF Taken
<1>2. ASSUME NEW k, NEW d, Opens(k, d) PROVE Opens(k, d)'
  <2>1. Entry(d)' = Entry(d) BY DEF Same
  <2>2. CASE d = Top BY <1>2, <2>2 DEF Opens, Top
  <2>3. CASE d # Top
    <3>1. d # Top' BY <2>3 DEF Top
    <3>2. (k = <<Entry(d).start>> /\ Entry(d).start \in Taken) \/ <<k, d>> \in named BY <1>2, <2>3 DEF Opens
    <3> QED BY <1>1, <2>1, <3>1, <3>2 DEF Opens
  <2> QED BY <2>2, <2>3
<1>3. \A d : Entered(d) => Entered(d)'
  <2>1. \A d : Entry(d)' = Entry(d) BY DEF Same
  <2> QED BY <2>1 DEF Entered, Top
<1>4. ASSUME NEW p, Given(p) PROVE Given(p)'
  <2>1. PICK d \in Homes, k \in Keyed, n \in Names : \E i \in DOMAIN ReadPart(d) :
          /\ p = <<Append(k, n), ReadPart(d)[i]>> /\ n \in NamesIn(ReadPart(d), i)
          /\ Opens(k, d) /\ Entered(d)
          /\ ReadPart(d)[i] \in Live /\ SectorOf(ReadPart(d)[i]) \notin bad
    BY <1>4 DEF Given
  <2>2. d \in Homes' /\ k \in Keyed' /\ n \in Names' /\ ReadPart(d)' = ReadPart(d) /\ Live' = Live /\ bad' = bad
        /\ \A E, i : NamesIn(E, i)' = NamesIn(E, i)
    BY DEF Same
  <2>3. Opens(k, d)' /\ Entered(d)' BY <1>2, <1>3, <2>1
  <2>4. PICK i \in DOMAIN ReadPart(d) :
          /\ p = <<Append(k, n), ReadPart(d)[i]>> /\ n \in NamesIn(ReadPart(d), i)
          /\ ReadPart(d)[i] \in Live /\ SectorOf(ReadPart(d)[i]) \notin bad
    BY <2>1
  <2>5. i \in DOMAIN (ReadPart(d)') BY <2>2, <2>4
  <2>6. /\ p = <<Append(k, n), ReadPart(d)'[i]>> /\ n \in NamesIn(ReadPart(d), i)'
        /\ ReadPart(d)'[i] \in Live' /\ SectorOf(ReadPart(d)'[i]) \notin bad'
    BY <2>2, <2>4
  <2> QED BY <2>2, <2>3, <2>5, <2>6 DEF Given, SectorOf, RootSector, DataSector
<1>5. \A e : Named(e) => Named(e)' BY DEF Named
<1>6. ASSUME NEW D, Sourced(D) PROVE Sourced(D)'
  <2>1. PICK d \in Homes : /\ D.entries = ReadPart(d) /\ Opens(D.key, d) /\ Entered(d)
                           /\ D.depth > 0 => \A x \in LiveIn(Listing(d)) : x \notin LiveTo[D.depth - 1]
    BY <1>6 DEF Sourced
  <2>2. Opens(D.key, d)' /\ Entered(d)' BY <1>2, <1>3, <2>1
  <2>3. d \in Homes' /\ ReadPart(d)' = ReadPart(d) /\ Listing(d)' = Listing(d) /\ LiveTo' = LiveTo
        /\ \A E : LiveIn(E)' = LiveIn(E)
    BY DEF Same
  <2> QED BY <2>1, <2>2, <2>3 DEF Sourced
<1> QED BY <1>1, <1>2, <1>3, <1>4, <1>5, <1>6

\* The floppy and the names as they were, the same directories are taken and the same entries named.
LEMMA Kept ==
  ASSUME Same, UNCHANGED named
  PROVE  Taken' = Taken /\ \A e : Named(e)' <=> Named(e)
BY DEF Taken, Named

\* A name that is not a lost directory's is not taken for one.
LEMMA SameTaken ==
  ASSUME NEW new, \A p \in new : p[2][1] # "lost", named' = named \cup new
  PROVE  Taken' = Taken
<1>1. \A h : LostClaim(h) \notin new
  <2>1. \A h : LostClaim(h)[2][1] = "lost" BY DEF LostClaim
  <2> QED BY <2>1
<1>2. \A h : LostClaim(h) \in named' <=> LostClaim(h) \in named BY <1>1
<1>3. Taken = {h \in Clusters : LostClaim(h) \in named} BY DEF Taken, LostClaim
<1>4. Taken' = {h \in Clusters : LostClaim(h) \in named'} BY DEF Taken, LostClaim
<1> QED BY <1>2, <1>3, <1>4

\* A directory's key opens no other.
LEMMA OneKey ==
  ASSUME Sound, Counted(image), NamedInv, Apart, TakenInv,
         NEW k, NEW d \in Homes, NEW c \in Homes, Opens(k, d), Opens(k, c)
  PROVE  d = c
<1>1. \A p \in named : p[2] \in LiveDirs => \E l \in Keyed, n \in Names : p[1] = Append(l, n)
  <2> SUFFICES ASSUME NEW p \in named, p[2] \in LiveDirs
               PROVE  \E l \in Keyed, n \in Names : p[1] = Append(l, n)
    OBVIOUS
  <2>1. CASE \E h \in Taken : p = LostClaim(h)
    <3>1. p[2][1] = "lost" BY <2>1 DEF LostClaim
    <3>2. p[2][1] \in {"root", "data"} BY TopIsNoEntry DEF LiveDirs
    <3> QED BY <3>1, <3>2
  <2>2. CASE Given(p)
    <3>1. PICK l \in Keyed, n \in Names : \E e \in Homes : \E i \in DOMAIN ReadPart(e) :
            p = <<Append(l, n), ReadPart(e)[i]>>
      BY <2>2 DEF Given
    <3> QED BY <3>1
  <2> QED BY <2>1, <2>2 DEF NamedInv
<1>2. ASSUME NEW e \in LiveDirs, NEW l, <<l, e>> \in named
      PROVE  Len(l) > 1
  <2>1. PICK m \in Keyed, n \in Names : l = Append(m, n)
    <3> DEFINE p == <<l, e>>
    <3>1. p \in named /\ p[2] \in LiveDirs /\ p[1] = l BY <1>2
    <3> HIDE DEF p
    <3> QED BY <1>1, <3>1
  <2>2. m \in Seq(Names) /\ Len(m) > 0 BY DEF Keyed
  <2>3. Len(Append(m, n)) = Len(m) + 1 BY <2>2
  <2>4. Len(m) \in Nat BY <2>2
  <2> QED BY <2>1, <2>2, <2>3, <2>4
<1>3. \A x : Len(<<x>>) = 1 /\ ~(Len(<<x>>) > 1) OBVIOUS
<1>4. \A h \in Taken : h \in Clusters /\ h # 0
  <2>1. 0 \notin Clusters BY ClusterCount
  <2> QED BY <2>1 DEF Taken
<1>5. ASSUME NEW e \in Homes, Opens(k, e)
      PROVE  \/ e = Top /\ k = <<0>>
             \/ e \in LiveDirs /\ Entry(e).start \in Taken /\ k = <<Entry(e).start>>
             \/ e \in LiveDirs /\ <<k, e>> \in named /\ Len(k) > 1
  <2>1. CASE e = Top BY <1>5, <2>1 DEF Opens
  <2>2. CASE e # Top
    <3>1. e \in LiveDirs BY <2>2 DEF Homes
    <3> QED BY <1>2, <1>5, <2>2, <3>1 DEF Opens
  <2> QED BY <2>1, <2>2
<1>6. \A x, y : <<x>> = <<y>> => x = y OBVIOUS
<1>7. \A e \in LiveDirs : e \in Live BY DEF LiveDirs
<1>8. CASE Len(k) > 1
  <2>1. <<k, d>> \in named /\ <<k, c>> \in named BY <1>3, <1>5, <1>8
  <2>2. \A p, q \in named : p[1] = q[1] => p[2] = q[2] BY DEF Apart
  <2>3. <<k, d>>[1] = <<k, c>>[1] OBVIOUS
  <2>4. <<k, d>>[2] = <<k, c>>[2] BY <2>1, <2>2, <2>3, Zenon
  <2> QED BY <2>4
<1>9. CASE ~(Len(k) > 1)
  <2>1. \A e \in Homes : Opens(k, e) =>
          \/ e = Top /\ k = <<0>>
          \/ e \in LiveDirs /\ Entry(e).start \in Taken /\ k = <<Entry(e).start>>
    BY <1>5, <1>9
  <2>2. (d = Top) <=> (c = Top)
    <3>1. ASSUME NEW e \in Homes, NEW f \in Homes, Opens(k, e), Opens(k, f), e = Top PROVE f = Top
      <4>1. SUFFICES ASSUME f # Top PROVE FALSE OBVIOUS
      <4>2. k = <<Entry(f).start>> /\ Entry(f).start \in Taken BY <2>1, <3>1, <4>1
      <4>3. k = <<0>> BY <3>1 DEF Opens
      <4>4. Entry(f).start = 0 BY <1>6, <4>2, <4>3
      <4> QED BY <1>4, <4>2, <4>4
    <3> QED BY <3>1
  <2>3. CASE d # Top
    <3>1. Entry(d).start = Entry(c).start /\ Entry(d).start \in Taken /\ d \in LiveDirs /\ c \in LiveDirs
      BY <1>6, <2>1, <2>2, <2>3
    <3> QED BY <1>4, <1>7, <3>1, SameStart
  <2> QED BY <2>2, <2>3
<1> QED BY <1>8, <1>9

\* A key tells its parts.
LEMMA SameKey ==
  ASSUME NEW k \in Keyed, NEW l \in Keyed, NEW m \in Names, NEW n \in Names, Append(k, m) = Append(l, n)
  PROVE  k = l /\ m = n
<1>1. k \in Seq(Names) /\ l \in Seq(Names) BY DEF Keyed
<1> QED BY <1>1, AppendInjective

\* Two entries do not bear the same name in the same directory.
LEMMA OneBearer ==
  ASSUME Sound, Counted(image), NamedInv, Apart, TakenInv,
         NEW d \in Homes, NEW c \in Homes, NEW k \in Keyed, NEW l \in Keyed, NEW m \in Names, NEW n \in Names,
         NEW i \in DOMAIN ReadPart(d), NEW j \in DOMAIN ReadPart(c),
         Opens(k, d), Opens(l, c), Append(k, m) = Append(l, n),
         m \in NamesIn(ReadPart(d), i), n \in NamesIn(ReadPart(c), j),
         ReadPart(d)[i] \in Live, ReadPart(c)[j] \in Live
  PROVE  ReadPart(d)[i] = ReadPart(c)[j]
<1>1. k = l /\ m = n BY SameKey
<1>2. d = c BY <1>1, OneKey
<1>3. IsLive(ReadPart(d)[i]) /\ IsLive(ReadPart(c)[j]) BY LiveIs
<1>4. i = j BY <1>1, <1>2, <1>3, NamesDiffer
<1> QED BY <1>2, <1>4

\* A key with a name behind it is not that of a lost directory.
LEMMA LongerKey ==
  ASSUME NEW k \in Keyed, NEW n \in Names, NEW h PROVE Append(k, n) # <<h>>
<1>1. k \in Seq(Names) /\ Len(k) > 0 /\ Len(k) \in Nat BY DEF Keyed
<1>2. Len(Append(k, n)) = Len(k) + 1 BY <1>1
<1>3. Len(<<h>>) = 1 OBVIOUS
<1>4. Len(Append(k, n)) # Len(<<h>>) BY <1>1, <1>2, <1>3, Len(k) + 1 # 1
<1> QED BY <1>4

\* The directory that is being read, and the entry that is looked at.
LEMMA DirIs ==
  ASSUME QueueInv, ShapeInv, Reading
  PROVE  /\ 1 \in DOMAIN queue /\ Dir = queue[1] /\ Dir \in Directories /\ Sourced(Dir)
         /\ queue \in Seq(Directories) /\ DOMAIN queue = 1 .. Len(queue) /\ Len(queue) \in Nat
BY DEF QueueInv, Reading, Dir

\* Where the traversal stands.
LEMMA HereIs ==
  ASSUME Sound, Counted(image), QueueInv, ShapeInv, Reading, pos <= Len(Dir.entries)
  PROVE  \E d \in Homes :
           /\ Dir.entries = ReadPart(d) /\ Opens(Dir.key, d) /\ Entered(d)
           /\ Dir.depth > 0 => \A x \in LiveIn(Listing(d)) : x \notin LiveTo[Dir.depth - 1]
           /\ pos \in DOMAIN ReadPart(d) /\ Here = ReadPart(d)[pos] /\ Here \in ToSet(ReadPart(d))
           /\ Waits(Here)
<1>1. PICK d \in Homes :
           /\ Dir.entries = ReadPart(d) /\ Opens(Dir.key, d) /\ Entered(d)
           /\ Dir.depth > 0 => \A x \in LiveIn(Listing(d)) : x \notin LiveTo[Dir.depth - 1]
  BY DirIs DEF Sourced
<1>2. DOMAIN ReadPart(d) = 1 .. Len(ReadPart(d)) /\ Len(ReadPart(d)) \in Nat BY Read
<1>3. pos \in Nat \ {0} BY DEF ShapeInv
<1>4. pos \in DOMAIN ReadPart(d) BY <1>1, <1>2, <1>3
<1>5. Here = ReadPart(d)[pos] BY <1>1 DEF Here
<1>6. Here \in ToSet(ReadPart(d)) BY <1>4, <1>5 DEF ToSet
<1>7. 1 \in DOMAIN queue /\ pos \in DOMAIN queue[1].entries /\ pos >= pos /\ queue[1].entries[pos] = Here
  BY <1>1, <1>3, <1>4, <1>5, DirIs
<1>8. Waits(Here) BY <1>7 DEF Waits
<1> QED BY <1>1, <1>4, <1>5, <1>6, <1>8

\* What waits behind the entry that is looked at.
WaitsBehind(e) == \E i \in DOMAIN queue : \E j \in DOMAIN queue[i].entries :
                    (i > 1 \/ j >= pos + 1) /\ queue[i].entries[j] = e

\* What waits behind it.
LEMMA BehindIs ==
  ASSUME Sound, Counted(image), QueueInv, ShapeInv, WaitingInv, Reading, pos <= Len(Dir.entries), NEW e
  PROVE  WaitsBehind(e) <=> Waits(e) /\ e # Here
<1>1. pos \in Nat BY DEF ShapeInv
<1>2. PICK d \in Homes : Dir.entries = ReadPart(d) /\ pos \in DOMAIN ReadPart(d) /\ Here = ReadPart(d)[pos]
  BY HereIs
<1>3. 1 \in DOMAIN queue /\ Dir = queue[1] /\ DOMAIN queue = 1 .. Len(queue) /\ Len(queue) \in Nat BY DirIs
<1>4. DOMAIN ReadPart(d) = 1 .. Len(ReadPart(d))
      /\ \A i, j \in DOMAIN ReadPart(d) : ReadPart(d)[i] = ReadPart(d)[j] => i = j
  BY Read
<1>5. queue[1].entries = ReadPart(d) BY <1>2, <1>3
<1>6. \A i, k \in DOMAIN queue : i # k => ToSet(queue[i].entries) \cap ToSet(queue[k].entries) = {}
  BY DEF WaitingInv
<1>7. ASSUME NEW i \in DOMAIN queue, NEW j \in DOMAIN queue[i].entries
      PROVE  queue[i].entries[j] = Here <=> i = 1 /\ j = pos
  <2>1. CASE i = 1
    <3>1. j \in DOMAIN ReadPart(d) /\ queue[i].entries[j] = ReadPart(d)[j] BY <1>5, <1>7, <2>1
    <3> QED BY <1>2, <1>4, <2>1, <3>1
  <2>2. CASE i # 1
    <3>1. queue[i].entries[j] \in ToSet(queue[i].entries) BY DEF ToSet
    <3>2. Here \in ToSet(queue[1].entries) BY <1>2, <1>5 DEF ToSet
    <3> QED BY <1>3, <1>6, <2>2, <3>1, <3>2
  <2> QED BY <2>1, <2>2
<1>8. WaitsBehind(e) <=> \E i \in DOMAIN queue : \E j \in DOMAIN queue[i].entries :
                      (i > 1 \/ j >= pos + 1) /\ queue[i].entries[j] = e
  BY DEF WaitsBehind
<1>9. ASSUME NEW i \in DOMAIN queue, NEW j \in DOMAIN queue[i].entries
      PROVE  (i > 1 \/ j >= pos + 1) <=> (i > 1 \/ j >= pos) /\ queue[i].entries[j] # Here
  <2>1. CASE i = 1
    <3>1. j \in DOMAIN ReadPart(d) BY <1>5, <2>1
    <3>2. j \in Nat BY <1>4, <3>1
    <3>3. queue[i].entries[j] = Here <=> j = pos BY <1>7, <2>1
    <3> QED BY <1>1, <2>1, <3>2, <3>3
  <2>2. CASE i # 1
    <3>1. i > 1 BY <1>3, <2>2
    <3> QED BY <1>7, <2>2, <3>1
  <2> QED BY <2>1, <2>2
<1>10. Waits(e) <=> \E i \in DOMAIN queue : \E j \in DOMAIN queue[i].entries :
                      (i > 1 \/ j >= pos) /\ queue[i].entries[j] = e
  BY DEF Waits
<1> QED BY <1>8, <1>9, <1>10

\* What waits when one more entry has been looked at: not that entry.
LEMMA WaitsNext ==
  ASSUME Sound, Counted(image), QueueInv, ShapeInv, WaitingInv, Reading, pos <= Len(Dir.entries),
         pos' = pos + 1, queue' = queue, NEW e
  PROVE  Waits(e)' <=> Waits(e) /\ e # Here
<1>1. Waits(e)' <=> WaitsBehind(e) BY DEF Waits, WaitsBehind
<1> QED BY <1>1, BehindIs

\* A long name that was read stands before the next entry.
LEMMA PendingNext ==
  ASSUME QueueInv, ShapeInv, Sound, Counted(image), Same, Reading, pos <= Len(Dir.entries),
         pos' = pos + 1, queue' = queue,
         pending' = {} \/ (pending' = {Entry(Here)} /\ Entry(Here).kind = "long")
  PROVE  PendingInv'
<1>1. CASE pending' = {} BY <1>1 DEF PendingInv
<1>2. CASE pending' = {Entry(Here)} /\ Entry(Here).kind = "long"
  <2>1. pos \in Nat \ {0} /\ (pos + 1) - 1 = pos /\ pos + 1 > 1 BY DEF ShapeInv
  <2>2. pos \in DOMAIN Dir.entries /\ Here = Dir.entries[pos] BY HereIs DEF Here
  <2>3. Dir' = Dir /\ queue # <<>> BY DEF Dir, Reading
  <2>4. \A e : Entry(e)' = Entry(e) BY DEF Same
  <2>5. /\ queue' # <<>> /\ pos' > 1 /\ pos' - 1 \in DOMAIN Dir'.entries
        /\ pending' = {Entry(Dir'.entries[pos' - 1])} /\ Entry(Dir'.entries[pos' - 1]).kind = "long"
    BY <1>2, <2>1, <2>2, <2>3
  <2> QED BY <2>4, <2>5 DEF PendingInv
<1> QED BY <1>1, <1>2

\* What does not depend on where the traversal stands.
LEMMA NothingLearned ==
  ASSUME Same, UNCHANGED <<named, seen, owners, found>>, NamedInv, Apart, TakenInv, SeenInv, OwnersInv,
         VisitedInv, FoundInv
  PROVE  NamedInv' /\ Apart' /\ TakenInv' /\ SeenInv' /\ OwnersInv' /\ VisitedInv' /\ FoundInv'
<1>1. Taken' = Taken BY Kept
<1>2. \A p : Given(p) => Given(p)' BY Grown
<1>3. NamedInv' BY <1>1, <1>2 DEF NamedInv, LostClaim
<1>4. Apart' BY DEF Apart
<1>5. TakenInv' BY <1>1 DEF TakenInv, Same
<1>6. SeenInv' BY <1>1 DEF SeenInv, Same
<1>7. OwnersInv' BY DEF OwnersInv, Owned, Same
<1>8. VisitedInv' BY DEF VisitedInv, Same
<1>9. FoundInv' BY DEF FoundInv, Same
<1> QED BY <1>3, <1>4, <1>5, <1>6, <1>7, <1>8, <1>9

\* Deleted entries only make the search more careful.
LEMMA SearchKept ==
  ASSUME Same, UNCHANGED <<searched, named>>, excluded \subseteq excluded', SearchInv
  PROVE  SearchInv'
<1>1. Taken' = Taken BY Kept
<1>2. ASSUME NEW e, GivesItselfAway(e)' PROVE GivesItselfAway(e)
  BY <1>2 DEF GivesItselfAway, Same, SectorOf, RootSector, DataSector
<1>3. Alone' \subseteq Alone BY <1>2 DEF Alone, Same
<1>4. \A e : Entry(e)' = Entry(e) /\ Rooted' = Rooted BY DEF Same
<1> QED BY <1>1, <1>3, <1>4 DEF SearchInv

-----------------------------------------------------------------------------
(* Each step of a scan keeps it.                                           *)

\* An entry that is passed over: it is not live, or its sector could not be read.
LEMMA SkipKeeps ==
  ASSUME Tree, Sound, Counted(image), Same, Reading, pos <= Len(Dir.entries),
         ~(Here \in Live /\ SectorOf(Here) \notin bad),
         pos' = pos + 1, UNCHANGED <<phase, searched, queue, seen, owners, named, found>>,
         excluded \subseteq excluded',
         pending' = {} \/ (pending' = {Entry(Here)} /\ Entry(Here).kind = "long")
  PROVE  Tree'
<1> USE DEF Tree
<1>1. /\ NamedInv' /\ Apart' /\ TakenInv' /\ SeenInv' /\ OwnersInv' /\ VisitedInv' /\ FoundInv'
  BY NothingLearned
<1>2. SearchInv' BY SearchKept
<1>3. PendingInv' BY PendingNext
<1>4. Taken' = Taken /\ \A e : Named(e)' <=> Named(e) BY Kept
<1>5. \A D : Sourced(D) => Sourced(D)' BY Grown
<1>6. QueueInv' BY <1>5 DEF QueueInv, Same
<1>7. \A e : Waits(e)' <=> Waits(e) /\ e # Here BY WaitsNext
<1>8. WaitingInv' BY <1>4, <1>7 DEF WaitingInv
<1>9. ProgressInv'
  <2>1. \A d : Entered(d)' => Entered(d) BY DEF Entered, Same, Top
  <2>2. Homes' = Homes /\ Live' = Live /\ bad' = bad /\ \A d : ReadPart(d)' = ReadPart(d) BY DEF Same
  <2>3. \A x : SectorOf(x)' = SectorOf(x) OBVIOUS
  <2> QED BY <1>4, <1>7, <2>1, <2>2, <2>3 DEF ProgressInv
<1>10. PathInv' BY <1>4 DEF PathInv, Closed, Same
<1>11. ShapeInv' BY DEF ShapeInv, Reading
<1> QED BY <1>1, <1>2, <1>3, <1>6, <1>8, <1>9, <1>10, <1>11

\* A directory has been read to its end.
LEMMA LeaveKeeps ==
  ASSUME Tree, Sound, Counted(image), Same, Reading,
         \A e \in Live : Waits(e) /\ SectorOf(e) \notin bad =>
           \E i \in DOMAIN queue : \E j \in DOMAIN queue[i].entries : i > 1 /\ queue[i].entries[j] = e,
         queue' = Tail(queue), pos' = 1, pending' = {},
         UNCHANGED <<phase, searched, seen, owners, named, found, excluded>>
  PROVE  Tree'
<1> USE DEF Tree
<1>1. /\ NamedInv' /\ Apart' /\ TakenInv' /\ SeenInv' /\ OwnersInv' /\ VisitedInv' /\ FoundInv'
  BY NothingLearned
<1>2. SearchInv' BY SearchKept
<1>3. PendingInv' BY DEF PendingInv
<1>4. Taken' = Taken /\ \A e : Named(e)' <=> Named(e) BY Kept
<1>5. \A D : Sourced(D) => Sourced(D)' BY Grown
<1>6. queue \in Seq(Directories) /\ queue # <<>> BY DEF QueueInv, Reading
<1>7. /\ queue' \in Seq(Directories) /\ DOMAIN queue = 1 .. Len(queue) /\ Len(queue) \in Nat
      /\ \A i \in DOMAIN queue' : i \in Nat /\ i >= 1 /\ i + 1 \in DOMAIN queue /\ queue'[i] = queue[i + 1]
      /\ \A i \in DOMAIN queue : i > 1 => i - 1 \in DOMAIN queue' /\ queue'[i - 1] = queue[i]
  BY <1>6
<1>8. QueueInv' BY <1>5, <1>7 DEF QueueInv, Same
<1>9. \A e : Waits(e)' <=> \E i \in DOMAIN queue : \E j \in DOMAIN queue[i].entries : i > 1 /\ queue[i].entries[j] = e
  <2> SUFFICES ASSUME NEW e
               PROVE  Waits(e)' <=> \E i \in DOMAIN queue : \E j \in DOMAIN queue[i].entries :
                                      i > 1 /\ queue[i].entries[j] = e
    OBVIOUS
  <2>1. ASSUME Waits(e)'
        PROVE  \E i \in DOMAIN queue : \E j \in DOMAIN queue[i].entries : i > 1 /\ queue[i].entries[j] = e
    <3>1. PICK i \in DOMAIN queue' : \E j \in DOMAIN queue'[i].entries : queue'[i].entries[j] = e
      BY <2>1 DEF Waits
    <3>2. i + 1 \in DOMAIN queue /\ queue'[i] = queue[i + 1] /\ i + 1 > 1 BY <1>7, <3>1
    <3> QED BY <3>1, <3>2
  <2>2. ASSUME NEW i \in DOMAIN queue, NEW j \in DOMAIN queue[i].entries, i > 1, queue[i].entries[j] = e
        PROVE  Waits(e)'
    <3>1. i - 1 \in DOMAIN queue' /\ queue'[i - 1] = queue[i] BY <1>7, <2>2
    <3>2. Sourced(queue[i]) BY DEF QueueInv
    <3>3. PICK d \in Homes : queue[i].entries = ReadPart(d) BY <3>2 DEF Sourced
    <3>4. j >= 1
      <4>1. DOMAIN ReadPart(d) = 1 .. Len(ReadPart(d)) BY Read
      <4> QED BY <2>2, <3>3, <4>1
    <3>5. j \in DOMAIN queue'[i - 1].entries /\ j >= pos' /\ queue'[i - 1].entries[j] = e BY <2>2, <3>1, <3>4
    <3> QED BY <3>1, <3>5 DEF Waits
  <2> QED BY <2>1, <2>2
<1>10. WaitingInv'
  <2>1. \A i, k \in DOMAIN queue' : i # k => ToSet(queue'[i].entries) \cap ToSet(queue'[k].entries) = {}
    <3> SUFFICES ASSUME NEW i \in DOMAIN queue', NEW k \in DOMAIN queue', i # k
                 PROVE  ToSet(queue'[i].entries) \cap ToSet(queue'[k].entries) = {}
      OBVIOUS
    <3>1. i + 1 \in DOMAIN queue /\ k + 1 \in DOMAIN queue /\ i + 1 # k + 1 BY <1>7
    <3>2. ToSet(queue[i + 1].entries) \cap ToSet(queue[k + 1].entries) = {} BY <3>1 DEF WaitingInv
    <3> QED BY <1>7, <3>2
  <2>2. \A e : Waits(e)' => Waits(e) BY <1>9 DEF Waits
  <2> QED BY <1>4, <2>1, <2>2 DEF WaitingInv
<1>11. ProgressInv'
  <2>1. \A d : Entered(d)' => Entered(d) BY DEF Entered, Same, Top
  <2>2. Homes' = Homes /\ Live' = Live /\ bad' = bad /\ \A d : ReadPart(d)' = ReadPart(d) BY DEF Same
  <2>3. \A x : SectorOf(x)' = SectorOf(x) OBVIOUS
  <2>4. \A e \in Live : Waits(e) /\ SectorOf(e) \notin bad => Waits(e)' BY <1>9
  <2> QED BY <1>4, <2>1, <2>2, <2>3, <2>4 DEF ProgressInv
<1>12. PathInv'
  <2>1. SUFFICES ASSUME NEW H \in SUBSET Trees, Closed(H)'
                 PROVE  /\ \A i \in DOMAIN queue' : \A x \in ToSet(queue'[i].entries) :
                             Within(x, H) => queue'[i].ancestors \subseteq Span(H)
                        /\ \A f \in found : Within(f.claim[2], H) => f.ancestors \subseteq Span(H)
    BY DEF PathInv, Same
  <2>2. Closed(H) BY <1>4, <2>1 DEF Closed, Same
  <2> QED BY <1>7, <2>2 DEF PathInv
<1>13. ShapeInv'
  <2>1. phase = "scan" BY DEF Reading
  <2> QED BY <2>1 DEF ShapeInv
<1> QED BY <1>1, <1>2, <1>3, <1>8, <1>10, <1>11, <1>12, <1>13

\* The traversal begins.
LEMMA ResolveKeeps ==
  ASSUME Tree, Sound, Counted(image), Resolve
  PROVE  Tree'
<1> USE DEF Tree
<1>1. UNCHANGED saved /\ UNCHANGED <<pos, pending, seen, owners, named, found, deleted, excluded, searched>>
      /\ phase = "layout"
  BY DEF Resolve
<1>2. Same BY <1>1, Unchanged
<1>3. /\ NamedInv' /\ Apart' /\ TakenInv' /\ SeenInv' /\ OwnersInv' /\ VisitedInv' /\ FoundInv'
  BY <1>1, <1>2, NothingLearned
<1>4. SearchInv' BY <1>1, <1>2, SearchKept
<1>5. named = {} /\ found = {} /\ seen = {} /\ owners = {} /\ ~searched /\ queue = <<>> /\ pos = 1 /\ pending = {}
  BY <1>1 DEF ShapeInv
<1>6. PendingInv' BY <1>1, <1>5 DEF PendingInv
<1>7. \A e : ~Named(e)' BY <1>1, <1>5 DEF Named
<1>8. CASE phase' = "unknown" /\ UNCHANGED queue
  <2>1. QueueInv' BY <1>2, <1>5, <1>8 DEF QueueInv, Same
  <2>2. \A e : ~Waits(e)' BY <1>5, <1>8 DEF Waits
  <2>3. WaitingInv' BY <1>5, <1>7, <1>8 DEF WaitingInv
  <2>4. ProgressInv' BY <1>8 DEF ProgressInv
  <2>5. PathInv' BY <1>1, <1>5, <1>8 DEF PathInv
  <2>6. ShapeInv' BY <1>1, <1>5, <1>8 DEF ShapeInv
  <2> QED BY <1>3, <1>4, <1>6, <2>1, <2>3, <2>4, <2>5, <2>6
<1>9. CASE phase' = "scan" /\ queue' = <<Directory(<<0>>, RootEntries, {}, 0, {})>>
  <2>0. PICK D : D = Directory(<<0>>, RootEntries, {}, 0, {}) OBVIOUS
  <2>1. D.entries = RootEntries /\ D.key = <<0>> /\ D.depth = 0 /\ D.ancestors = {} BY <2>0 DEF Directory
  <2>2. Top \in Homes /\ ReadPart(Top) = RootEntries /\ Opens(<<0>>, Top) /\ Entered(Top)
    BY DEF Homes, ReadPart, Opens, Entered
  <2>3. D \in Directories
    <3>1. <<0>> \in Keyed
      <4>1. 0 \in Names BY DEF Names
      <4>2. <<0>> \in Seq(Names) /\ <<0>> # <<>> BY <4>1
      <4> QED BY <4>2 DEF Keyed
    <3>2. 0 \in 0 .. MaxDepth BY FatAssumption
    <3>3. RootEntries \in {ReadPart(d) : d \in Homes} BY <2>2
    <3> QED BY <2>0, <3>1, <3>2, <3>3 DEF Directory, Directories
  <2>4. Sourced(D) BY <2>1, <2>2 DEF Sourced
  <2>5. Sourced(D)' BY <1>1, <1>2, <2>4, Grown
  <2>6. queue' = <<D>> BY <1>9, <2>0
  <2>7. queue' \in Seq(Directories) /\ DOMAIN queue' = {1} /\ queue'[1] = D BY <2>3, <2>6
  <2>8. QueueInv' BY <1>2, <2>5, <2>7 DEF QueueInv, Same
  <2>9. \A e : Waits(e)' <=> e \in ToSet(RootEntries)
    <3>1. \A e : Waits(e)' <=> \E j \in DOMAIN RootEntries : j >= 1 /\ RootEntries[j] = e
      BY <1>1, <1>5, <2>1, <2>7 DEF Waits
    <3>2. \A j \in DOMAIN RootEntries : j >= 1 BY RootIs
    <3> QED BY <3>1, <3>2 DEF ToSet
  <2>10. WaitingInv' BY <1>7, <2>7 DEF WaitingInv
  <2>11. ProgressInv'
    <3>1. \A d : Entered(d)' => d = Top BY <1>1, <1>5 DEF Entered, Top
    <3>2. \A d : ReadPart(d)' = ReadPart(d) BY <1>2 DEF Same
    <3> QED BY <2>2, <2>9, <3>1, <3>2 DEF ProgressInv
  <2>12. PathInv' BY <1>1, <1>5, <2>1, <2>7 DEF PathInv
  <2>13. ShapeInv' BY <1>1, <1>5, <1>9 DEF ShapeInv
  <2> QED BY <1>3, <1>4, <1>6, <2>8, <2>10, <2>11, <2>12, <2>13
<1> QED BY <1>8, <1>9 DEF Resolve

\* It ends.
LEMMA JudgeKeeps ==
  ASSUME Tree, Sound, Counted(image), Judge
  PROVE  Tree'
<1> USE DEF Tree
<1>1. UNCHANGED saved /\ UNCHANGED <<queue, pos, pending, seen, owners, named, found, deleted, excluded, searched>>
      /\ phase = "scan" /\ queue = <<>> /\ searched /\ phase' = "judged"
  BY DEF Judge
<1>2. Same BY <1>1, Unchanged
<1>3. /\ NamedInv' /\ Apart' /\ TakenInv' /\ SeenInv' /\ OwnersInv' /\ VisitedInv' /\ FoundInv'
  BY <1>1, <1>2, NothingLearned
<1>4. SearchInv' BY <1>1, <1>2, SearchKept
<1>5. Taken' = Taken /\ \A e : Named(e)' <=> Named(e) BY <1>1, <1>2, Kept
<1>6. ShapeInv' BY <1>1 DEF ShapeInv
<1>7. PendingInv' BY <1>1 DEF PendingInv, ShapeInv
<1>8. QueueInv' BY <1>1, <1>2 DEF QueueInv, Same
<1>9. \A e : Waits(e)' <=> Waits(e) BY <1>1 DEF Waits
<1>10. WaitingInv' BY <1>1, <1>5, <1>9 DEF WaitingInv
<1>11. ProgressInv'
  <2>1. \A d : Entered(d)' => Entered(d) BY <1>1, <1>2 DEF Entered, Same, Top
  <2>2. Homes' = Homes /\ Live' = Live /\ bad' = bad /\ \A d : ReadPart(d)' = ReadPart(d) BY <1>2 DEF Same
  <2>3. \A x : SectorOf(x)' = SectorOf(x) OBVIOUS
  <2> QED BY <1>1, <1>5, <1>9, <2>1, <2>2, <2>3 DEF ProgressInv
<1>12. PathInv' BY <1>1, <1>2, <1>5 DEF PathInv, Closed, Same
<1> QED BY <1>3, <1>4, <1>6, <1>7, <1>8, <1>10, <1>11, <1>12

\* Of an entry that is not a file's or a directory's only its kind matters.
LEMMA OthersKeep ==
  ASSUME Tree, Sound, Counted(image), Gap \/ Label \/ LongName \/ DeletedEntry
  PROVE  Tree'
<1>1. UNCHANGED saved BY DEF Gap, Label, LongName, DeletedEntry
<1>2. Same BY <1>1, Unchanged
<1>3. Reading /\ pos <= Len(Dir.entries) BY DEF Gap, Label, LongName, DeletedEntry, Is, Readable
<1>4. pos' = pos + 1 /\ UNCHANGED <<phase, searched, queue, seen, owners, named, found>>
  BY DEF Gap, Label, LongName, DeletedEntry, Advance
<1>5. excluded \subseteq excluded' BY DEF Gap, Label, LongName, DeletedEntry
<1>6. pending' = {} \/ (pending' = {Entry(Here)} /\ Entry(Here).kind = "long")
  BY DEF Gap, Label, LongName, DeletedEntry, Is
<1>7. ~(Here \in Live /\ SectorOf(Here) \notin bad)
  <2>1. CASE Gap BY <2>1 DEF Gap
  <2>2. CASE ~Gap
    <3>1. Entry(Here).kind \in {"label", "long", "deleted", "deleted dir"}
      BY <2>2 DEF Label, LongName, DeletedEntry, Is
    <3>2. Here \in Live => Entry(Here).kind \in {"file", "dir"} BY LiveIs DEF IsLive
    <3> QED BY <3>1, <3>2
  <2> QED BY <2>1, <2>2
<1> QED BY <1>2, <1>3, <1>4, <1>5, <1>6, <1>7, SkipKeeps

\* A floppy without a fault has no odd entry.
LEMMA NoOddEntry == ASSUME Tree, Sound, Counted(image), OddEntry PROVE FALSE
<1>1. Reading /\ pos <= Len(Dir.entries) /\ Entry(Here).kind = "odd" BY DEF OddEntry, Is, Readable
<1>2. PICK d \in Homes : pos \in DOMAIN ReadPart(d) /\ Here = ReadPart(d)[pos] BY <1>1, HereIs DEF Tree
<1>3. pos \in DOMAIN Listing(d) /\ Here = Listing(d)[pos] /\ Orderly(Listing(d)) BY <1>2, Read
<1> QED BY <1>1, <1>3 DEF Orderly

\* A directory is done.
LEMMA LeaveDirectoryKeeps ==
  ASSUME Tree, Sound, Counted(image), LeaveDirectory
  PROVE  Tree'
<1>1. UNCHANGED saved /\ Reading BY DEF LeaveDirectory
<1>2. Same BY <1>1, Unchanged
<1>3. queue' = Tail(queue) /\ pos' = 1 /\ pending' = {} /\ UNCHANGED <<phase, searched, seen, owners, named, found, excluded>>
  BY DEF LeaveDirectory
<1>4. ASSUME NEW e \in Live, Waits(e)
      PROVE \E i \in DOMAIN queue : \E j \in DOMAIN queue[i].entries : i > 1 /\ queue[i].entries[j] = e
  <2>1. PICK i \in DOMAIN queue : \E j \in DOMAIN queue[i].entries : (i > 1 \/ j >= pos) /\ queue[i].entries[j] = e
    BY <1>4 DEF Waits
  <2>2. PICK j \in DOMAIN queue[i].entries : (i > 1 \/ j >= pos) /\ queue[i].entries[j] = e BY <2>1
  <2>3. SUFFICES ASSUME ~(i > 1) PROVE FALSE BY <2>2
  <2>4. i = 1 /\ Dir = queue[1] /\ Sourced(Dir) BY <1>1, <2>3, DirIs DEF Tree
  <2>5. PICK d \in Homes : Dir.entries = ReadPart(d) BY <2>4 DEF Sourced
  <2>6. j \in DOMAIN ReadPart(d) /\ j >= pos /\ ReadPart(d)[j] = e BY <2>2, <2>3, <2>4, <2>5
  <2>7. DOMAIN ReadPart(d) = 1 .. Len(ReadPart(d)) /\ Len(ReadPart(d)) \in Nat BY Read
  <2>8. pos \in Nat \ {0} BY DEF Tree, ShapeInv
  <2>9. pos <= Len(Dir.entries) BY <2>5, <2>6, <2>7, <2>8
  <2>10. Entry(Here).kind = "end"
    <3>1. ~(pos > Len(Dir.entries)) BY <2>5, <2>7, <2>8, <2>9
    <3> QED BY <3>1 DEF LeaveDirectory, Is
  <2>11. pos \in DOMAIN ReadPart(d) /\ Here = ReadPart(d)[pos] BY <2>5, <2>7, <2>8, <2>9 DEF Here
  <2>12. /\ pos \in DOMAIN Listing(d) /\ Here = Listing(d)[pos] /\ j \in DOMAIN Listing(d) /\ e = Listing(d)[j]
         /\ Orderly(Listing(d))
    BY <2>6, <2>11, Read
  <2>13. Entry(e).kind # "end" BY <1>4, LiveIs DEF IsLive
  <2>14. CASE j = pos BY <2>10, <2>12, <2>13, <2>14
  <2>15. CASE pos < j BY <2>10, <2>12, <2>13, <2>15 DEF Orderly
  <2> QED BY <2>6, <2>7, <2>8, <2>14, <2>15
<1> QED BY <1>1, <1>2, <1>3, <1>4, LeaveKeeps

\* A live entry is met, with its names.
NewNames == {<<key, Here>> : key \in Keys}

\* The names an entry gets are new, and given by the directory it is in.
LEMMA NewNamesGiven ==
  ASSUME Tree, Sound, Counted(image), Readable, IsLive(Here)
  PROVE  /\ Here \in Live /\ SectorOf(Here) \notin bad /\ ~Named(Here)
         /\ \A p \in NewNames : Given(p) /\ p[2] = Here
         /\ Claim \in NewNames /\ Claim[2] = Here /\ Claim[1] = Key(Name)
         /\ Keys \subseteq Keyed /\ Key(Name) \in Keys
<1> USE DEF Tree
<1>1. Reading /\ pos <= Len(Dir.entries) /\ SectorOf(Here) \notin bad BY DEF Readable
<1>2. PICK d \in Homes :
           /\ Dir.entries = ReadPart(d) /\ Opens(Dir.key, d) /\ Entered(d)
           /\ pos \in DOMAIN ReadPart(d) /\ Here = ReadPart(d)[pos] /\ Here \in ToSet(ReadPart(d))
           /\ Waits(Here)
  BY <1>1, HereIs
<1>3. Here \in Live
  <2>1. pos \in DOMAIN Listing(d) /\ Here = Listing(d)[pos] BY <1>2, Read
  <2> QED BY <2>1, LiveThere
<1>4. ~Named(Here) BY <1>2 DEF WaitingInv
<1>5. ToSet(ReadPart(d)) \subseteq ToSet(RootEntries) \cup Places
  <2>1. CASE d = Top BY <2>1 DEF ReadPart
  <2>2. CASE d # Top
    <3>1. ReadPart(d) = Contents(Entry(d).start) BY <2>2 DEF ReadPart
    <3> QED BY <3>1, ContentsIs
  <2> QED BY <2>1, <2>2
<1>6. Entry(Here).alias \in NamesIn(ReadPart(d), pos) BY <1>2 DEF NamesIn
<1>7. Name \in NamesIn(ReadPart(d), pos)
  <2>1. CASE \E long \in pending : long.alias = Entry(Here).alias
    <3>1. /\ pos > 1 /\ pending = {Entry(ReadPart(d)[pos - 1])} /\ Entry(ReadPart(d)[pos - 1]).kind = "long"
      BY <1>2, <2>1 DEF PendingInv
    <3>2. Name = Entry(ReadPart(d)[pos - 1]).name BY <2>1, <3>1 DEF Name
    <3> QED BY <3>1, <3>2 DEF NamesIn
  <2>2. CASE ~ \E long \in pending : long.alias = Entry(Here).alias BY <1>6, <2>2 DEF Name
  <2> QED BY <2>1, <2>2
<1>8. NamesIn(ReadPart(d), pos) \subseteq Names
  <2>1. pos > 1 => pos - 1 \in DOMAIN ReadPart(d)
    <3>1. DOMAIN ReadPart(d) = 1 .. Len(ReadPart(d)) /\ Len(ReadPart(d)) \in Nat BY Read
    <3> QED BY <1>2, <3>1
  <2>2. \A i \in DOMAIN ReadPart(d) : Entry(ReadPart(d)[i]).alias \in Names /\ Entry(ReadPart(d)[i]).name \in Names
    <3> SUFFICES ASSUME NEW i \in DOMAIN ReadPart(d)
                 PROVE  Entry(ReadPart(d)[i]).alias \in Names /\ Entry(ReadPart(d)[i]).name \in Names
      OBVIOUS
    <3> DEFINE x == ReadPart(d)[i]
    <3>1. x \in ToSet(RootEntries) \cup Places BY <1>5 DEF ToSet
    <3> HIDE DEF x
    <3>2. Entry(x).alias \in Names /\ Entry(x).name \in Names BY <3>1 DEF Names
    <3> QED BY <3>2 DEF x
  <2> QED BY <1>2, <2>1, <2>2 DEF NamesIn
<1>9. Dir.key \in Keyed BY <1>1, DirIs DEF Directories
<1>10. ASSUME NEW n \in NamesIn(ReadPart(d), pos)
       PROVE  Key(n) \in Keyed /\ Given(<<Key(n), Here>>)
  <2>1. n \in Names BY <1>8
  <2>2. Key(n) = Append(Dir.key, n) BY DEF Key
  <2>3. Key(n) \in Keyed
    <3>1. Dir.key \in Seq(Names) BY <1>9 DEF Keyed
    <3>2. Append(Dir.key, n) \in Seq(Names) /\ Append(Dir.key, n) # <<>> BY <2>1, <3>1
    <3> QED BY <2>2, <3>2 DEF Keyed
  <2>4. <<Key(n), Here>> = <<Append(Dir.key, n), ReadPart(d)[pos]>> BY <1>2, <2>2
  <2> QED BY <1>1, <1>2, <1>3, <1>9, <2>1, <2>3, <2>4 DEF Given
<1>11. Keys \subseteq Keyed BY <1>6, <1>7, <1>10 DEF Keys
<1>12. \A p \in NewNames : Given(p) /\ p[2] = Here BY <1>6, <1>7, <1>10 DEF Keys, NewNames
<1>13. Claim \in NewNames /\ Claim[2] = Here /\ Claim[1] = Key(Name) /\ Key(Name) \in Keys
  BY DEF Claim, NewNames, Keys
<1> QED BY <1>1, <1>3, <1>4, <1>11, <1>12, <1>13

\* Keys that are given or lost directories' lead to one entry.
LEMMA OneEntry ==
  ASSUME Sound, Counted(image), NamedInv, Apart, TakenInv, NEW p, NEW q, p[1] = q[1],
         (\E h \in Taken : p = LostClaim(h)) \/ Given(p), (\E h \in Taken : q = LostClaim(h)) \/ Given(q)
  PROVE  p[2] = q[2]
<1>1. ASSUME NEW r, Given(r)
      PROVE  \E d \in Homes, k \in Keyed, n \in Names : \E i \in DOMAIN ReadPart(d) :
               /\ r[1] = Append(k, n) /\ r[2] = ReadPart(d)[i] /\ n \in NamesIn(ReadPart(d), i)
               /\ Opens(k, d) /\ ReadPart(d)[i] \in Live
  BY <1>1 DEF Given
<1>2. ASSUME NEW r, NEW h, r = LostClaim(h) PROVE r[1] = <<h>> /\ r[2] = <<"lost", h, 0>>
  BY <1>2 DEF LostClaim
<1>3. CASE Given(p) /\ Given(q)
  <2>1. PICK d \in Homes, k \in Keyed, n \in Names : \E i \in DOMAIN ReadPart(d) :
               /\ p[1] = Append(k, n) /\ p[2] = ReadPart(d)[i] /\ n \in NamesIn(ReadPart(d), i)
               /\ Opens(k, d) /\ ReadPart(d)[i] \in Live
    BY <1>1, <1>3
  <2>2. PICK c \in Homes, l \in Keyed, m \in Names : \E i \in DOMAIN ReadPart(c) :
               /\ q[1] = Append(l, m) /\ q[2] = ReadPart(c)[i] /\ m \in NamesIn(ReadPart(c), i)
               /\ Opens(l, c) /\ ReadPart(c)[i] \in Live
    BY <1>1, <1>3
  <2>3. PICK i \in DOMAIN ReadPart(d) :
               /\ p[1] = Append(k, n) /\ p[2] = ReadPart(d)[i] /\ n \in NamesIn(ReadPart(d), i)
               /\ Opens(k, d) /\ ReadPart(d)[i] \in Live
    BY <2>1
  <2>4. PICK j \in DOMAIN ReadPart(c) :
               /\ q[1] = Append(l, m) /\ q[2] = ReadPart(c)[j] /\ m \in NamesIn(ReadPart(c), j)
               /\ Opens(l, c) /\ ReadPart(c)[j] \in Live
    BY <2>2
  <2>5. Append(k, n) = Append(l, m) BY <2>3, <2>4
  <2>6. ReadPart(d)[i] = ReadPart(c)[j] BY <2>3, <2>4, <2>5, OneBearer
  <2> QED BY <2>3, <2>4, <2>6
<1>4. CASE (\E h \in Taken : p = LostClaim(h)) /\ (\E h \in Taken : q = LostClaim(h))
  <2>1. PICK h \in Taken : p = LostClaim(h) BY <1>4
  <2>2. PICK g \in Taken : q = LostClaim(g) BY <1>4
  <2>3. <<h>> = <<g>> BY <1>2, <2>1, <2>2
  <2>4. h = g BY <2>3
  <2> QED BY <2>1, <2>2, <2>4
<1>5. ASSUME NEW r, NEW s, Given(r), NEW h, s = LostClaim(h), r[1] = s[1] PROVE FALSE
  <2>1. PICK k \in Keyed, n \in Names : r[1] = Append(k, n) BY <1>1, <1>5
  <2>2. s[1] = <<h>> BY <1>2, <1>5
  <2> QED BY <1>5, <2>1, <2>2, LongerKey
<1> QED BY <1>3, <1>4, <1>5

\* Names and claims with one more live entry.
LEMMA TakeKeeps ==
  ASSUME Tree, Sound, Counted(image), Same, Readable, IsLive(Here), seen \subseteq seen',
         named' = named \cup NewNames, NEW C, C = Held(Entry(Here).start),
         owners' = owners \cup {<<c, Claim>> : c \in C}
  PROVE  /\ NamedInv' /\ Apart' /\ TakenInv' /\ OwnersInv'
         /\ Taken' = Taken /\ \A e : Named(e)' <=> Named(e) \/ e = Here
<1> USE DEF Tree
<1>1. /\ Here \in Live /\ SectorOf(Here) \notin bad /\ ~Named(Here)
      /\ \A p \in NewNames : Given(p) /\ p[2] = Here
      /\ Claim \in NewNames /\ Claim[2] = Here
  BY NewNamesGiven
<1>2. Here[1] \in {"root", "data"} BY <1>1, TopIsNoEntry
<1>3. Taken' = Taken
  <2>1. \A p \in NewNames : p[2][1] # "lost" BY <1>1, <1>2
  <2> QED BY <2>1, SameTaken
<1>4. \A e : Named(e)' <=> Named(e) \/ e = Here BY <1>1 DEF Named
<1>5. \A p \in named' : (\E h \in Taken : p = LostClaim(h)) \/ Given(p) BY <1>1 DEF NamedInv
<1>6. NamedInv'
  <2>1. \A p : Given(p) => Given(p)' BY Grown
  <2>2. \A h : LostClaim(h)' = LostClaim(h) BY DEF LostClaim
  <2> QED BY <1>3, <1>5, <2>1, <2>2 DEF NamedInv
<1>7. Apart' BY <1>5, OneEntry DEF Apart
<1>8. TakenInv' BY <1>3 DEF TakenInv, Same
<1>9. OwnersInv'
  <2>1. /\ \A q \in owners : q = <<q[1], q[2]>> /\ q[2] \in named /\ q[1] \in Held(StartOf(q[2][2]))
        /\ \A q, r \in owners : q[2][2] = r[2][2] => q[2] = r[2]
        /\ \A p \in named : Held(StartOf(p[2])) \subseteq Owned
    BY DEF OwnersInv
  <2>2. StartOf(Here) = Entry(Here).start BY <1>2 DEF StartOf
  <2>3. PICK claim : claim = Claim OBVIOUS
  <2>4. \A q \in owners' : q \in owners \/ (q = <<q[1], q[2]>> /\ q[2] = claim /\ q[1] \in C) BY <2>3
  <2>5. claim \in named' /\ claim[2] = Here BY <1>1, <2>3
  <2>6. ASSUME NEW q \in owners'
        PROVE  q = <<q[1], q[2]>> /\ q[2] \in named' /\ q[1] \in Held(StartOf(q[2][2]))
    <3>1. CASE q \in owners BY <2>1, <3>1
    <3>2. CASE q = <<q[1], q[2]>> /\ q[2] = claim /\ q[1] \in C
      <4>1. StartOf(q[2][2]) = Entry(Here).start BY <2>2, <2>5, <3>2
      <4> QED BY <2>5, <3>2, <4>1
    <3> QED BY <2>4, <3>1, <3>2
  <2>7. ASSUME NEW q \in owners', NEW r \in owners', q[2][2] = r[2][2] PROVE q[2] = r[2]
    <3>1. \A t \in owners : t[2][2] # Here BY <1>1, <2>1 DEF Named
    <3> QED BY <2>1, <2>4, <2>5, <2>7, <3>1
  <2>8. Owned' = Owned \cup C
    <3>1. Owned' = {pair[1] : pair \in owners'} BY DEF Owned
    <3>2. \A c \in C : <<c, claim>> \in owners' /\ <<c, claim>>[1] = c BY <2>3
    <3>3. C \subseteq Owned' BY <3>1, <3>2
    <3>4. Owned \subseteq Owned' BY <3>1 DEF Owned
    <3>5. Owned' \subseteq Owned \cup C BY <2>4, <3>1 DEF Owned
    <3> QED BY <3>3, <3>4, <3>5
  <2>9. ASSUME NEW p \in named' PROVE Held(StartOf(p[2])) \subseteq Owned'
    <3>1. CASE p \in named BY <2>1, <2>8, <3>1
    <3>2. CASE p \in NewNames
      <4>1. StartOf(p[2]) = Entry(Here).start BY <1>1, <2>2, <3>2
      <4> QED BY <2>8, <4>1
    <3> QED BY <3>1, <3>2
  <2>10. \A e : StartOf(e)' = StartOf(e) /\ \A s : Held(s)' = Held(s) BY DEF Same
  <2> QED BY <2>6, <2>7, <2>9, <2>10 DEF OwnersInv
<1> QED BY <1>3, <1>4, <1>6, <1>7, <1>8, <1>9

\* The search stays as it was.
LEMMA StillSearched ==
  ASSUME Same, UNCHANGED <<searched, excluded>>, Taken' = Taken, SearchInv
  PROVE  SearchInv'
<1>1. \A e : GivesItselfAway(e)' <=> GivesItselfAway(e)
  BY DEF GivesItselfAway, Same, SectorOf, RootSector, DataSector
<1>2. Alone' = Alone BY <1>1 DEF Alone, Same
<1>3. \A e : Entry(e)' = Entry(e) /\ Rooted' = Rooted BY DEF Same
<1> QED BY <1>2, <1>3 DEF SearchInv

\* A live entry is met that brings no directory to read.
LEMMA MeetKeeps ==
  ASSUME Tree, Sound, Counted(image), Same, Readable, IsLive(Here),
         named' = named \cup NewNames, owners' = owners \cup {<<c, Claim>> : c \in Held(Entry(Here).start)},
         UNCHANGED <<phase, searched, queue, seen, excluded>>, pos' = pos + 1, pending' = {},
         \A f \in found' : f \in found \/ (f.claim[2] = Here /\ f.ancestors = Dir.ancestors),
         VisitedInv', FoundInv'
  PROVE  Tree'
<1> USE DEF Tree
<1>0. Reading /\ pos <= Len(Dir.entries) BY DEF Readable
<1>1. PICK C : C = Held(Entry(Here).start) OBVIOUS
<1>2. seen \subseteq seen' /\ named \subseteq named' /\ owners' = owners \cup {<<c, Claim>> : c \in C} BY <1>1
<1>3. /\ NamedInv' /\ Apart' /\ TakenInv' /\ OwnersInv'
      /\ Taken' = Taken /\ \A e : Named(e)' <=> Named(e) \/ e = Here
  BY <1>1, <1>2, TakeKeeps
<1>4. SearchInv' BY <1>3, StillSearched
<1>5. PendingInv' BY DEF PendingInv
<1>6. SeenInv'
  <2>1. \A e : Entry(e)' = Entry(e) /\ LiveDirs' = LiveDirs BY DEF Same
  <2> QED BY <1>2, <1>3, <2>1 DEF SeenInv
<1>7. \A D : Sourced(D) => Sourced(D)' BY <1>2, Grown
<1>8. QueueInv' BY <1>7 DEF QueueInv, Same
<1>9. \A e : Waits(e)' <=> Waits(e) /\ e # Here BY <1>0, WaitsNext
<1>10. WaitingInv' BY <1>3, <1>9 DEF WaitingInv
<1>11. ProgressInv'
  <2>1. \A d : Entered(d)' => Entered(d) BY DEF Entered, Same, Top
  <2>2. Homes' = Homes /\ Live' = Live /\ bad' = bad /\ \A d : ReadPart(d)' = ReadPart(d) BY DEF Same
  <2>3. \A x : SectorOf(x)' = SectorOf(x) OBVIOUS
  <2> QED BY <1>3, <1>9, <2>1, <2>2, <2>3 DEF ProgressInv
<1>12. PathInv'
  <2>1. SUFFICES ASSUME NEW H \in SUBSET Trees, Closed(H)'
                 PROVE  /\ \A i \in DOMAIN queue : \A x \in ToSet(queue[i].entries) :
                             Within(x, H) => queue[i].ancestors \subseteq Span(H)
                        /\ \A f \in found' : Within(f.claim[2], H) => f.ancestors \subseteq Span(H)
    BY DEF PathInv, Same
  <2>2. Closed(H) BY <1>3, <2>1 DEF Closed, Same
  <2>3. Here \in ToSet(queue[1].entries) /\ 1 \in DOMAIN queue /\ Dir = queue[1]
    BY <1>0, DirIs, HereIs
  <2>4. \A i \in DOMAIN queue : \A x \in ToSet(queue[i].entries) :
          Within(x, H) => queue[i].ancestors \subseteq Span(H)
    BY <2>2 DEF PathInv
  <2>5. \A f \in found : Within(f.claim[2], H) => f.ancestors \subseteq Span(H) BY <2>2 DEF PathInv
  <2> QED BY <2>3, <2>4, <2>5
<1>13. ShapeInv'
  <2>1. phase = "scan" /\ queue # <<>> BY <1>0 DEF Reading
  <2> QED BY <2>1 DEF ShapeInv
<1> QED BY <1>3, <1>4, <1>5, <1>6, <1>8, <1>10, <1>11, <1>12, <1>13

\* What a file claims is what can be had of its chain.
LEMMA FileChainIs ==
  ASSUME NEW e PROVE ToSet(FileChain(e).clusters) = Held(e.start)
<1>1. CASE e.size = 0 /\ e.start = 0
  <2>1. FileChain(e).clusters = <<>> BY <1>1 DEF FileChain, NoChain
  <2>2. 0 \notin Clusters BY ClusterCount
  <2>3. Chain(e.start).clusters = <<>> BY <1>1, <2>2, NoStart
  <2> QED BY <2>1, <2>3 DEF Held
<1>2. CASE ~(e.size = 0 /\ e.start = 0) BY <1>2 DEF FileChain, Held
<1> QED BY <1>1, <1>2

\* A file is found.
LEMMA FileEntryKeeps ==
  ASSUME Tree, Sound, Counted(image), FileEntry
  PROVE  Tree'
<1>1. Readable /\ Entry(Here).kind = "file" BY DEF FileEntry, Is
<1>2. IsLive(Here) BY <1>1 DEF IsLive
<1>3. UNCHANGED saved BY DEF FileEntry
<1>4. Same BY <1>3, Unchanged
<1>5. UNCHANGED <<phase, searched, queue, seen, excluded>> /\ pos' = pos + 1 /\ pending' = {}
  BY DEF FileEntry, Advance
<1>6. named' = named \cup NewNames BY DEF FileEntry, TakeNames, NewNames
<1>7. owners' = owners \cup {<<c, Claim>> : c \in Held(Entry(Here).start)}
  BY FileChainIs DEF FileEntry, TakeClusters
<1>8. PICK new : new = [claim |-> Claim, size |-> Entry(Here).size, clusters |-> FileChain(Entry(Here)).clusters,
                        issue |-> Issue(Entry(Here), FileChain(Entry(Here))), ancestors |-> Dir.ancestors,
                        keys |-> Dir.keys \cup Keys]
  OBVIOUS
<1>9. found' = found \cup {new} BY <1>8 DEF FileEntry
<1>10. new.claim = Claim /\ new.size = Entry(Here).size /\ new.ancestors = Dir.ancestors BY <1>8
<1>11. /\ Here \in Live /\ \A p \in NewNames : p[2] = Here
       /\ Claim \in NewNames /\ Claim[2] = Here
  BY <1>1, <1>2, NewNamesGiven
<1>12. \A f \in found' : f \in found \/ (f.claim[2] = Here /\ f.ancestors = Dir.ancestors)
  BY <1>9, <1>10, <1>11
<1>13. \A e : Entry(e)' = Entry(e) /\ Live' = Live BY <1>4 DEF Same
<1>14. \A e : WrittenIn(e)' = WrittenIn(e) /\ \A E : LiveIn(E)' = LiveIn(E) BY <1>4 DEF Same
<1>15. VisitedInv'
  <2>1. \A p \in named' : p[2] \in Live =>
          IF Entry(p[2]).kind = "file" THEN \E f \in found' : f.claim[2] = p[2]
          ELSE Entry(p[2]).start \in seen \/ LiveIn(WrittenIn(p[2])) = {}
    <3> SUFFICES ASSUME NEW p \in named', p[2] \in Live
                 PROVE  IF Entry(p[2]).kind = "file" THEN \E f \in found' : f.claim[2] = p[2]
                        ELSE Entry(p[2]).start \in seen \/ LiveIn(WrittenIn(p[2])) = {}
      OBVIOUS
    <3>1. CASE p \in named BY <1>9, <3>1 DEF Tree, VisitedInv
    <3>2. CASE p \in NewNames
      <4>1. p[2] = Here BY <1>11, <3>2
      <4>2. new \in found' /\ new.claim[2] = p[2] BY <1>9, <1>10, <1>11, <4>1
      <4> QED BY <1>1, <4>1, <4>2
    <3> QED BY <1>6, <3>1, <3>2
  <2> QED BY <1>5, <1>13, <1>14, <2>1 DEF VisitedInv
<1>16. FoundInv'
  <2>1. \A f \in found' : /\ f.claim \in named' /\ f.claim[2] \in Live
                          /\ Entry(f.claim[2]).kind = "file" /\ f.size = Entry(f.claim[2]).size
    BY <1>1, <1>6, <1>9, <1>10, <1>11 DEF Tree, FoundInv
  <2> QED BY <1>13, <2>1 DEF FoundInv
<1> QED BY <1>1, <1>2, <1>4, <1>5, <1>6, <1>7, <1>12, <1>15, <1>16, MeetKeeps

\* What a directory holds that was not entered yet has no name and does not wait.
LEMMA Untouched ==
  ASSUME Tree, Sound, Counted(image), NEW d \in LiveDirs, Entry(d).start \notin seen, NEW x \in ToSet(ReadPart(d))
  PROVE  ~Named(x) /\ \A c \in Homes : Entered(c) => x \notin ToSet(ReadPart(c))
<1> USE DEF Tree
<1>1. d \in Homes /\ d # Top BY TopIsNoEntry DEF Homes
<1>2. ~Entered(d) BY <1>1 DEF Entered
<1>3. \A c \in Homes : Entered(c) => x \notin ToSet(ReadPart(c)) BY <1>1, <1>2, OneHome
<1>4. x[1] \in {"root", "data"}
  <2>1. PICK i \in DOMAIN ReadPart(d) : x = ReadPart(d)[i] BY DEF ToSet
  <2>2. i \in DOMAIN Listing(d) /\ x = Listing(d)[i] BY <1>1, <2>1, Read
  <2>3. x \in ToSet(Listing(d)) BY <2>2 DEF ToSet
  <2> QED BY <1>1, <2>3, Read
<1>5. ASSUME Named(x) PROVE FALSE
  <2>1. PICK p \in named : p[2] = x BY <1>5 DEF Named
  <2>2. CASE \E h \in Taken : p = LostClaim(h)
    <3>1. p[2][1] = "lost" BY <2>2 DEF LostClaim
    <3> QED BY <1>4, <2>1, <3>1
  <2>3. CASE Given(p)
    <3>1. PICK c \in Homes : \E i \in DOMAIN ReadPart(c) : p[2] = ReadPart(c)[i] /\ Entered(c) BY <2>3 DEF Given
    <3>2. x \in ToSet(ReadPart(c)) BY <2>1, <3>1 DEF ToSet
    <3> QED BY <1>3, <3>1, <3>2
  <2> QED BY <2>1, <2>2, <2>3 DEF NamedInv
<1> QED BY <1>3, <1>5

\* A directory is not as deep as the entries that it is not followed for.
LEMMA NextLevel ==
  ASSUME Tree, Sound, Counted(image), Readable, Entry(Here).kind = "dir"
  PROVE  /\ Here \in LiveDirs /\ Dir.depth \in 0 .. MaxDepth
         /\ \A x \in LiveIn(WrittenIn(Here)) : x \notin LiveTo[Dir.depth]
<1> USE DEF Tree
<1>1. IsLive(Here) BY DEF IsLive
<1>2. Reading /\ pos <= Len(Dir.entries) BY DEF Readable
<1>3. Here \in LiveDirs BY <1>1, NewNamesGiven DEF LiveDirs
<1>4. Dir.depth \in 0 .. MaxDepth BY <1>2, DirIs DEF Directories
<1>5. PICK d \in Homes :
           /\ Dir.depth > 0 => \A x \in LiveIn(Listing(d)) : x \notin LiveTo[Dir.depth - 1]
           /\ pos \in DOMAIN ReadPart(d) /\ Here = ReadPart(d)[pos]
  BY <1>2, HereIs
<1>6. pos \in DOMAIN Listing(d) /\ Here = Listing(d)[pos] BY <1>5, Read
<1>7. Here \in LiveIn(Listing(d)) BY <1>1, <1>6, LiveThere
<1>8. Dir.depth > 0 => Here \notin LiveTo[Dir.depth - 1] BY <1>5, <1>7
<1>9. \A x \in LiveIn(WrittenIn(Here)) : x \notin LiveTo[Dir.depth] BY <1>3, <1>4, <1>8, LevelsBelow
<1> QED BY <1>3, <1>4, <1>9

\* What the entry of a directory does.
LEMMA DirEntryIs ==
  ASSUME DirEntry
  PROVE  /\ Readable /\ Entry(Here).kind = "dir" /\ IsLive(Here)
         /\ UNCHANGED saved /\ UNCHANGED <<phase, searched, found, deleted, excluded>>
         /\ pos' = pos + 1 /\ pending' = {}
         /\ named' = named \cup NewNames
         /\ owners' = owners \cup {<<c, Claim>> : c \in Held(Entry(Here).start)}
         /\ IF Dir.depth >= MaxDepth \/ Entry(Here).start \in seen
             THEN UNCHANGED <<queue, seen>>
             ELSE /\ seen' = seen \cup {Entry(Here).start}
                  /\ queue' = Append(queue,
                       Directory(Key(Name), Contents(Entry(Here).start),
                                 Dir.ancestors \cup Held(Entry(Here).start), Dir.depth + 1,
                                 Dir.keys \cup Keys))
<1>1. Readable /\ Entry(Here).kind = "dir" /\ IsLive(Here) BY DEF DirEntry, Is, IsLive
<1> QED BY <1>1 DEF DirEntry, TakeNames, TakeClusters, NewNames, Held, Contents, Advance

\* A directory is not entered a second time, nor below the last level.
LEMMA RefusedKeeps ==
  ASSUME Tree, Sound, Counted(image), DirEntry, Dir.depth >= MaxDepth \/ Entry(Here).start \in seen
  PROVE  Tree'
<1>1. /\ Readable /\ Entry(Here).kind = "dir" /\ IsLive(Here)
      /\ UNCHANGED saved /\ UNCHANGED <<phase, searched, queue, seen, found, deleted, excluded>>
      /\ pos' = pos + 1 /\ pending' = {}
      /\ named' = named \cup NewNames
      /\ owners' = owners \cup {<<c, Claim>> : c \in Held(Entry(Here).start)}
  BY DirEntryIs
<1>2. Same BY <1>1, Unchanged
<1>3. \A p \in NewNames : p[2] = Here BY <1>1, NewNamesGiven
<1>4. Entry(Here).start \in seen \/ LiveIn(WrittenIn(Here)) = {}
  <2>1. SUFFICES ASSUME Dir.depth >= MaxDepth, NEW x \in LiveIn(WrittenIn(Here)) PROVE FALSE OBVIOUS
  <2>2. Here \in LiveDirs /\ Dir.depth \in 0 .. MaxDepth /\ x \notin LiveTo[Dir.depth] BY <1>1, NextLevel
  <2>3. Dir.depth = MaxDepth BY <2>1, <2>2, FatAssumption
  <2>4. x \in Live BY <2>2, LiveIs
  <2> QED BY <2>2, <2>3, <2>4 DEF Live
<1>5. VisitedInv'
  <2>1. \A e : Entry(e)' = Entry(e) /\ Live' = Live BY <1>2 DEF Same
  <2>2. \A e : WrittenIn(e)' = WrittenIn(e) /\ \A E : LiveIn(E)' = LiveIn(E) BY <1>2 DEF Same
  <2>3. \A p \in named' : p[2] \in Live =>
          IF Entry(p[2]).kind = "file" THEN \E f \in found' : f.claim[2] = p[2]
          ELSE Entry(p[2]).start \in seen \/ LiveIn(WrittenIn(p[2])) = {}
    BY <1>1, <1>3, <1>4 DEF Tree, VisitedInv
  <2> QED BY <1>1, <2>1, <2>2, <2>3 DEF VisitedInv
<1>6. FoundInv'
  <2>1. \A e : Entry(e)' = Entry(e) /\ Live' = Live BY <1>2 DEF Same
  <2> QED BY <1>1, <2>1 DEF Tree, FoundInv
<1> QED BY <1>1, <1>2, <1>5, <1>6, MeetKeeps

\* The directory that an entry brings.
LEMMA NewDirectory ==
  ASSUME Tree, Sound, Counted(image), Readable, Entry(Here).kind = "dir", Dir.depth < MaxDepth,
         NEW N, N = Directory(Key(Name), Contents(Entry(Here).start),
                              Dir.ancestors \cup Held(Entry(Here).start), Dir.depth + 1, Dir.keys \cup Keys)
  PROVE  /\ N \in Directories /\ N.entries = ReadPart(Here) /\ N.key = Key(Name)
         /\ N.ancestors = Dir.ancestors \cup Held(Entry(Here).start) /\ N.depth = Dir.depth + 1
<1>1. Here \in LiveDirs /\ Dir.depth \in 0 .. MaxDepth BY NextLevel
<1>2. ReadPart(Here) = Contents(Entry(Here).start) /\ Here \in Homes BY <1>1, TopIsNoEntry DEF Homes
<1>3. Keys \subseteq Keyed /\ Key(Name) \in Keyed
  <2>1. IsLive(Here) BY DEF IsLive
  <2> QED BY <2>1, NewNamesGiven
<1>4. Dir \in Directories BY DirIs DEF Readable, Tree
<1>5. Dir.ancestors \subseteq Clusters /\ Dir.keys \subseteq Keyed BY <1>4 DEF Directories
<1>6. Held(Entry(Here).start) \subseteq Clusters BY ChainsTyped DEF Held, ToSet
<1>7. Dir.depth + 1 \in 0 .. MaxDepth BY <1>1, FatAssumption
<1>8. ReadPart(Here) \in {ReadPart(d) : d \in Homes} BY <1>2
<1>9. PICK a : a = Dir.ancestors \cup Held(Entry(Here).start) OBVIOUS
<1>10. PICK k : k = Dir.keys \cup Keys OBVIOUS
<1>11. a \in SUBSET Clusters /\ k \in SUBSET Keyed BY <1>3, <1>5, <1>6, <1>9, <1>10
<1>12. N = [key |-> Key(Name), entries |-> ReadPart(Here), ancestors |-> a, depth |-> Dir.depth + 1, keys |-> k]
  BY <1>2, <1>9, <1>10 DEF Directory
<1>13. PICK r, y, m : r = ReadPart(Here) /\ y = Key(Name) /\ m = Dir.depth + 1 OBVIOUS
<1>14. N = [key |-> y, entries |-> r, ancestors |-> a, depth |-> m, keys |-> k] BY <1>12, <1>13
<1>15. r \in {ReadPart(d) : d \in Homes} /\ y \in Keyed /\ m \in 0 .. MaxDepth BY <1>3, <1>7, <1>8, <1>13
<1>16. N \in Directories
  <2>1. PICK K, A, E : K = Keyed /\ A = SUBSET Clusters /\ E = {ReadPart(d) : d \in Homes} OBVIOUS
  <2>2. PICK L, M : L = SUBSET K /\ M = 0 .. MaxDepth OBVIOUS
  <2>3. Directories = [key : K, entries : E, ancestors : A, depth : M, keys : L]
    BY <2>1, <2>2 DEF Directories
  <2>4. r \in E /\ y \in K /\ k \in L /\ a \in A /\ m \in M BY <1>11, <1>15, <2>1, <2>2
  <2>5. [key |-> y, entries |-> r, ancestors |-> a, depth |-> m, keys |-> k]
          \in [key : K, entries : E, ancestors : A, depth : M, keys : L]
    BY <2>4, Zenon
  <2> QED BY <1>14, <2>3, <2>5
<1>17. N.entries = r /\ N.key = y /\ N.ancestors = a /\ N.depth = m BY <1>14
<1> QED BY <1>9, <1>13, <1>16, <1>17

\* One more at the end of a sequence.
LEMMA Appended ==
  ASSUME NEW S, NEW s \in Seq(S), NEW x \in S
  PROVE  /\ Append(s, x) \in Seq(S) /\ Append(s, x) # <<>>
         /\ DOMAIN s = 1 .. Len(s) /\ Len(s) \in Nat /\ DOMAIN Append(s, x) = 1 .. Len(s) + 1
         /\ \A i \in DOMAIN s : i \in DOMAIN Append(s, x) /\ Append(s, x)[i] = s[i]
         /\ Append(s, x)[Len(s) + 1] = x
         /\ \A i \in DOMAIN Append(s, x) : i \in DOMAIN s \/ i = Len(s) + 1
OBVIOUS

\* A directory is entered.
LEMMA EnteredKeeps ==
  ASSUME Tree, Sound, Counted(image), DirEntry, ~(Dir.depth >= MaxDepth \/ Entry(Here).start \in seen)
  PROVE  Tree'
<1> USE DEF Tree
<1>0. PICK C : C = Held(Entry(Here).start) OBVIOUS
<1>00. PICK here, s : here = Here /\ s = Entry(Here).start OBVIOUS
<1>1. PICK N : N = Directory(Key(Name), Contents(Entry(Here).start),
                             Dir.ancestors \cup Held(Entry(Here).start), Dir.depth + 1, Dir.keys \cup Keys)
  OBVIOUS
<1>2. /\ Readable /\ Entry(Here).kind = "dir" /\ IsLive(Here)
      /\ UNCHANGED saved /\ UNCHANGED <<phase, searched, found, deleted, excluded>>
      /\ pos' = pos + 1 /\ pending' = {}
      /\ named' = named \cup NewNames
      /\ owners' = owners \cup {<<c, Claim>> : c \in C}
      /\ seen' = seen \cup {s}
      /\ queue' = Append(queue, N)
  BY <1>0, <1>00, <1>1, DirEntryIs
<1>3. Same BY <1>2, Unchanged
<1>4. Reading /\ pos <= Len(Dir.entries) BY <1>2 DEF Readable
<1>5. Here \in LiveDirs /\ Here \in Homes /\ Here # Top /\ s \notin seen BY <1>00, <1>2, NextLevel, TopIsNoEntry DEF Homes
<1>6. Dir.depth \in 0 .. MaxDepth /\ Dir.depth < MaxDepth
      /\ \A x \in LiveIn(WrittenIn(Here)) : x \notin LiveTo[Dir.depth]
  BY <1>2, NextLevel, FatAssumption
<1>7. /\ N \in Directories /\ N.entries = ReadPart(Here) /\ N.key = Key(Name)
      /\ N.ancestors = Dir.ancestors \cup C /\ N.depth = Dir.depth + 1
  BY <1>0, <1>1, <1>2, <1>6, NewDirectory
<1>8. seen \subseteq seen' /\ named \subseteq named' BY <1>2
<1>9. /\ NamedInv' /\ Apart' /\ TakenInv' /\ OwnersInv'
      /\ Taken' = Taken /\ \A e : Named(e)' <=> Named(e) \/ e = Here
  BY <1>0, <1>2, <1>3, <1>8, TakeKeeps
<1>10. /\ \A p \in NewNames : p[2] = Here
       /\ Claim \in NewNames /\ Claim[2] = Here /\ Claim[1] = Key(Name)
  BY <1>2, NewNamesGiven
<1>11. SearchInv' BY <1>2, <1>3, <1>9, StillSearched
<1>12. PendingInv' BY <1>2 DEF PendingInv
<1>13. \A e : Entry(e)' = Entry(e) /\ LiveDirs' = LiveDirs /\ Live' = Live /\ Homes' = Homes BY <1>3 DEF Same
<1>14. SeenInv'
  <2>1. \A t \in seen' : t \in Taken \/ \E p \in named' : p[2] \in LiveDirs /\ Entry(p[2]).start = t
    <3>1. Claim \in named' /\ Claim[2] \in LiveDirs /\ Entry(Claim[2]).start = s BY <1>00, <1>2, <1>5, <1>10
    <3> QED BY <1>2, <3>1 DEF SeenInv
  <2> QED BY <1>9, <1>13, <2>1 DEF SeenInv
<1>15. queue \in Seq(Directories) /\ queue # <<>> BY <1>4 DEF QueueInv, Reading
<1>16. PICK n : n = Len(queue) + 1 OBVIOUS
<1>17. /\ queue' \in Seq(Directories) /\ queue' # <<>>
       /\ DOMAIN queue = 1 .. Len(queue) /\ n \in Nat /\ n > 1
       /\ \A i \in DOMAIN queue : i \in DOMAIN queue' /\ queue'[i] = queue[i] /\ i # n
       /\ n \in DOMAIN queue' /\ queue'[n] = N
       /\ \A i \in DOMAIN queue' : i \in DOMAIN queue \/ i = n
  <2>1. /\ Append(queue, N) \in Seq(Directories) /\ Append(queue, N) # <<>>
        /\ DOMAIN queue = 1 .. Len(queue) /\ Len(queue) \in Nat /\ DOMAIN Append(queue, N) = 1 .. Len(queue) + 1
        /\ \A i \in DOMAIN queue : i \in DOMAIN Append(queue, N) /\ Append(queue, N)[i] = queue[i]
        /\ Append(queue, N)[Len(queue) + 1] = N
        /\ \A i \in DOMAIN Append(queue, N) : i \in DOMAIN queue \/ i = Len(queue) + 1
    BY <1>7, <1>15, Appended
  <2>2. Len(queue) # 0 BY <1>15
  <2>3. n \in Nat /\ n > 1 /\ \A i \in DOMAIN queue : i # n BY <1>16, <2>1, <2>2
  <2>4. n \in 1 .. Len(queue) + 1 BY <1>16, <2>1
  <2> QED BY <1>2, <1>16, <2>1, <2>3, <2>4
<1>18. Sourced(N)'
  <2>1. \A D : (N.entries = ReadPart(Here)) => N.entries = ReadPart(Here) OBVIOUS
  <2>2. Opens(N.key, here)'
    <3>1. Claim = <<Key(Name), Here>> BY DEF Claim
    <3>2. <<N.key, here>> \in named' BY <1>00, <1>2, <1>7, <1>10, <3>1
    <3>3. here # Top BY <1>00, <1>5
    <3> QED BY <3>2, <3>3 DEF Opens, Top
  <2>3. Entered(here)'
    <3>1. Entry(here)' = Entry(here) /\ Entry(here).start = s BY <1>00, <1>13
    <3> QED BY <1>2, <3>1 DEF Entered
  <2>4. here \in Homes' /\ N.entries = ReadPart(here)'
    <3>1. ReadPart(here)' = ReadPart(here) BY <1>3 DEF Same
    <3> QED BY <1>00, <1>5, <1>7, <1>13, <3>1
  <2>5. \A x \in LiveIn(Listing(here)) : x \notin LiveTo[N.depth - 1]
    <3>1. Listing(here) = WrittenIn(here) BY <1>00, <1>5, TopIsNoEntry
    <3>2. N.depth - 1 = Dir.depth BY <1>6, <1>7, FatAssumption
    <3> QED BY <1>00, <1>6, <3>1, <3>2
  <2>6. Listing(here)' = Listing(here) /\ LiveTo' = LiveTo /\ \A E : LiveIn(E)' = LiveIn(E) BY <1>3 DEF Same
  <2>7. \A x \in LiveIn(Listing(here))' : x \notin LiveTo'[N.depth - 1] BY <2>5, <2>6
  <2> QED BY <2>2, <2>3, <2>4, <2>7 DEF Sourced
<1>19. \A D : Sourced(D) => Sourced(D)' BY <1>3, <1>8, Grown
<1>20. QueueInv'
  <2>1. PICK q : q = queue' OBVIOUS
  <2>2. \A i \in DOMAIN q : Sourced(q[i])'
    <3> SUFFICES ASSUME NEW i \in DOMAIN q PROVE Sourced(q[i])' OBVIOUS
    <3>1. CASE i = n
      <4>1. q[i] = N BY <1>17, <2>1, <3>1
      <4> QED BY <1>18, <4>1
    <3>2. CASE i \in DOMAIN queue
      <4>1. PICK D : D = queue[i] OBVIOUS
      <4>2. q[i] = D BY <1>17, <2>1, <3>2, <4>1
      <4>3. Sourced(D) BY <3>2, <4>1 DEF QueueInv
      <4>4. Sourced(D)' BY <1>19, <4>3
      <4> QED BY <4>2, <4>4
    <3> QED BY <1>17, <2>1, <3>1, <3>2
  <2>3. Directories' = Directories BY <1>3 DEF Same
  <2>4. queue' \in Seq(Directories') BY <1>17, <2>3
  <2>5. \A i \in DOMAIN queue' : Sourced(queue[i])' BY <2>1, <2>2
  <2> QED BY <2>4, <2>5 DEF QueueInv
<1>21. DOMAIN ReadPart(Here) = 1 .. Len(ReadPart(Here)) BY <1>5, Read
<1>22. \A e : Waits(e)' <=> (Waits(e) /\ e # Here) \/ e \in ToSet(ReadPart(Here))
  <2> SUFFICES ASSUME NEW e PROVE Waits(e)' <=> (Waits(e) /\ e # Here) \/ e \in ToSet(ReadPart(Here)) OBVIOUS
  <2>1. WaitsBehind(e) <=> Waits(e) /\ e # Here BY <1>4, BehindIs
  <2>2. Waits(e)' <=> \E i \in DOMAIN queue' : \E j \in DOMAIN queue'[i].entries :
                        (i > 1 \/ j >= pos + 1) /\ queue'[i].entries[j] = e
    BY <1>2 DEF Waits
  <2>3. Waits(e)' <=> \/ \E i \in DOMAIN queue : \E j \in DOMAIN queue[i].entries :
                           (i > 1 \/ j >= pos + 1) /\ queue[i].entries[j] = e
                      \/ \E j \in DOMAIN N.entries : N.entries[j] = e
    BY <1>17, <2>2
  <2>4. e \in ToSet(ReadPart(Here)) <=> \E j \in DOMAIN N.entries : N.entries[j] = e BY <1>7 DEF ToSet
  <2> QED BY <2>1, <2>3, <2>4 DEF WaitsBehind
<1>23. \A x \in ToSet(ReadPart(Here)) : ~Named(x) /\ \A c \in Homes : Entered(c) => x \notin ToSet(ReadPart(c))
  BY <1>00, <1>5, Untouched
<1>24. \A i \in DOMAIN queue : \E c \in Homes : queue[i].entries = ReadPart(c) /\ Entered(c)
  BY DEF QueueInv, Sourced
<1>25. 1 \in DOMAIN queue /\ Dir = queue[1] /\ Here \in ToSet(Dir.entries) /\ Waits(Here)
  BY <1>4, DirIs, HereIs
<1>26. Here \notin ToSet(ReadPart(Here)) BY <1>23, <1>24, <1>25
<1>27. WaitingInv'
  <2>1. \A i \in DOMAIN queue : ToSet(queue[i].entries) \cap ToSet(ReadPart(Here)) = {} BY <1>23, <1>24
  <2>2. \A i, k \in DOMAIN queue : i # k => ToSet(queue[i].entries) \cap ToSet(queue[k].entries) = {}
    BY DEF WaitingInv
  <2>3. \A i, k \in DOMAIN queue' : i # k => ToSet(queue'[i].entries) \cap ToSet(queue'[k].entries) = {}
    BY <1>7, <1>17, <2>1, <2>2
  <2>4. \A e : Waits(e)' => ~Named(e)' BY <1>9, <1>22, <1>23, <1>26 DEF WaitingInv
  <2> QED BY <2>3, <2>4 DEF WaitingInv
<1>28. ProgressInv'
  <2>1. \A d : Entered(d)' => Entered(d) \/ (d # Top /\ Entry(d).start = s) BY <1>2, <1>13 DEF Entered, Top
  <2>2. bad' = bad /\ \A d : ReadPart(d)' = ReadPart(d) BY <1>3 DEF Same
  <2>3. \A x : SectorOf(x)' = SectorOf(x) OBVIOUS
  <2>4. \A d \in Homes : d # Top /\ Entry(d).start = s => ReadPart(d) = ReadPart(Here)
    BY <1>00, <1>5 DEF ReadPart
  <2>5. phase = "scan" BY <1>4 DEF Reading
  <2>6. \A d \in Homes : Entered(d) =>
          \A x \in ToSet(ReadPart(d)) : x \in Live /\ SectorOf(x) \notin bad => Named(x) \/ Waits(x)
    BY <2>5 DEF ProgressInv
  <2>7. \A d \in Homes : Entered(d)' =>
          \A x \in ToSet(ReadPart(d)) : x \in Live /\ SectorOf(x) \notin bad => Named(x)' \/ Waits(x)'
    BY <1>9, <1>22, <2>1, <2>4, <2>6
  <2> QED BY <1>13, <2>2, <2>3, <2>7 DEF ProgressInv
<1>29. VisitedInv'
  <2>1. \A e : WrittenIn(e)' = WrittenIn(e) /\ \A E : LiveIn(E)' = LiveIn(E) BY <1>3 DEF Same
  <2>2. \A p \in named' : p[2] \in Live =>
          IF Entry(p[2]).kind = "file" THEN \E f \in found' : f.claim[2] = p[2]
          ELSE Entry(p[2]).start \in seen' \/ LiveIn(WrittenIn(p[2])) = {}
    BY <1>00, <1>2, <1>10 DEF VisitedInv
  <2> QED BY <1>13, <2>1, <2>2 DEF VisitedInv
<1>30. FoundInv' BY <1>2, <1>13 DEF FoundInv
<1>31. PathInv'
  <2>1. SUFFICES ASSUME NEW H \in SUBSET Trees, Closed(H)'
                 PROVE  /\ \A i \in DOMAIN queue' : \A x \in ToSet(queue'[i].entries) :
                             Within(x, H) => queue'[i].ancestors \subseteq Span(H)
                        /\ \A f \in found : Within(f.claim[2], H) => f.ancestors \subseteq Span(H)
    BY <1>2, <1>3 DEF PathInv, Same
  <2>2. Closed(H) BY <1>3, <1>9, <2>1 DEF Closed, Same
  <2>3. \A i \in DOMAIN queue : \A x \in ToSet(queue[i].entries) :
          Within(x, H) => queue[i].ancestors \subseteq Span(H)
    BY <2>2 DEF PathInv
  <2>4. \A f \in found : Within(f.claim[2], H) => f.ancestors \subseteq Span(H) BY <2>2 DEF PathInv
  <2>5. ASSUME NEW x \in ToSet(N.entries), Within(x, H) PROVE N.ancestors \subseteq Span(H)
    <3>1. PICK d \in H \cup {Top} : x \in ToSet(ReadPart(d)) BY <2>5 DEF Within
    <3>2. d \in Homes BY DEF Trees, Homes
    <3>3. d = Here BY <1>5, <1>7, <2>5, <3>1, <3>2, OneHome
    <3>4. Here \in H BY <1>5, <3>3
    <3>5. s \notin Taken BY <1>5 DEF TakenInv
    <3>6. Within(Here, H) BY <1>00, <2>2, <3>4, <3>5 DEF Closed
    <3>7. Dir.ancestors \subseteq Span(H) BY <1>25, <2>3, <3>6
    <3>8. C \subseteq Span(H) BY <1>0, <3>4 DEF Span
    <3> QED BY <1>7, <3>7, <3>8
  <2>6. \A i \in DOMAIN queue' : \A x \in ToSet(queue'[i].entries) :
          Within(x, H) => queue'[i].ancestors \subseteq Span(H)
    BY <1>17, <2>3, <2>5
  <2> QED BY <2>4, <2>6
<1>32. ShapeInv'
  <2>1. phase = "scan" BY <1>4 DEF Reading
  <2> QED BY <1>2, <1>17, <2>1 DEF ShapeInv
<1> QED BY <1>9, <1>11, <1>12, <1>14, <1>20, <1>27, <1>28, <1>29, <1>30, <1>31, <1>32

\* A name is a lost directory's, or that of a live entry that was read.
LEMMA NameIs ==
  ASSUME Tree, Sound, Counted(image), NEW p \in named
  PROVE  \/ \E h \in Taken : p = LostClaim(h)
         \/ /\ Given(p) /\ p[2] \in Live /\ SectorOf(p[2]) \notin bad /\ p[2][1] \in {"root", "data"}
            /\ StartOf(p[2]) = Entry(p[2]).start
            /\ \E d \in Homes : p[2] \in ToSet(ReadPart(d)) /\ Entered(d)
            /\ \E k \in Keyed, n \in Names : p[1] = Append(k, n)
<1>1. SUFFICES ASSUME Given(p)
               PROVE  /\ p[2] \in Live /\ SectorOf(p[2]) \notin bad /\ p[2][1] \in {"root", "data"}
                      /\ StartOf(p[2]) = Entry(p[2]).start
                      /\ \E d \in Homes : p[2] \in ToSet(ReadPart(d)) /\ Entered(d)
                      /\ \E k \in Keyed, n \in Names : p[1] = Append(k, n)
  BY DEF Tree, NamedInv
<1>2. PICK d \in Homes, k \in Keyed, n \in Names : \E i \in DOMAIN ReadPart(d) :
        /\ p[1] = Append(k, n) /\ p[2] = ReadPart(d)[i] /\ Entered(d)
        /\ ReadPart(d)[i] \in Live /\ SectorOf(ReadPart(d)[i]) \notin bad
  BY <1>1 DEF Given
<1>3. p[2] \in ToSet(ReadPart(d)) /\ p[2] \in Live /\ SectorOf(p[2]) \notin bad /\ Entered(d) BY <1>2 DEF ToSet
<1>4. p[2][1] \in {"root", "data"} BY <1>3, TopIsNoEntry
<1>5. StartOf(p[2]) = Entry(p[2]).start BY <1>4 DEF StartOf
<1> QED BY <1>2, <1>3, <1>4, <1>5

\* When the queue is empty, what can be read from named entries on has names.
LEMMA AllNamed ==
  ASSUME Tree, Sound, Counted(image), phase \in {"scan", "judged"}, queue = <<>>, NEW start, NEW closed,
         \A x \in start : x \in Live /\ SectorOf(x) \notin bad /\ Named(x)
  PROVE  \A x \in ReadFrom(start, closed) : x \in Live /\ SectorOf(x) \notin bad /\ Named(x)
<1> DEFINE P == {x \in Live : SectorOf(x) \notin bad /\ Named(x)}
<1>1. start \subseteq P OBVIOUS
<1>2. ASSUME NEW e \in P, Entry(e).kind = "dir", NEW x \in ReadOf(e) PROVE x \in P
  <2>1. e \in LiveDirs /\ e \in Homes BY <1>2 DEF LiveDirs, Homes
  <2>2. x \in ToSet(ReadPart(e)) /\ x \in Live /\ SectorOf(x) \notin bad BY <2>1, ReadOfIs
  <2>3. PICK i \in DOMAIN ReadPart(e) : x = ReadPart(e)[i] BY <2>2 DEF ToSet
  <2>4. i \in DOMAIN Listing(e) /\ x = Listing(e)[i] BY <2>1, <2>3, Read
  <2>5. IsLive(x) BY <2>2, LiveIs
  <2>6. x \in LiveIn(WrittenIn(e)) BY <2>1, <2>4, <2>5, LiveThere, TopIsNoEntry
  <2>7. PICK p \in named : p[2] = e BY <1>2 DEF Named
  <2>8. Entry(e).start \in seen
    <3>1. Entry(e).kind # "file" BY <1>2
    <3> QED BY <1>2, <2>6, <2>7, <3>1 DEF Tree, VisitedInv
  <2>9. Entered(e) BY <2>8 DEF Entered
  <2>10. Named(x) \/ Waits(x) BY <2>1, <2>2, <2>9 DEF Tree, ProgressInv
  <2>11. ~Waits(x) BY DEF Waits
  <2> QED BY <2>2, <2>10, <2>11
<1>3. \A e \in P : Entry(e).kind = "dir" /\ Entry(e).start \notin closed => ReadOf(e) \subseteq P BY <1>2
<1> HIDE DEF P
<1>4. ReadFrom(start, closed) \subseteq P BY <1>1, <1>3, ReadWithin
<1> QED BY <1>4 DEF P

\* When the queue is empty, all that can be read from the root has a name.
LEMMA RootedNamed ==
  ASSUME Tree, Sound, Counted(image), phase \in {"scan", "judged"}, queue = <<>>
  PROVE  \A x \in Rooted : x \in Live /\ SectorOf(x) \notin bad /\ Named(x)
<1>1. ASSUME NEW x \in ReadIn(RootEntries) PROVE x \in Live /\ SectorOf(x) \notin bad /\ Named(x)
  <2>1. x \in ToSet(RootEntries) /\ x \in Live /\ SectorOf(x) \notin bad BY ReadInRoot
  <2>2. Top \in Homes /\ ReadPart(Top) = RootEntries /\ Entered(Top) BY DEF Homes, ReadPart, Entered
  <2>3. Named(x) \/ Waits(x) BY <2>1, <2>2 DEF Tree, ProgressInv
  <2>4. ~Waits(x) BY DEF Waits
  <2> QED BY <2>1, <2>3, <2>4
<1> QED BY <1>1, AllNamed DEF Rooted

\* A link that was read was written.
LEMMA LinkedAs ==
  ASSUME Sound, NEW c \in Clusters, Link(c) \in Clusters \cup {End}
  PROVE  image.fat[1][c] = Link(c)
<1>1. image.fat[1] = image.fat[2] BY DEF Sound
<1>2. Link(c) \in {image.fat[1][c], Unreadable} BY <1>1, LinkIs
<1>3. Unreadable \notin Clusters \cup {End} BY ClusterCount DEF Unreadable, End
<1> QED BY <1>2, <1>3

\* A cluster of a live entry is linked to once at most, its first never.
LEMMA OneWayIn ==
  ASSUME Sound, NEW e \in Live, NEW c \in ToSet(W(Entry(e).start))
  PROVE  Cardinality(Incoming(c)) <= 1 /\ (c = Entry(e).start => Incoming(c) = {})
<1> DEFINE w == W(Entry(e).start)
<1>1. w \in Seq(Clusters) /\ \A i, j \in DOMAIN w : w[i] = w[j] => i = j BY WrittenIs DEF IsChain, W
<1>2. c \in Clusters BY <1>1 DEF ToSet
<1>3. ASSUME NEW a \in Incoming(c)
      PROVE  \E i \in DOMAIN w : w[i] = a /\ i + 1 \in DOMAIN w /\ w[i + 1] = c
  <2>1. a \in Clusters /\ Link(a) = c BY DEF Incoming
  <2>2. image.fat[1][a] = c BY <1>2, <2>1, LinkedAs
  <2>3. PICK d \in Live : \E i \in DOMAIN W(Entry(d).start) :
           /\ W(Entry(d).start)[i] = a
           /\ i + 1 \in DOMAIN W(Entry(d).start) /\ W(Entry(d).start)[i + 1] = c
    BY <1>2, <2>1, <2>2, Predecessor
  <2>4. c \in ToSet(W(Entry(d).start)) BY <2>3 DEF ToSet
  <2>5. d = e BY <2>4, Disjoint
  <2> QED BY <2>3, <2>5
<1> HIDE DEF w
<1>4. ASSUME NEW a \in Incoming(c), NEW b \in Incoming(c) PROVE a = b
  <2>1. PICK i \in DOMAIN w : w[i] = a /\ i + 1 \in DOMAIN w /\ w[i + 1] = c BY <1>3
  <2>2. PICK j \in DOMAIN w : w[j] = b /\ j + 1 \in DOMAIN w /\ w[j + 1] = c BY <1>3
  <2>3. i + 1 = j + 1 BY <1>1, <2>1, <2>2
  <2>4. i \in Nat /\ j \in Nat BY <1>1
  <2> QED BY <2>1, <2>2, <2>3, <2>4
<1>5. Cardinality(Incoming(c)) <= 1
  <2>1. CASE Incoming(c) = {} BY <2>1, FS_EmptySet
  <2>2. CASE Incoming(c) # {}
    <3>1. PICK a : a \in Incoming(c) BY <2>2
    <3>2. Incoming(c) = {a} BY <1>4, <3>1
    <3>3. Cardinality({a}) = 1 BY FS_Singleton
    <3> QED BY <3>2, <3>3
  <2> QED BY <2>1, <2>2
<1>6. ASSUME c = Entry(e).start, NEW a \in Incoming(c) PROVE FALSE
  <2>1. PICK i \in DOMAIN w : i + 1 \in DOMAIN w /\ w[i + 1] = c BY <1>3
  <2>2. w # <<>> /\ w[1] = c BY <1>2, <1>6, StartIs DEF w
  <2>3. 1 \in DOMAIN w /\ i \in Nat /\ i >= 1 BY <1>1, <2>2
  <2>4. i + 1 = 1 BY <1>1, <2>1, <2>2, <2>3
  <2> QED BY <2>3, <2>4
<1> QED BY <1>5, <1>6

\* What has the chain of a directory by itself.
LEMMA WholeChain ==
  ASSUME NEW h, Chain(h).error = "none"
  PROVE  h \in Clusters /\ h \in Held(h) /\ Link(h) \in Clusters \cup {End}
<1> DEFINE c == Chain(h).clusters
<1>1. /\ c \in Seq(Clusters) /\ c # <<>> /\ c[1] = h /\ Links[c[Len(c)]] = End
      /\ \A i \in DOMAIN c : i # 1 => i - 1 \in DOMAIN c /\ Links[c[i - 1]] = c[i]
  BY ChainIs DEF IsChain
<1>2. ToSet(c) = Held(h) BY DEF Held
<1> HIDE DEF c
<1>3. 1 \in DOMAIN c /\ Len(c) \in Nat /\ DOMAIN c = 1 .. Len(c) /\ \A i \in DOMAIN c : c[i] \in Clusters BY <1>1
<1>4. h \in Clusters /\ h \in ToSet(c) BY <1>1, <1>3 DEF ToSet
<1>5. Links[h] \in Clusters \cup {End}
  <2>1. CASE Len(c) = 1 BY <1>1, <2>1
  <2>2. CASE Len(c) > 1
    <3>1. 2 \in DOMAIN c /\ 2 # 1 /\ 2 - 1 = 1 BY <1>3, <2>2
    <3> QED BY <1>1, <1>3, <3>1
  <2> QED BY <1>3, <2>1, <2>2
<1>6. Links[h] = Link(h) BY <1>4 DEF Links
<1> QED BY <1>2, <1>4, <1>5, <1>6

-----------------------------------------------------------------------------
(* The search for lost directories, when nothing was taken for one yet.    *)

\* A cluster that is claimed belongs to an entry that was read.
LEMMA OwnerIs ==
  ASSUME Tree, Sound, Counted(image), Taken = {}, NEW c \in Owned
  PROVE  \E x \in Live : SectorOf(x) \notin bad /\ Named(x) /\ c \in ToSet(W(Entry(x).start)) /\ c \in Clusters
<1>1. PICK q \in owners : q[1] = c BY DEF Owned
<1>2. q[2] \in named /\ c \in Held(StartOf(q[2][2])) BY <1>1 DEF Tree, OwnersInv
<1>3. PICK p \in named : p = q[2] BY <1>2
<1>4. /\ p[2] \in Live /\ SectorOf(p[2]) \notin bad /\ StartOf(p[2]) = Entry(p[2]).start BY NameIs
<1>5. Named(p[2]) BY DEF Named
<1>6. c \in Held(Entry(p[2]).start) BY <1>2, <1>3, <1>4
<1>7. image.fat[1] = image.fat[2] BY DEF Sound
<1>8. c \in ToSet(W(Entry(p[2]).start)) /\ c \in Clusters BY <1>6, <1>7, HeldIsWritten
<1> QED BY <1>4, <1>5, <1>8

\* What looks like a lost directory is a live one that was not read.
LEMMA AnchoredIs ==
  ASSUME Tree, Sound, Counted(image), Taken = {}, NEW h \in Clusters, Anchored(h)
  PROVE  /\ \E d \in LiveDirs : Entry(d).start = h
         /\ h \in Held(h) /\ Held(h) \cap Owned = {} /\ h \notin seen /\ Traces(h)
<1>1. /\ Link(h) \in Clusters \cup {End} /\ image.parent[h] \in Clusters \cup {0}
      /\ Chain(h).error = "none" /\ DataSector(h) \notin bad
      /\ HasChild(EntriesOfChain(Chain(h).clusters))
      /\ \A i \in DOMAIN Chain(h).clusters : Chain(h).clusters[i] \notin Owned
  BY DEF Anchored
<1>2. h \in Held(h) BY <1>1, WholeChain
<1>3. Held(h) \cap Owned = {} BY <1>1 DEF Held, ToSet
<1>4. Traces(h) BY <1>1 DEF Traces
<1>5. image.fat[1][h] \in Clusters \cup {End} BY <1>1, LinkedAs
<1>6. \E d \in LiveDirs : Entry(d).start = h BY <1>1, <1>5 DEF Sound, DotsTrue
<1>7. ASSUME h \in seen PROVE FALSE
  <2>1. PICK p \in named : p[2] \in LiveDirs /\ Entry(p[2]).start = h BY <1>7 DEF Tree, SeenInv
  <2>2. StartOf(p[2]) = h BY <2>1, NameIs
  <2>3. Held(h) \subseteq Owned BY <2>2 DEF Tree, OwnersInv
  <2> QED BY <1>2, <1>3, <2>3
<1> QED BY <1>2, <1>3, <1>4, <1>6, <1>7

\* No directory that can be reached from the root looks lost.
LEMMA RootedKnown ==
  ASSUME Tree, Sound, Counted(image), Taken = {}, phase = "scan", queue = <<>>,
         NEW d \in Rooted, Entry(d).start \in Clusters
  PROVE  ~Anchored(Entry(d).start)
<1>1. SUFFICES ASSUME Anchored(Entry(d).start) PROVE FALSE OBVIOUS
<1>2. PICK p \in named : p[2] = d BY RootedNamed DEF Named
<1>3. StartOf(d) = Entry(d).start BY <1>2, NameIs
<1>4. Held(Entry(d).start) \subseteq Owned BY <1>2, <1>3 DEF Tree, OwnersInv
<1> QED BY <1>1, <1>4, AnchoredIs

\* The directory that one's dot entries name.
LEMMA ParentIs ==
  ASSUME Sound, Counted(image), NEW e \in LiveDirs, Link(Entry(e).start) \in Clusters \cup {End},
         Entry(e).start \in Clusters,
         NEW parent \in Clusters, parent = image.parent[Entry(e).start]
  PROVE  \E d \in LiveDirs : Entry(d).start = parent /\ e \in LiveIn(WrittenIn(d))
<1>1. PICK h : h = Entry(e).start OBVIOUS
<1>2. image.fat[1][h] \in Clusters \cup {End} BY <1>1, LinkedAs
<1>3. parent # 0 BY ClusterCount
<1>4. PICK c \in LiveDirs : /\ Entry(c).start = h
                            /\ \/ image.parent[h] = 0 /\ c \in LiveIn(RootEntries)
                               \/ \E d \in LiveDirs : Entry(d).start = image.parent[h] /\ c \in LiveIn(WrittenIn(d))
  BY <1>1, <1>2 DEF Sound, DotsTrue
<1>5. c = e BY <1>1, <1>4, SameStart DEF LiveDirs
<1> QED BY <1>1, <1>3, <1>4, <1>5

\* A directory that gives itself away is taken for a lost one.
LEMMA AloneIsLost ==
  ASSUME Tree, Sound, Counted(image), Taken = {}, phase = "scan", queue = <<>>, NEW e \in Alone
  PROVE  Entry(e).start \in Lost
<1>1. PICK h : h = Entry(e).start OBVIOUS
<1>2. PICK parent : parent = image.parent[h] OBVIOUS
<1>3. /\ e \in LiveDirs /\ e \in Live /\ SectorOf(e) \in bad /\ Traces(h)
      /\ parent \in (Clusters \cup {0}) \ {h} /\ parent \notin excluded
      /\ ToSet(Chain(h).clusters) \cap excluded = {}
      /\ \A d \in LiveDirs \ Rooted : Entry(d).start = parent => ~Traces(parent)
  BY <1>1, <1>2 DEF Alone, GivesItselfAway, LiveDirs
<1>4. Chain(h).error = "none" /\ DataSector(h) \notin bad /\ HasChild(EntriesOfChain(Chain(h).clusters))
  BY <1>3 DEF Traces
<1>5. h \in Clusters /\ Link(h) \in Clusters \cup {End} BY <1>4, WholeChain
<1>6. \A c \in Held(h) : c \in ToSet(W(h))
  <2>1. image.fat[1] = image.fat[2] BY DEF Sound
  <2> QED BY <2>1, HeldIsWritten
<1>7. \A c \in Held(h) : Cardinality(Incoming(c)) <= 1 BY <1>1, <1>3, <1>6, OneWayIn
<1>8. Incoming(h) = {}
  <2>1. h \in ToSet(W(Entry(e).start)) BY <1>1, <1>4, <1>6, WholeChain
  <2> QED BY <1>1, <1>3, <2>1, OneWayIn
<1>9. \A c \in Held(h) : c \notin Owned
  <2> SUFFICES ASSUME NEW c \in Held(h), c \in Owned PROVE FALSE OBVIOUS
  <2>1. PICK x \in Live : SectorOf(x) \notin bad /\ c \in ToSet(W(Entry(x).start)) BY OwnerIs
  <2>2. x = e BY <1>1, <1>3, <1>6, <2>1, Disjoint
  <2> QED BY <1>3, <2>1, <2>2
<1>10. parent \in Owned => parent \in seen
  <2> SUFFICES ASSUME parent \in Owned PROVE parent \in seen OBVIOUS
  <2>1. PICK x \in Live : Named(x) /\ parent \in ToSet(W(Entry(x).start)) /\ parent \in Clusters BY OwnerIs
  <2>2. PICK d \in LiveDirs : Entry(d).start = parent /\ e \in LiveIn(WrittenIn(d))
    BY <1>1, <1>2, <1>3, <1>5, <2>1, ParentIs
  <2>3. d \in Live /\ Entry(d).kind = "dir" BY DEF LiveDirs
  <2>4. parent \in ToSet(W(Entry(d).start)) BY <2>1, <2>2, <2>3, StartIs
  <2>5. x = d BY <2>1, <2>3, <2>4, Disjoint
  <2>6. PICK p \in named : p[2] = d BY <2>1, <2>5 DEF Named
  <2> QED BY <2>2, <2>3, <2>6 DEF Tree, VisitedInv
<1>11. Anchored(h)
  <2>1. \A i \in DOMAIN Chain(h).clusters :
          /\ Chain(h).clusters[i] \notin Owned \cup excluded
          /\ Cardinality(Incoming(Chain(h).clusters[i])) <= 1
    BY <1>3, <1>7, <1>9 DEF Held, ToSet
  <2> QED BY <1>2, <1>3, <1>4, <1>5, <1>8, <1>10, <2>1 DEF Anchored
<1>12. ASSUME parent \in Clusters, Anchored(parent) PROVE FALSE
  <2>1. PICK d \in LiveDirs : Entry(d).start = parent BY <1>1, <1>2, <1>3, <1>5, <1>12, ParentIs
  <2>2. Traces(parent) BY <1>12, AnchoredIs
  <2>3. d \in Rooted BY <1>3, <2>1, <2>2
  <2> QED BY <1>12, <2>1, <2>3, RootedKnown
<1> QED BY <1>1, <1>2, <1>5, <1>11, <1>12 DEF Lost

\* The directory that a lost one is read as.
LostTree(h) == Directory(<<h>>, Contents(h), Held(h), 0, {<<h>>})

\* What the search for lost directories does.
LEMMA SearchIs ==
  ASSUME Search
  PROVE  /\ UNCHANGED saved /\ UNCHANGED <<phase, pos, pending, found, deleted, excluded>>
         /\ phase = "scan" /\ queue = <<>> /\ ~searched /\ searched'
         /\ named' = named \cup {LostClaim(h) : h \in Lost}
         /\ owners' = owners \cup UNION {{<<c, LostClaim(h)>> : c \in Held(h)} : h \in Lost}
         /\ seen' = seen \cup Lost
         /\ queue' = [i \in DOMAIN Ascending(Lost) |-> LostTree(Ascending(Lost)[i])]
BY DEF Search, LostClaim, LostTree, Held, Contents

\* A lost directory goes into the queue as the directory it is.
LEMMA LostTreeIs ==
  ASSUME Sound, Counted(image), NEW d \in LiveDirs, NEW h \in Clusters, Entry(d).start = h
  PROVE  /\ LostTree(h) \in Directories /\ LostTree(h).entries = ReadPart(d) /\ LostTree(h).key = <<h>>
         /\ LostTree(h).ancestors = Held(h) /\ LostTree(h).depth = 0
<1>1. PICK r, a, y : r = Contents(h) /\ a = Held(h) /\ y = <<h>> OBVIOUS
<1>2. LostTree(h) = [key |-> y, entries |-> r, ancestors |-> a, depth |-> 0, keys |-> {y}]
  BY <1>1 DEF LostTree, Directory
<1>3. r = ReadPart(d) /\ d \in Homes BY <1>1, TopIsNoEntry DEF Homes
<1>4. a \in SUBSET Clusters BY <1>1, ChainsTyped DEF Held, ToSet
<1>5. y \in Keyed
  <2>1. h \in Names BY DEF Names
  <2>2. <<h>> \in Seq(Names) /\ <<h>> # <<>> BY <2>1
  <2> QED BY <1>1, <2>2 DEF Keyed
<1>6. LostTree(h) \in Directories
  <2>1. PICK K, A, E : K = Keyed /\ A = SUBSET Clusters /\ E = {ReadPart(c) : c \in Homes} OBVIOUS
  <2>2. PICK L, M : L = SUBSET K /\ M = 0 .. MaxDepth OBVIOUS
  <2>3. Directories = [key : K, entries : E, ancestors : A, depth : M, keys : L]
    BY <2>1, <2>2 DEF Directories
  <2>4. r \in E /\ y \in K /\ {y} \in L /\ a \in A /\ 0 \in M BY <1>3, <1>4, <1>5, <2>1, <2>2, FatAssumption
  <2>5. [key |-> y, entries |-> r, ancestors |-> a, depth |-> 0, keys |-> {y}]
          \in [key : K, entries : E, ancestors : A, depth : M, keys : L]
    BY <2>4, Zenon
  <2> QED BY <1>2, <2>3, <2>5
<1>7. LostTree(h).entries = r /\ LostTree(h).key = y /\ LostTree(h).ancestors = a /\ LostTree(h).depth = 0
  BY <1>2
<1> QED BY <1>1, <1>3, <1>6, <1>7

\* A lost directory is claimed in its own name.
LEMMA LostClaims ==
  \A g, h : /\ LostClaim(g)[1] = <<g>> /\ LostClaim(g)[2] = <<"lost", g, 0>> /\ LostClaim(g)[2][1] = "lost"
            /\ StartOf(LostClaim(g)[2]) = g
            /\ (LostClaim(g) = LostClaim(h) => g = h)
            /\ (LostClaim(g)[1] = LostClaim(h)[1] => g = h)
            /\ (LostClaim(g)[2] = LostClaim(h)[2] => g = h)
BY DEF LostClaim, StartOf

\* Lost directories are read in order.
InTurn(A) == [i \in DOMAIN Ascending(A) |-> LostTree(Ascending(A)[i])]

\* The lost directories go into the queue one after the other.
LEMMA InSequence ==
  ASSUME NEW A, A \subseteq Clusters, \A a \in A : LostTree(a) \in Directories
  PROVE  /\ InTurn(A) \in Seq(Directories)
         /\ \A i \in DOMAIN InTurn(A) : Ascending(A)[i] \in A /\ InTurn(A)[i] = LostTree(Ascending(A)[i])
         /\ \A i, k \in DOMAIN InTurn(A) : i # k => Ascending(A)[i] # Ascending(A)[k]
         /\ \A a \in A : \E i \in DOMAIN InTurn(A) : Ascending(A)[i] = a
<1> DEFINE Q == Directories
<1>0. \A a \in A : LostTree(a) \in Q OBVIOUS
<1> HIDE DEF Q
<1>00. PICK s : s = InTurn(A) OBVIOUS
<1>1. A \subseteq Nat /\ IsFiniteSet(A)
  <2>1. Clusters \subseteq Nat BY ClusterCount
  <2>2. IsFiniteSet(Clusters) BY ClusterCount
  <2> QED BY <2>1, <2>2, FS_Subset
<1>2. PICK n, o : n = Cardinality(A) /\ o = Ascending(A) OBVIOUS
<1>3. /\ o \in [1 .. n -> A] /\ n \in Nat
      /\ \A i, j \in DOMAIN o : o[i] = o[j] => i = j
      /\ \A a \in A : \E i \in DOMAIN o : o[i] = a
  BY <1>1, <1>2, AscendingIs
<1>4. s = [i \in DOMAIN o |-> LostTree(o[i])] BY <1>00, <1>2 DEF InTurn
<1>5. DOMAIN s = 1 .. n /\ DOMAIN o = 1 .. n /\ \A i \in 1 .. n : o[i] \in A /\ s[i] = LostTree(o[i])
  BY <1>3, <1>4
<1>6. s \in Seq(Q)
  <2>1. s = [i \in 1 .. n |-> LostTree(o[i])] BY <1>4, <1>5
  <2>2. \A i \in 1 .. n : LostTree(o[i]) \in Q BY <1>0, <1>5
  <2>3. s \in [1 .. n -> Q] BY <2>1, <2>2
  <2> QED BY <1>3, <2>3
<1> QED BY <1>00, <1>2, <1>3, <1>5, <1>6 DEF Q

\* What is known after the search, apart from the queue.
LEMMA SearchNames ==
  ASSUME Tree, Sound, Counted(image), Search, Same
  PROVE  /\ Taken = {} /\ Taken' = Lost /\ Lost \subseteq Clusters
         /\ \A h \in Lost : Anchored(h)
         /\ NamedInv' /\ Apart' /\ TakenInv' /\ SeenInv' /\ OwnersInv'
         /\ \A e : Named(e)' <=> Named(e) \/ \E h \in Lost : e = LostClaim(h)[2]
<1> USE DEF Tree
<1>0. PICK L : L = Lost OBVIOUS
<1>1. /\ phase = "scan" /\ queue = <<>> /\ ~searched
      /\ named' = named \cup {LostClaim(h) : h \in L}
      /\ owners' = owners \cup UNION {{<<c, LostClaim(h)>> : c \in Held(h)} : h \in L}
      /\ seen' = seen \cup L
  BY <1>0, SearchIs
<1>2. Taken = {} BY <1>1 DEF SearchInv
<1>3. L \subseteq Clusters /\ \A h \in L : Anchored(h) BY <1>0 DEF Lost
<1>4. Taken' = L
  <2>1. Taken = {h \in Clusters : LostClaim(h) \in named} BY DEF Taken, LostClaim
  <2>2. Taken' = {h \in Clusters : LostClaim(h) \in named'} BY DEF Taken, LostClaim
  <2>3. \A g : LostClaim(g) \in {LostClaim(h) : h \in L} <=> g \in L BY LostClaims
  <2> QED BY <1>1, <1>2, <1>3, <2>1, <2>2, <2>3
<1>5. named \subseteq named' /\ seen \subseteq seen' BY <1>1
<1>6. \A p \in named : /\ Given(p) /\ p[2] \in Live /\ p[2][1] \in {"root", "data"}
                       /\ \E k \in Keyed, n \in Names : p[1] = Append(k, n)
  BY <1>2, NameIs
<1>7. \A p \in named' : p \in named \/ \E h \in L : p = LostClaim(h) BY <1>1
<1>8. NamedInv'
  <2>1. \A p : Given(p) => Given(p)' BY <1>5, Grown
  <2>2. \A h : LostClaim(h)' = LostClaim(h) BY DEF LostClaim
  <2> QED BY <1>4, <1>6, <1>7, <2>1, <2>2 DEF NamedInv
<1>9. Apart'
  <2>1. \A p \in named : \A h : p[1] # LostClaim(h)[1] BY <1>6, LongerKey, LostClaims
  <2>2. \A p, q \in named' : p[1] = q[1] => p[2] = q[2] BY <1>7, <2>1, LostClaims DEF Apart
  <2> QED BY <2>2 DEF Apart
<1>10. \A e : Named(e)' <=> Named(e) \/ \E h \in L : e = LostClaim(h)[2] BY <1>1 DEF Named
<1>11. TakenInv'
  <2>1. \A h \in L : \E d \in LiveDirs : Entry(d).start = h BY <1>2, <1>3, AnchoredIs
  <2>2. L \subseteq seen' BY <1>1
  <2> QED BY <1>4, <2>1, <2>2 DEF TakenInv, Same
<1>12. SeenInv'
  <2>1. \A s \in seen' : s \in L \/ \E p \in named' : p[2] \in LiveDirs /\ Entry(p[2]).start = s
    BY <1>1, <1>2 DEF SeenInv
  <2>2. \A e : Entry(e)' = Entry(e) /\ LiveDirs' = LiveDirs BY DEF Same
  <2> QED BY <1>4, <2>1, <2>2 DEF SeenInv
<1>13. OwnersInv'
  <2>1. /\ \A q \in owners : q = <<q[1], q[2]>> /\ q[2] \in named /\ q[1] \in Held(StartOf(q[2][2]))
        /\ \A q, r \in owners : q[2][2] = r[2][2] => q[2] = r[2]
        /\ \A p \in named : Held(StartOf(p[2])) \subseteq Owned
    BY DEF OwnersInv
  <2>2. \A q \in owners' : q \in owners \/ \E h \in L : \E c \in Held(h) : q = <<c, LostClaim(h)>>
    BY <1>1
  <2>3. ASSUME NEW q \in owners'
        PROVE  \/ q \in owners
               \/ \E h \in L : q = <<q[1], q[2]>> /\ q[2] = LostClaim(h) /\ q[1] \in Held(h)
    <3>1. CASE q \in owners BY <3>1
    <3>2. CASE \E h \in L : \E c \in Held(h) : q = <<c, LostClaim(h)>>
      <4>0. PICK h \in L : \E c \in Held(h) : q = <<c, LostClaim(h)>> BY <3>2
      <4>1. PICK c \in Held(h) : q = <<c, LostClaim(h)>> BY <4>0
      <4>2. q[1] = c /\ q[2] = LostClaim(h) BY <4>1
      <4> QED BY <4>1, <4>2
    <3> QED BY <2>2, <3>1, <3>2
  <2>4. ASSUME NEW q \in owners'
        PROVE  q = <<q[1], q[2]>> /\ q[2] \in named' /\ q[1] \in Held(StartOf(q[2][2]))
    <3>1. CASE q \in owners BY <1>5, <2>1, <3>1
    <3>2. CASE \E h \in L : q = <<q[1], q[2]>> /\ q[2] = LostClaim(h) /\ q[1] \in Held(h)
      BY <1>1, <3>2, LostClaims
    <3> QED BY <2>3, <3>1, <3>2
  <2>5. ASSUME NEW q \in owners', NEW r \in owners', q[2][2] = r[2][2] PROVE q[2] = r[2]
    <3>1. \A t \in owners : t[2][2][1] # "lost" BY <1>6, <2>1
    <3>2. \A h : LostClaim(h)[2][1] = "lost" BY LostClaims
    <3>3. CASE q \in owners /\ r \in owners BY <2>1, <2>5, <3>3
    <3>4. CASE q \in owners /\ r \notin owners
      <4>1. PICK h : r[2] = LostClaim(h) BY <2>3, <3>4
      <4> QED BY <2>5, <3>1, <3>2, <3>4, <4>1
    <3>5. CASE q \notin owners /\ r \in owners
      <4>1. PICK h : q[2] = LostClaim(h) BY <2>3, <3>5
      <4> QED BY <2>5, <3>1, <3>2, <3>5, <4>1
    <3>6. CASE q \notin owners /\ r \notin owners
      <4>1. PICK h : q[2] = LostClaim(h) BY <2>3, <3>6
      <4>2. PICK g : r[2] = LostClaim(g) BY <2>3, <3>6
      <4>3. h = g BY <2>5, <4>1, <4>2, LostClaims
      <4> QED BY <4>1, <4>2, <4>3
    <3> QED BY <3>3, <3>4, <3>5, <3>6
  <2>6. Owned \subseteq Owned' /\ \A h \in L : Held(h) \subseteq Owned'
    <3>1. Owned' = {pair[1] : pair \in owners'} BY DEF Owned
    <3>2. Owned \subseteq Owned' BY <1>1, <3>1 DEF Owned
    <3>3. ASSUME NEW h \in L, NEW c \in Held(h) PROVE c \in Owned'
      <4>1. <<c, LostClaim(h)>> \in owners' BY <1>1
      <4>2. <<c, LostClaim(h)>>[1] = c OBVIOUS
      <4> QED BY <3>1, <4>1, <4>2
    <3> QED BY <3>2, <3>3
  <2>7. ASSUME NEW p \in named' PROVE Held(StartOf(p[2])) \subseteq Owned'
    <3>1. CASE p \in named BY <2>1, <2>6, <3>1
    <3>2. CASE \E h \in L : p = LostClaim(h) BY <2>6, <3>2, LostClaims
    <3> QED BY <1>7, <3>1, <3>2
  <2>8. \A e : StartOf(e)' = StartOf(e) /\ \A s : Held(s)' = Held(s) BY DEF Same
  <2> QED BY <2>4, <2>5, <2>7, <2>8 DEF OwnersInv
<1> QED BY <1>0, <1>2, <1>3, <1>4, <1>8, <1>9, <1>10, <1>11, <1>12, <1>13

\* Directories of which some were entered are closed by themselves.
LEMMA EnteredPart ==
  ASSUME Tree, Sound, Counted(image), Taken = {}, NEW H \in SUBSET Trees, NEW L, L \cap seen = {},
         \A d \in H : Entry(d).start \notin L => Within(d, H),
         NEW K, K = {d \in H : Entry(d).start \in seen}
  PROVE  /\ K \in SUBSET Trees /\ Closed(K) /\ Span(K) \subseteq Span(H)
         /\ \A x : Named(x) /\ Within(x, H) => Within(x, K)
<1>1. ASSUME NEW x, Named(x), Within(x, H) PROVE Within(x, K)
  <2>1. PICK p \in named : p[2] = x BY <1>1 DEF Named
  <2>2. PICK c \in Homes : x \in ToSet(ReadPart(c)) /\ Entered(c) BY <2>1, NameIs
  <2>3. PICK d \in H \cup {Top} : x \in ToSet(ReadPart(d)) BY <1>1 DEF Within
  <2>4. d \in Homes BY DEF Trees, Homes
  <2>5. c = d BY <2>2, <2>3, <2>4, OneHome
  <2>6. d \in K \cup {Top} BY <2>2, <2>5 DEF Entered
  <2> QED BY <2>3, <2>6 DEF Within
<1>2. ASSUME NEW d \in K PROVE Within(d, K)
  <2>1. d \in H /\ Entry(d).start \in seen /\ d \in LiveDirs /\ d \in Live /\ Entry(d).start \in Clusters
    BY DEF Trees, LiveDirs
  <2>2. Within(d, H) BY <2>1
  <2>3. PICK p \in named : p[2] \in LiveDirs /\ Entry(p[2]).start = Entry(d).start BY <2>1 DEF Tree, SeenInv
  <2>4. p[2] = d BY <2>1, <2>3, SameStart DEF LiveDirs
  <2> QED BY <1>1, <2>2, <2>4 DEF Named
<1>3. Closed(K) BY <1>2 DEF Closed
<1>4. K \subseteq H BY DEF Trees
<1>5. Span(K) \subseteq Span(H) BY <1>4 DEF Span
<1> QED BY <1>1, <1>3, <1>4, <1>5

\* The search keeps the tree.
LEMMA SearchKeeps ==
  ASSUME Tree, Sound, Counted(image), Search
  PROVE  Tree'
<1> USE DEF Tree
<1>0. PICK L, o : L = Lost /\ o = Ascending(Lost) OBVIOUS
<1>1. /\ UNCHANGED saved /\ UNCHANGED <<phase, pos, pending, found, deleted, excluded>>
      /\ phase = "scan" /\ queue = <<>> /\ ~searched /\ searched'
      /\ named' = named \cup {LostClaim(h) : h \in L}
      /\ seen' = seen \cup L
      /\ queue' = [i \in DOMAIN o |-> LostTree(o[i])]
  BY <1>0, SearchIs
<1>2. Same BY <1>1, Unchanged
<1>3. /\ Taken = {} /\ Taken' = L /\ L \subseteq Clusters
      /\ \A h \in L : Anchored(h)
      /\ NamedInv' /\ Apart' /\ TakenInv' /\ SeenInv' /\ OwnersInv'
      /\ \A e : Named(e)' <=> Named(e) \/ \E h \in L : e = LostClaim(h)[2]
  BY <1>0, <1>2, SearchNames
<1>4. named \subseteq named' /\ seen \subseteq seen' BY <1>1
<1>5. pos = 1 /\ pending = {} BY <1>1 DEF ShapeInv
<1>6. \A e : Entry(e)' = Entry(e) /\ LiveDirs' = LiveDirs /\ Live' = Live /\ Homes' = Homes BY <1>2 DEF Same
<1>7. \A h \in L : /\ \E d \in LiveDirs : Entry(d).start = h
                   /\ h \notin seen
  BY <1>3, AnchoredIs
<1>8. \A h \in L : \E d \in LiveDirs :
        /\ Entry(d).start = h /\ d \in Homes /\ d # Top
        /\ LostTree(h) \in Directories /\ LostTree(h).entries = ReadPart(d) /\ LostTree(h).key = <<h>>
        /\ LostTree(h).ancestors = Held(h) /\ LostTree(h).depth = 0
  <2> SUFFICES ASSUME NEW h \in L
               PROVE  \E d \in LiveDirs :
                        /\ Entry(d).start = h /\ d \in Homes /\ d # Top
                        /\ LostTree(h) \in Directories /\ LostTree(h).entries = ReadPart(d) /\ LostTree(h).key = <<h>>
                        /\ LostTree(h).ancestors = Held(h) /\ LostTree(h).depth = 0
    OBVIOUS
  <2>1. PICK d \in LiveDirs : Entry(d).start = h BY <1>7
  <2>2. d \in Homes /\ d # Top BY TopIsNoEntry DEF Homes
  <2>3. h \in Clusters BY <1>3
  <2>4. /\ LostTree(h) \in Directories /\ LostTree(h).entries = ReadPart(d) /\ LostTree(h).key = <<h>>
        /\ LostTree(h).ancestors = Held(h) /\ LostTree(h).depth = 0
    BY <2>1, <2>3, LostTreeIs
  <2> QED BY <2>1, <2>2, <2>4
<1>9. /\ queue' \in Seq(Directories)
      /\ \A i \in DOMAIN queue' : o[i] \in L /\ queue'[i] = LostTree(o[i])
      /\ \A i, k \in DOMAIN queue' : i # k => o[i] # o[k]
      /\ \A a \in L : \E i \in DOMAIN queue' : o[i] = a
  <2>0. L \subseteq Clusters BY <1>3
  <2>1. \A h \in L : LostTree(h) \in Directories BY <1>8
  <2>2. /\ InTurn(L) \in Seq(Directories)
        /\ \A i \in DOMAIN InTurn(L) : Ascending(L)[i] \in L /\ InTurn(L)[i] = LostTree(Ascending(L)[i])
        /\ \A i, k \in DOMAIN InTurn(L) : i # k => Ascending(L)[i] # Ascending(L)[k]
        /\ \A a \in L : \E i \in DOMAIN InTurn(L) : Ascending(L)[i] = a
    BY <2>0, <2>1, InSequence
  <2>3. Ascending(L) = o /\ InTurn(L) = queue' BY <1>0, <1>1 DEF InTurn
  <2> QED BY <2>2, <2>3
<1>10. ASSUME NEW h \in L PROVE Sourced(LostTree(h))'
  <2>0. PICK T : T = LostTree(h) OBVIOUS
  <2>1. PICK d \in LiveDirs : /\ Entry(d).start = h /\ d \in Homes /\ d # Top
                              /\ T.entries = ReadPart(d) /\ T.key = <<h>> /\ T.depth = 0
    BY <1>8, <2>0
  <2>2. Opens(T.key, d)' BY <1>3, <1>6, <2>1 DEF Opens, Top
  <2>3. Entered(d)' BY <1>1, <1>6, <2>1 DEF Entered
  <2>4. d \in Homes' /\ T.entries = ReadPart(d)' BY <1>2, <1>6, <2>1 DEF Same
  <2>5. ~(T.depth > 0) BY <2>1
  <2>6. Sourced(T)' BY <2>2, <2>3, <2>4, <2>5 DEF Sourced
  <2>7. T = LostTree(h)'
    <3>1. \A s : Contents(s)' = Contents(s) /\ Held(s)' = Held(s) BY <1>2 DEF Same
    <3> QED BY <2>0, <3>1 DEF LostTree
  <2> QED BY <2>6, <2>7
<1>11. QueueInv'
  <2>1. PICK q : q = queue' OBVIOUS
  <2>2. \A i \in DOMAIN q : Sourced(q[i])'
    <3> SUFFICES ASSUME NEW i \in DOMAIN q PROVE Sourced(q[i])' OBVIOUS
    <3>1. PICK h \in L : h = o[i] BY <1>9, <2>1
    <3>2. PICK T : T = LostTree(h) OBVIOUS
    <3>3. q[i] = T BY <1>9, <2>1, <3>1, <3>2
    <3>4. LostTree(h)' = T
      <4>1. \A s : Contents(s)' = Contents(s) /\ Held(s)' = Held(s) BY <1>2 DEF Same
      <4> QED BY <3>2, <4>1 DEF LostTree
    <3>5. Sourced(LostTree(h))' BY <1>10
    <3>6. Sourced(T)' BY <3>4, <3>5
    <3> QED BY <3>3, <3>6
  <2>3. Directories' = Directories BY <1>2 DEF Same
  <2>4. queue' \in Seq(Directories') BY <1>9, <2>3
  <2>5. \A i \in DOMAIN queue' : Sourced(queue[i])' BY <2>1, <2>2
  <2> QED BY <2>4, <2>5 DEF QueueInv
<1>12. PendingInv' BY <1>1, <1>5 DEF PendingInv
\* The directory that waits at a place.
<1>13. \A i \in DOMAIN queue' : \E d \in LiveDirs :
         /\ Entry(d).start = o[i] /\ o[i] \in L /\ d \in Homes /\ d # Top
         /\ queue'[i].entries = ReadPart(d) /\ queue'[i].ancestors = Held(o[i])
  BY <1>8, <1>9
<1>14. \A x : \A d \in LiveDirs : Entry(d).start \in L /\ x \in ToSet(ReadPart(d)) =>
         ~Named(x) /\ x[1] \in {"root", "data"}
  <2> SUFFICES ASSUME NEW x, NEW d \in LiveDirs, Entry(d).start \in L, x \in ToSet(ReadPart(d))
               PROVE  ~Named(x) /\ x[1] \in {"root", "data"}
    OBVIOUS
  <2>1. ~Named(x) BY <1>7, Untouched
  <2>2. PICK i \in DOMAIN ReadPart(d) : x = ReadPart(d)[i] BY DEF ToSet
  <2>3. d \in Homes BY DEF Homes
  <2>4. x \in ToSet(Listing(d)) BY <2>2, <2>3, Read DEF ToSet
  <2> QED BY <2>1, <2>3, <2>4, Read
<1>15. \A e : Waits(e)' <=> \E i \in DOMAIN queue' : e \in ToSet(queue'[i].entries)
  <2> SUFFICES ASSUME NEW e PROVE Waits(e)' <=> \E i \in DOMAIN queue' : e \in ToSet(queue'[i].entries) OBVIOUS
  <2>1. \A i \in DOMAIN queue' : \A j \in DOMAIN queue'[i].entries : j >= 1
    <3>1. \A d \in Homes : DOMAIN ReadPart(d) = 1 .. Len(ReadPart(d)) BY Read
    <3> QED BY <1>13, <3>1
  <2>2. Waits(e)' <=> \E i \in DOMAIN queue' : \E j \in DOMAIN queue'[i].entries :
                        (i > 1 \/ j >= 1) /\ queue'[i].entries[j] = e
    BY <1>1, <1>5 DEF Waits
  <2> QED BY <2>1, <2>2 DEF ToSet
<1>16. WaitingInv'
  <2>1. ASSUME NEW i \in DOMAIN queue', NEW k \in DOMAIN queue', i # k
        PROVE  ToSet(queue'[i].entries) \cap ToSet(queue'[k].entries) = {}
    <3>1. SUFFICES ASSUME NEW x \in ToSet(queue'[i].entries), x \in ToSet(queue'[k].entries) PROVE FALSE OBVIOUS
    <3>2. PICK d \in LiveDirs : Entry(d).start = o[i] /\ d \in Homes /\ queue'[i].entries = ReadPart(d) BY <1>13
    <3>3. PICK c \in LiveDirs : Entry(c).start = o[k] /\ c \in Homes /\ queue'[k].entries = ReadPart(c) BY <1>13
    <3>4. c = d BY <3>1, <3>2, <3>3, OneHome
    <3> QED BY <1>9, <2>1, <3>2, <3>3, <3>4
  <2>2. ASSUME NEW e, Waits(e)' PROVE ~Named(e)'
    <3>1. PICK d \in LiveDirs : Entry(d).start \in L /\ e \in ToSet(ReadPart(d)) BY <1>13, <1>15, <2>2
    <3>2. ~Named(e) /\ e[1] \in {"root", "data"} BY <1>14, <3>1
    <3> QED BY <1>3, <3>2, LostClaims
  <2> QED BY <2>1, <2>2 DEF WaitingInv
<1>17. ProgressInv'
  <2>1. \A d : Entered(d)' => Entered(d) \/ Entry(d).start \in L BY <1>1, <1>6 DEF Entered
  <2>2. bad' = bad /\ \A d : ReadPart(d)' = ReadPart(d) BY <1>2 DEF Same
  <2>3. \A x : SectorOf(x)' = SectorOf(x) OBVIOUS
  <2>4. ASSUME NEW d \in Homes, Entered(d)', NEW x \in ToSet(ReadPart(d)), x \in Live, SectorOf(x) \notin bad
        PROVE  Named(x)' \/ Waits(x)'
    <3>1. CASE Entered(d)
      <4>1. Named(x) \/ Waits(x) BY <1>1, <2>4, <3>1 DEF ProgressInv
      <4>2. ~Waits(x) BY <1>1 DEF Waits
      <4> QED BY <1>3, <4>1, <4>2
    <3>2. CASE ~Entered(d)
      <4>1. Entry(d).start \in L /\ d # Top BY <2>1, <2>4, <3>2 DEF Entered
      <4>2. PICK i \in DOMAIN queue' : o[i] = Entry(d).start BY <1>9, <4>1
      <4>3. PICK c \in LiveDirs : Entry(c).start = o[i] /\ c # Top /\ queue'[i].entries = ReadPart(c) BY <1>13
      <4>4. ReadPart(c) = ReadPart(d) BY <4>1, <4>2, <4>3 DEF ReadPart
      <4> QED BY <1>15, <2>4, <4>3, <4>4
    <3> QED BY <3>1, <3>2
  <2> QED BY <1>6, <2>2, <2>3, <2>4 DEF ProgressInv
<1>18. \A e \in Live : \A h : e # LostClaim(h)[2]
  <2>1. \A e \in Live : e[1] \in {"root", "data"} BY TopIsNoEntry
  <2> QED BY <2>1, LostClaims
<1>19. VisitedInv'
  <2>1. \A e : WrittenIn(e)' = WrittenIn(e) /\ \A E : LiveIn(E)' = LiveIn(E) BY <1>2 DEF Same
  <2>2. \A p \in named' : p[2] \in Live => p \in named BY <1>1, <1>18
  <2> QED BY <1>1, <1>4, <1>6, <2>1, <2>2 DEF VisitedInv
<1>20. FoundInv' BY <1>1, <1>4, <1>6 DEF FoundInv
<1>21. PathInv'
  <2>1. SUFFICES ASSUME NEW H \in SUBSET Trees, Closed(H)'
                 PROVE  /\ \A i \in DOMAIN queue' : \A x \in ToSet(queue'[i].entries) :
                             Within(x, H) => queue'[i].ancestors \subseteq Span(H)
                        /\ \A f \in found : Within(f.claim[2], H) => f.ancestors \subseteq Span(H)
    BY <1>1, <1>2 DEF PathInv, Same
  <2>2. \A d \in H : Entry(d).start \notin L => Within(d, H) BY <1>2, <1>3, <2>1 DEF Closed, Same
  <2>3. ASSUME NEW i \in DOMAIN queue', NEW x \in ToSet(queue'[i].entries), Within(x, H)
        PROVE  queue'[i].ancestors \subseteq Span(H)
    <3>1. PICK d \in LiveDirs : /\ Entry(d).start = o[i] /\ d \in Homes /\ d # Top
                                /\ queue'[i].entries = ReadPart(d) /\ queue'[i].ancestors = Held(o[i])
      BY <1>13
    <3>2. PICK c \in H \cup {Top} : x \in ToSet(ReadPart(c)) BY <2>3 DEF Within
    <3>3. c \in Homes BY DEF Trees, Homes
    <3>4. c = d BY <2>3, <3>1, <3>2, <3>3, OneHome
    <3>5. d \in H BY <3>1, <3>4
    <3> QED BY <3>1, <3>5 DEF Span
  <2>4. ASSUME NEW f \in found, Within(f.claim[2], H) PROVE f.ancestors \subseteq Span(H)
    <3>1. PICK K : K = {d \in H : Entry(d).start \in seen} OBVIOUS
    <3>2. L \cap seen = {} BY <1>7
    <3>3. /\ K \in SUBSET Trees /\ Closed(K) /\ Span(K) \subseteq Span(H)
          /\ \A x : Named(x) /\ Within(x, H) => Within(x, K)
      BY <1>3, <2>2, <3>1, <3>2, EnteredPart
    <3>4. Named(f.claim[2]) BY DEF FoundInv, Named
    <3>5. Within(f.claim[2], K) BY <2>4, <3>3, <3>4
    <3>6. f.ancestors \subseteq Span(K) BY <3>3, <3>5 DEF PathInv
    <3> QED BY <3>3, <3>6
  <2> QED BY <2>3, <2>4
<1>22. SearchInv'
  <2>1. \A e : GivesItselfAway(e)' <=> GivesItselfAway(e)
    BY <1>1, <1>2 DEF GivesItselfAway, Same, SectorOf, RootSector, DataSector
  <2>2. Alone' = Alone BY <1>6, <2>1 DEF Alone
  <2>3. Rooted' = Rooted BY <1>2 DEF Same
  <2>4. \A e \in Alone : Entry(e).start \in L BY <1>0, <1>1, <1>3, AloneIsLost
  <2>5. \A e \in Rooted : Entry(e).start \notin L BY <1>1, <1>3, RootedKnown
  <2> QED BY <1>1, <1>3, <1>6, <2>2, <2>3, <2>4, <2>5 DEF SearchInv
<1>23. ShapeInv' BY <1>1, <1>5 DEF ShapeInv
<1> QED BY <1>3, <1>11, <1>12, <1>16, <1>17, <1>19, <1>20, <1>21, <1>22, <1>23

\* A traversal that has not begun has learned nothing.
LEMMA Blank == ScanInit => Tree
<1> SUFFICES ASSUME ScanInit PROVE Tree OBVIOUS
<1>1. /\ phase = "layout" /\ queue = <<>> /\ pos = 1 /\ pending = {} /\ searched = FALSE
      /\ seen = {} /\ owners = {} /\ named = {} /\ found = {}
  BY DEF ScanInit
<1>2. \A e : ~Named(e) BY <1>1 DEF Named
<1>3. Taken = {} BY <1>1 DEF Taken
<1>4. NamedInv /\ Apart /\ TakenInv /\ SeenInv /\ VisitedInv /\ FoundInv
  BY <1>1, <1>3 DEF NamedInv, Apart, TakenInv, SeenInv, VisitedInv, FoundInv
<1>5. OwnersInv BY <1>1 DEF OwnersInv
<1>6. QueueInv /\ PendingInv BY <1>1 DEF QueueInv, PendingInv
<1>7. \A e : ~Waits(e) BY <1>1 DEF Waits
<1>8. WaitingInv BY <1>1, <1>7 DEF WaitingInv
<1>9. ProgressInv BY <1>1 DEF ProgressInv
<1>10. PathInv BY <1>1 DEF PathInv
<1>11. SearchInv BY <1>1, <1>3 DEF SearchInv
<1>12. ShapeInv BY <1>1 DEF ShapeInv
<1> QED BY <1>4, <1>5, <1>6, <1>8, <1>9, <1>10, <1>11, <1>12 DEF Tree

\* Nothing of the scan moves.
LEMMA StutterKeeps ==
  ASSUME Tree, UNCHANGED <<saved, scan>>
  PROVE  Tree'
<1> USE DEF Tree
<1>1. UNCHANGED saved
      /\ UNCHANGED <<phase, queue, pos, pending, seen, owners, named, found, deleted, excluded, searched>>
  BY DEF scan
<1>2. Same BY <1>1, Unchanged
<1>3. /\ NamedInv' /\ Apart' /\ TakenInv' /\ SeenInv' /\ OwnersInv' /\ VisitedInv' /\ FoundInv'
  BY <1>1, <1>2, NothingLearned
<1>4. SearchInv' BY <1>1, <1>2, SearchKept
<1>5. Taken' = Taken /\ \A e : Named(e)' <=> Named(e) BY <1>1, <1>2, Kept
<1>6. ShapeInv' BY <1>1 DEF ShapeInv
<1>7. PendingInv'
  <2>1. \A e : Entry(e)' = Entry(e) BY <1>2 DEF Same
  <2>2. Dir' = Dir BY <1>1 DEF Dir
  <2> QED BY <1>1, <2>1, <2>2 DEF PendingInv
<1>8. QueueInv'
  <2>1. \A D : Sourced(D) => Sourced(D)' BY <1>1, <1>2, Grown
  <2> QED BY <1>1, <1>2, <2>1 DEF QueueInv, Same
<1>9. \A e : Waits(e)' <=> Waits(e) BY <1>1 DEF Waits
<1>10. WaitingInv' BY <1>1, <1>5, <1>9 DEF WaitingInv
<1>11. ProgressInv'
  <2>1. \A d : Entered(d)' => Entered(d) BY <1>1, <1>2 DEF Entered, Same, Top
  <2>2. Homes' = Homes /\ Live' = Live /\ bad' = bad /\ \A d : ReadPart(d)' = ReadPart(d) BY <1>2 DEF Same
  <2>3. \A x : SectorOf(x)' = SectorOf(x) OBVIOUS
  <2> QED BY <1>1, <1>5, <1>9, <2>1, <2>2, <2>3 DEF ProgressInv
<1>12. PathInv' BY <1>1, <1>2, <1>5 DEF PathInv, Closed, Same
<1> QED BY <1>3, <1>4, <1>6, <1>7, <1>8, <1>10, <1>11, <1>12

\* No step of the traversal of a floppy without a fault breaks what it keeps.
LEMMA ScanKeeps == ASSUME TreeInv, Scan PROVE TreeInv'
<1>1. UNCHANGED saved
  BY DEF Scan, Resolve, LeaveDirectory, Gap, Label, LongName, DeletedEntry, OddEntry, FileEntry,
         DirEntry, Search, Judge
<1>2. Counted(image)' = Counted(image) /\ Sound' = Sound BY <1>1, Unchanged DEF Same
<1>3. Counted(image) BY DEF TreeInv
<1>4. SUFFICES ASSUME Sound, Tree PROVE Tree' BY <1>2, <1>3 DEF TreeInv
<1>5. CASE Resolve BY <1>3, <1>4, <1>5, ResolveKeeps
<1>6. CASE LeaveDirectory BY <1>3, <1>4, <1>6, LeaveDirectoryKeeps
<1>7. CASE Gap \/ Label \/ LongName \/ DeletedEntry BY <1>3, <1>4, <1>7, OthersKeep
<1>8. CASE OddEntry BY <1>3, <1>4, <1>8, NoOddEntry
<1>9. CASE FileEntry BY <1>3, <1>4, <1>9, FileEntryKeeps
<1>10. CASE DirEntry BY <1>3, <1>4, <1>10, RefusedKeeps, EnteredKeeps
<1>11. CASE Search BY <1>3, <1>4, <1>11, SearchKeeps
<1>12. CASE Judge BY <1>3, <1>4, <1>12, JudgeKeeps
<1> QED BY <1>5, <1>6, <1>7, <1>8, <1>9, <1>10, <1>11, <1>12 DEF Scan

\* It holds before anything was read ...
LEMMA TreeInit == Init => TreeInv
<1>1. Init => ScanInit BY DEF Init
<1>2. Init => Counted(image) BY CasesAssumption DEF Init
<1> QED BY <1>1, <1>2, Blank DEF TreeInv

\* ... and every step keeps it.
LEMMA TreeStep == TreeInv /\ [Next]_vars => TreeInv'
<1> SUFFICES ASSUME TreeInv, [Next]_vars PROVE TreeInv' OBVIOUS
<1>0. UNCHANGED saved => (Counted(image)' = Counted(image) /\ Sound' = Sound) BY Unchanged DEF Same
<1>1. ASSUME Rescan, UNCHANGED saved PROVE TreeInv'
  <2>1. ScanInit' BY <1>1 DEF Rescan, ScanInit
  <2>2. ScanInit' => Tree' BY Blank, PTL
  <2> QED BY <1>0, <1>1, <2>1, <2>2 DEF TreeInv
<1>2. ASSUME UNCHANGED <<saved, scan>> PROVE TreeInv'
  <2>1. UNCHANGED saved BY <1>2
  <2> QED BY <1>0, <1>2, <2>1, StutterKeeps DEF TreeInv
<1>3. ASSUME NEW m \in Modes, Start(m) PROVE TreeInv' BY <1>1, <1>3 DEF Start
<1>4. CASE Analyze BY <1>4, ScanKeeps DEF Analyze
<1>5. CASE Publish BY <1>1, <1>5 DEF Publish
<1>6. CASE Extract BY <1>2, <1>6 DEF Extract
<1>7. CASE Backup BY <1>2, <1>7 DEF Backup
<1>8. CASE Check BY <1>2, <1>8 DEF Check
<1>9. CASE CopyReport BY <1>2, <1>9 DEF CopyReport
<1>10. CASE Preserve BY <1>2, <1>10 DEF Preserve
<1>11. CASE Crash BY <1>2, <1>11 DEF Crash
<1>12. CASE PutFiles BY <1>2, <1>12 DEF PutFiles
<1>13. CASE TakeFiles BY <1>2, <1>13 DEF TakeFiles
<1>14. CASE UNCHANGED vars BY <1>2, <1>14 DEF vars
<1> QED BY <1>3, <1>4, <1>5, <1>6, <1>7, <1>8, <1>9, <1>10, <1>11, <1>12, <1>13, <1>14
        DEF Next, Step

-----------------------------------------------------------------------------
(* What a finished traversal gives.                                        *)

\* A chain that breaks off at a link that could not be read.
LEMMA BrokenChain ==
  ASSUME NEW start, Chain(start).error = "unreadable"
  PROVE  LET clusters == Chain(start).clusters
         IN clusters # <<>> /\ Len(clusters) \in DOMAIN clusters /\ Link(clusters[Len(clusters)]) = Unreadable
<1> DEFINE N == Cardinality(Clusters)
           walk == Walk(Links, start)
           length == StopOf(walk)
           clusters == Chain(start).clusters
<1>1. N \in Nat BY ClusterCount
<1>2. length \in 0 .. N /\ \A m \in 0 .. length - 1 : ~Stops(walk, m) BY StopIs
<1>3. clusters = [i \in 1 .. length |-> walk[i - 1]] BY DEF Chain, Follow
<1>4. length > 0 /\ walk[length] = Unreadable
  <2>1. Chain(start).error = CASE length > 0 /\ walk[length] = End -> "none"
                               [] length > 0 /\ walk[length] = Unreadable -> "unreadable"
                               [] length > 0 /\ walk[length] = Disputed -> "disputed"
                               [] OTHER -> "invalid"
    BY DEF Chain, Follow
  <2> QED BY <2>1
<1>5. \A n \in 1 .. N : walk[n] = IF walk[n - 1] \in Clusters THEN Links[walk[n - 1]] ELSE walk[n - 1]
  BY WalkAt
<1>6. clusters \in Seq(Clusters) BY ChainsTyped
<1> HIDE DEF walk, length, clusters
<1>7. length \in 1 .. N /\ length - 1 \in 0 .. length - 1 BY <1>1, <1>2, <1>4
<1>8. walk[length - 1] \in Clusters BY <1>2, <1>7 DEF Stops
<1>9. Link(walk[length - 1]) = Unreadable BY <1>4, <1>5, <1>7, <1>8 DEF Links
<1>10. DOMAIN clusters = 1 .. length /\ clusters[length] = walk[length - 1] BY <1>3, <1>7
<1>11. Len(clusters) = length /\ clusters # <<>> /\ length \in DOMAIN clusters BY <1>6, <1>7, <1>10
<1> QED BY <1>9, <1>10, <1>11 DEF clusters

\* Only what is below a directory taken for a lost one can be claimed twice, if
\* that directory's own entry was read after all.
LEMMA CrosslinkedIs ==
  ASSUME Tree, Sound, Counted(image), NEW c \in Crosslinked
  PROVE  \E d \in LiveDirs : /\ Entry(d).start \in Taken /\ SectorOf(d) \notin bad
                             /\ c \in ToSet(W(Entry(d).start))
<1>1. PICK p \in owners, q \in owners : p[1] = c /\ q[1] = c /\ p # q BY DEF Crosslinked
<1>2. /\ p = <<p[1], p[2]>> /\ q = <<q[1], q[2]>> /\ p[2] \in named /\ q[2] \in named
      /\ c \in Held(StartOf(p[2][2])) /\ c \in Held(StartOf(q[2][2]))
      /\ (p[2][2] = q[2][2] => p[2] = q[2])
  BY <1>1 DEF Tree, OwnersInv
<1>3. PICK m, n : m = p[2] /\ n = q[2] OBVIOUS
<1>4. m \in named /\ n \in named /\ m # n /\ m[2] # n[2] /\ c \in Held(StartOf(m[2])) /\ c \in Held(StartOf(n[2]))
  BY <1>1, <1>2, <1>3
<1>5. image.fat[1] = image.fat[2] BY DEF Sound
<1>6. \A s : c \in Held(s) => c \in ToSet(W(s)) BY <1>5, HeldIsWritten
\* A name stands for a live entry.
<1>7. ASSUME NEW k \in named, c \in Held(StartOf(k[2]))
      PROVE  \E d \in Live : /\ c \in ToSet(W(Entry(d).start))
                             /\ \/ d = k[2] /\ SectorOf(d) \notin bad /\ \A h : k # LostClaim(h)
                                \/ d \in LiveDirs /\ Entry(d).start \in Taken /\ k = LostClaim(Entry(d).start)
  <2>1. CASE \E h \in Taken : k = LostClaim(h)
    <3>1. PICK h \in Taken : k = LostClaim(h) BY <2>1
    <3>2. StartOf(k[2]) = h BY <3>1, LostClaims
    <3>3. PICK d \in LiveDirs : Entry(d).start = h BY <3>1 DEF Tree, TakenInv
    <3> QED BY <1>6, <1>7, <3>1, <3>2, <3>3 DEF LiveDirs
  <2>2. CASE /\ k[2] \in Live /\ SectorOf(k[2]) \notin bad /\ k[2][1] \in {"root", "data"}
             /\ StartOf(k[2]) = Entry(k[2]).start
    <3>1. \A h : k # LostClaim(h)
      <4>1. \A h : LostClaim(h)[2][1] = "lost" BY LostClaims
      <4> QED BY <2>2, <4>1
    <3> QED BY <1>6, <1>7, <2>2, <3>1
  <2> QED BY <2>1, <2>2, NameIs
<1>8. PICK d \in Live : /\ c \in ToSet(W(Entry(d).start))
                        /\ \/ d = m[2] /\ SectorOf(d) \notin bad /\ \A h : m # LostClaim(h)
                           \/ d \in LiveDirs /\ Entry(d).start \in Taken /\ m = LostClaim(Entry(d).start)
  BY <1>4, <1>7
<1>9. PICK e \in Live : /\ c \in ToSet(W(Entry(e).start))
                        /\ \/ e = n[2] /\ SectorOf(e) \notin bad /\ \A h : n # LostClaim(h)
                           \/ e \in LiveDirs /\ Entry(e).start \in Taken /\ n = LostClaim(Entry(e).start)
  BY <1>4, <1>7
<1>10. d = e BY <1>8, <1>9, Disjoint
<1> QED BY <1>4, <1>8, <1>9, <1>10

\* A file's clusters are claimed once.
LEMMA FilesClean ==
  ASSUME Tree, Sound, Counted(image), NEW e \in Live, Entry(e).kind = "file", NEW c \in Held(Entry(e).start)
  PROVE  c \notin Crosslinked
<1>1. SUFFICES ASSUME c \in Crosslinked PROVE FALSE OBVIOUS
<1>2. PICK d \in LiveDirs : c \in ToSet(W(Entry(d).start)) BY <1>1, CrosslinkedIs
<1>3. image.fat[1] = image.fat[2] BY DEF Sound
<1>4. c \in ToSet(W(Entry(e).start)) BY <1>3, HeldIsWritten
<1>5. d = e BY <1>2, <1>4, Disjoint DEF LiveDirs
<1> QED BY <1>5 DEF LiveDirs

\* A file that was recovered is true.
LEMMA FilesTrueHolds ==
  ASSUME Tree, Sound, FoundAsRead PROVE FilesTrue
<1>1. AsWritten /\ image.fat[1] = image.fat[2] BY FoundIsTrue DEF Sound
<1>2. \A f \in Recovered : f \in found BY DEF Recovered
<1>3. \A f \in found : f.claim[2] \in Live BY DEF Tree, FoundInv
<1> QED BY <1>1, <1>2, <1>3 DEF FilesTrue, AsWritten

\* What is below the directories that give themselves away.
Below == ReadFrom(UNION {ReadOf(e) : e \in Alone}, Taken)

\* At the end all that can be reached has a name.
LEMMA ReachableNamed ==
  ASSUME Tree, Sound, Counted(image), phase = "judged", queue = <<>>
  PROVE  \A x \in Reachable : x \in Live /\ SectorOf(x) \notin bad /\ Named(x)
<1>1. searched BY DEF Tree, ShapeInv
<1>2. ASSUME NEW a \in Alone, NEW x \in ReadOf(a) PROVE x \in Live /\ SectorOf(x) \notin bad /\ Named(x)
  <2>1. a \in LiveDirs /\ a \in Homes BY DEF Alone, Homes
  <2>2. Entry(a).start \in Taken BY <1>1 DEF Tree, SearchInv
  <2>3. Entered(a) BY <2>2 DEF Tree, TakenInv, Entered
  <2>4. x \in ToSet(ReadPart(a)) /\ x \in Live /\ SectorOf(x) \notin bad BY <2>1, ReadOfIs
  <2>5. Named(x) \/ Waits(x) BY <2>1, <2>3, <2>4 DEF Tree, ProgressInv
  <2>6. ~Waits(x) BY DEF Waits
  <2> QED BY <2>4, <2>5, <2>6
<1>3. \A x \in UNION {ReadOf(e) : e \in Alone} : x \in Live /\ SectorOf(x) \notin bad /\ Named(x) BY <1>2
<1>4. \A x \in Below : x \in Live /\ SectorOf(x) \notin bad /\ Named(x) BY <1>3, AllNamed DEF Below
<1>5. \A x \in Rooted : x \in Live /\ SectorOf(x) \notin bad /\ Named(x) BY RootedNamed
<1> QED BY <1>4, <1>5 DEF Reachable, Below

\* What can be read in a live directory lies within it.
LEMMA ReadWithinTrees ==
  ASSUME Sound, Counted(image), NEW d \in LiveDirs, NEW x \in ReadOf(d)
  PROVE  d \in Trees /\ x \in ToSet(ReadPart(d))
<1>1. x \in ToSet(ReadPart(d)) BY ReadOfIs
<1>2. ReadPart(d) = Contents(Entry(d).start) BY TopIsNoEntry
<1>3. Entry(d).start \in Clusters BY <1>1, <1>2, Started
<1> QED BY <1>1, <1>3 DEF Trees

\* From the root, or from the directories that give themselves away, one gets to
\* an entry through directories none of which was read twice.
LEMMA CleanWay ==
  ASSUME Tree, Sound, Counted(image), phase = "judged", queue = <<>>, NEW e \in Reachable
  PROVE  \E H \in SUBSET Trees :
           /\ Closed(H) /\ Within(e, H)
           /\ \A d \in H : Entry(d).start \in Taken => SectorOf(d) \in bad
<1>0. searched BY DEF Tree, ShapeInv
<1>1. /\ \A a \in Alone : a \in LiveDirs /\ Entry(a).start \in Taken /\ SectorOf(a) \in bad
      /\ \A d \in Rooted : Entry(d).kind = "dir" => Entry(d).start \notin Taken
  BY <1>0 DEF Tree, SearchInv, Alone, GivesItselfAway
<1>2. \A x \in Reachable : x \in Live BY ReachableNamed
<1>3. CASE e \in Rooted
  <2> DEFINE H == {d \in Trees : d \in Rooted}
  <2>1. ASSUME NEW x \in Rooted PROVE Within(x, H)
    <3>1. CASE x \in ReadIn(RootEntries)
      <4>1. x \in ToSet(ReadPart(Top)) BY <3>1, ReadInRoot DEF ReadPart
      <4> QED BY <4>1 DEF Within
    <3>2. CASE \E d \in Rooted : Entry(d).kind = "dir" /\ x \in ReadOf(d)
      <4>1. PICK d \in Rooted : Entry(d).kind = "dir" /\ x \in ReadOf(d) BY <3>2
      <4>2. d \in LiveDirs BY <1>2, <4>1 DEF Reachable, LiveDirs
      <4>3. d \in Trees /\ x \in ToSet(ReadPart(d)) BY <4>1, <4>2, ReadWithinTrees
      <4> QED BY <4>3 DEF Within
    <3> QED BY <3>1, <3>2, ReadThrough DEF Rooted
  <2>2. \A d \in H : Entry(d).start \notin Taken BY <1>1 DEF Trees, LiveDirs
  <2>3. Closed(H) BY <2>1 DEF Closed
  <2>4. H \in SUBSET Trees OBVIOUS
  <2>5. Within(e, H) BY <1>3, <2>1
  <2> QED BY <2>2, <2>3, <2>4, <2>5
<1>4. CASE e \in Below
  <2> DEFINE H == {d \in Trees : d \in Alone \/ (d \in Below /\ Entry(d).start \notin Taken)}
  <2>1. ASSUME NEW x \in Below PROVE Within(x, H)
    <3>1. CASE x \in UNION {ReadOf(a) : a \in Alone}
      <4>1. PICK a \in Alone : x \in ReadOf(a) BY <3>1
      <4>2. a \in Trees /\ x \in ToSet(ReadPart(a)) BY <1>1, <4>1, ReadWithinTrees
      <4> QED BY <4>2 DEF Within
    <3>2. CASE \E d \in Below : Entry(d).kind = "dir" /\ Entry(d).start \notin Taken /\ x \in ReadOf(d)
      <4>1. PICK d \in Below : Entry(d).kind = "dir" /\ Entry(d).start \notin Taken /\ x \in ReadOf(d) BY <3>2
      <4>2. d \in LiveDirs BY <1>2, <4>1 DEF Reachable, Below, LiveDirs
      <4>3. d \in Trees /\ x \in ToSet(ReadPart(d)) BY <4>1, <4>2, ReadWithinTrees
      <4> QED BY <4>1, <4>3 DEF Within
    <3> QED BY <3>1, <3>2, ReadThrough DEF Below
  <2>2. \A d \in H : Entry(d).start \in Taken => SectorOf(d) \in bad BY <1>1
  <2>3. Closed(H) BY <1>1, <2>1 DEF Closed
  <2>4. H \in SUBSET Trees OBVIOUS
  <2>5. Within(e, H) BY <1>4, <2>1
  <2> QED BY <2>2, <2>3, <2>4, <2>5
<1> QED BY <1>3, <1>4 DEF Reachable, Below

\* A key that is given stands for one entry.
LEMMA NoKeyTwice ==
  ASSUME Tree PROVE \A key : ~Ambiguous(key)
<1>1. \A p \in named : p = <<p[1], p[2]>>
  <2> SUFFICES ASSUME NEW p \in named PROVE p = <<p[1], p[2]>> OBVIOUS
  <2>1. CASE \E h \in Taken : p = LostClaim(h) BY <2>1 DEF LostClaim
  <2>2. CASE Given(p)
    <3>1. PICK a, b : p = <<a, b>> BY <2>2 DEF Given
    <3> QED BY <3>1
  <2> QED BY <2>1, <2>2 DEF Tree, NamedInv
<1> QED BY <1>1 DEF Ambiguous, Tree, Apart

\* A file that can be read is what its entry says.
LEMMA WholeFile ==
  ASSUME Sound, NEW e \in Live, Entry(e).kind = "file", LinksRead(e), AllReadable(FileChain(Entry(e)).clusters)
  PROVE  Issue(Entry(e), FileChain(Entry(e))) = "none"
<1>1. FileChain(Entry(e)).error = "none" BY DEF LinksRead
<1>2. Len(FileChain(Entry(e)).clusters) = Entry(e).size
  <2>1. CASE Entry(e).size = 0 /\ Entry(e).start = 0 BY <2>1 DEF FileChain, NoChain
  <2>2. CASE ~(Entry(e).size = 0 /\ Entry(e).start = 0)
    <3>1. FileChain(Entry(e)) = Chain(Entry(e).start) BY <2>2 DEF FileChain
    <3>2. Entry(e).start \in Clusters BY <1>1, <3>1, WholeChain
    <3>3. Entry(e).start # 0 BY <3>2, ClusterCount
    <3>4. image.fat[1] = image.fat[2] BY DEF Sound
    <3>5. Written(Entry(e).start) = Chain(Entry(e).start) BY <1>1, <3>1, <3>4, ReadAsWritten
    <3>6. Len(ChainOf(e).clusters) = Entry(e).size BY DEF Sound
    <3> QED BY <3>1, <3>3, <3>5, <3>6 DEF ChainOf
  <2> QED BY <2>1, <2>2
<1> QED BY <1>1, <1>2 DEF Issue

\* A file that can be had was recovered.
LEMMA ReadableRecoveredHolds ==
  ASSUME Tree, Sound, Counted(image), FoundAsRead, phase = "judged", queue = <<>>
  PROVE  ReadableRecovered
<1> SUFFICES ASSUME NEW e \in Reachable, Entry(e).kind = "file", LinksRead(e),
                    AllReadable(FileChain(Entry(e)).clusters)
             PROVE  \E f \in Recovered : f.claim[2] = e
  BY DEF ReadableRecovered
<1>1. e \in Live /\ Named(e) BY ReachableNamed
<1>2. PICK f \in found : f.claim[2] = e
  <2>1. PICK p \in named : p[2] = e BY <1>1 DEF Named
  <2> QED BY <1>1, <2>1 DEF Tree, VisitedInv
<1>3. f.clusters = FileChain(Entry(e)).clusters /\ f.issue = Issue(Entry(e), FileChain(Entry(e)))
  BY <1>2 DEF FoundAsRead
<1>4. f.issue = "none" BY <1>1, <1>3, WholeFile
<1>5. \A c \in ToSet(f.clusters) : c \notin Crosslinked
  <2>1. ToSet(f.clusters) = Held(Entry(e).start) BY <1>3, FileChainIs
  <2> QED BY <1>1, <2>1, FilesClean
<1>6. \A c \in f.ancestors : c \notin Crosslinked
  <2> SUFFICES ASSUME NEW c \in f.ancestors, c \in Crosslinked PROVE FALSE OBVIOUS
  <2>1. PICK d \in LiveDirs : /\ Entry(d).start \in Taken /\ SectorOf(d) \notin bad
                              /\ c \in ToSet(W(Entry(d).start))
    BY CrosslinkedIs
  <2>2. PICK H \in SUBSET Trees : /\ Closed(H) /\ Within(e, H)
                                  /\ \A x \in H : Entry(x).start \in Taken => SectorOf(x) \in bad
    BY CleanWay
  <2>3. f.ancestors \subseteq Span(H) BY <1>2, <2>2 DEF Tree, PathInv
  <2>4. PICK x \in H : c \in Held(Entry(x).start) BY <2>3 DEF Span
  <2>5. x \in Live BY DEF Trees, LiveDirs
  <2>6. image.fat[1] = image.fat[2] BY DEF Sound
  <2>7. c \in ToSet(W(Entry(x).start)) BY <2>4, <2>6, HeldIsWritten
  <2>8. x = d BY <2>1, <2>5, <2>7, Disjoint DEF LiveDirs
  <2> QED BY <2>1, <2>2, <2>8
<1>7. \A key \in f.keys : ~Ambiguous(key) BY NoKeyTwice
<1>8. (ToSet(f.clusters) \cup f.ancestors) \cap Crosslinked = {} BY <1>5, <1>6
<1>9. Verdict(f) = "none" BY <1>4, <1>7, <1>8 DEF Verdict
<1> QED BY <1>2, <1>9 DEF Recovered

-----------------------------------------------------------------------------
(* The rest of a file that lost one link.                                  *)

\* What is left of a file whose chain broke off is claimed by nobody.
LEMMA TailUnowned ==
  ASSUME Tree, Sound, Counted(image), NEW e \in Live, Entry(e).kind = "file",
         NEW c \in ToSet(W(Entry(e).start)), c \in Owned
  PROVE  c \in Held(Entry(e).start)
<1>1. PICK q \in owners : q[1] = c BY DEF Owned
<1>2. PICK p \in named : p = q[2] /\ c \in Held(StartOf(p[2])) BY <1>1 DEF Tree, OwnersInv
<1>3. image.fat[1] = image.fat[2] BY DEF Sound
<1>4. \A s : c \in Held(s) => c \in ToSet(W(s)) BY <1>3, HeldIsWritten
<1>5. CASE \E h \in Taken : p = LostClaim(h)
  <2>1. PICK h \in Taken : p = LostClaim(h) BY <1>5
  <2>2. StartOf(p[2]) = h BY <2>1, LostClaims
  <2>3. PICK d \in LiveDirs : Entry(d).start = h BY <2>1 DEF Tree, TakenInv
  <2>4. d = e BY <1>2, <1>4, <2>2, <2>3, Disjoint DEF LiveDirs
  <2> QED BY <2>4 DEF LiveDirs
<1>6. CASE p[2] \in Live /\ StartOf(p[2]) = Entry(p[2]).start
  <2>1. p[2] = e BY <1>2, <1>4, <1>6, Disjoint
  <2> QED BY <1>2, <1>6, <2>1
<1> QED BY <1>5, <1>6, NameIs

\* The rest of a file, behind the part of it that was read.
Behind(part, whole, tail) ==
  /\ whole \in Seq(Clusters) /\ part \in Seq(Clusters) /\ tail \in Seq(Clusters)
  /\ Len(part) \in Nat /\ Len(whole) \in Nat /\ Len(part) < Len(whole) /\ Len(tail) = Len(whole) - Len(part)
  /\ Head(tail) = whole[Len(part) + 1] /\ Len(part) + 1 \in DOMAIN whole
  /\ \A i \in DOMAIN tail : i + Len(part) \in DOMAIN whole /\ tail[i] = whole[i + Len(part)] /\ i + Len(part) > Len(part)
  /\ \A i \in DOMAIN part : i \in DOMAIN whole /\ part[i] = whole[i] /\ i <= Len(part)
  /\ part \o tail = whole

\* The rest of a sequence lies behind its beginning.
LEMMA BehindThePart ==
  ASSUME NEW w \in Seq(Clusters), NEW b \in Seq(Clusters), Begins(b, w),
         SubSeq(w, Len(b) + 1, Len(w)) # <<>>
  PROVE  Behind(b, w, SubSeq(w, Len(b) + 1, Len(w)))
<1>0. PICK t : t = SubSeq(w, Len(b) + 1, Len(w)) /\ t # <<>> OBVIOUS
<1>1. Len(b) \in Nat /\ Len(w) \in Nat /\ Len(b) <= Len(w) BY DEF Begins
<1>2. Len(b) < Len(w)
  <2>1. SUFFICES ASSUME Len(b) = Len(w) PROVE FALSE BY <1>1
  <2> QED BY <1>1, <2>1
<1>3. t \in Seq(Clusters) /\ Len(t) = Len(w) - Len(b) BY <1>0, <1>1, <1>2
<1>4. \A i \in 1 .. Len(t) : t[i] = w[i + Len(b)] /\ i + Len(b) \in 1 .. Len(w) /\ i + Len(b) > Len(b)
  BY <1>0, <1>1, <1>2, <1>3
<1>5. Head(t) = w[Len(b) + 1]
  <2>1. 1 \in 1 .. Len(t) /\ 1 + Len(b) = Len(b) + 1 BY <1>1, <1>2, <1>3
  <2>2. Head(t) = t[1] BY <1>3
  <2> QED BY <1>4, <2>1, <2>2
<1>6. b \o t = w
  <2>1. b \o t \in Seq(Clusters) /\ Len(b \o t) = Len(w) BY <1>1, <1>2, <1>3
  <2>2. ASSUME NEW i \in 1 .. Len(w) PROVE (b \o t)[i] = w[i]
    <3>1. CASE i <= Len(b)
      <4>1. (b \o t)[i] = b[i] BY <1>1, <1>3, <3>1
      <4> QED BY <1>1, <3>1, <4>1 DEF Begins
    <3>2. CASE i > Len(b)
      <4>1. i - Len(b) \in 1 .. Len(t) /\ (i - Len(b)) + Len(b) = i BY <1>1, <1>3, <3>2
      <4>2. (b \o t)[i] = t[i - Len(b)] BY <1>1, <1>3, <3>2, <4>1
      <4> QED BY <1>4, <4>1, <4>2
    <3>3. i <= Len(b) \/ i > Len(b) BY <1>1
    <3> QED BY <3>1, <3>2, <3>3, Zenon
  <2>3. PICK u : u = b \o t OBVIOUS
  <2>4. u \in Seq(Clusters) /\ Len(u) = Len(w) /\ \A i \in 1 .. Len(u) : u[i] = w[i] BY <2>1, <2>2, <2>3
  <2>5. u = w BY <2>4, SeqEqual
  <2> QED BY <2>3, <2>5
<1>7. Len(b) + 1 \in DOMAIN w BY <1>1, <1>2
<1>8. \A i \in DOMAIN t : i + Len(b) \in DOMAIN w /\ t[i] = w[i + Len(b)] /\ i + Len(b) > Len(b) BY <1>3, <1>4
<1>9. \A i \in DOMAIN b : i \in DOMAIN w /\ b[i] = w[i] /\ i <= Len(b) BY BeginsTyped
<1>10. Behind(b, w, t) BY <1>1, <1>2, <1>3, <1>5, <1>6, <1>7, <1>8, <1>9, Zenon DEF Behind
<1> QED BY <1>0, <1>10, Zenon

\* The file e lost one link, and rest is what of it lies behind that link.
LostLink(f, e, rest) ==
  /\ f \in Incomplete /\ e = f.claim[2] /\ f.issue = "unreadable"
  /\ e \in Live /\ Entry(e).kind = "file" /\ f.size = Entry(e).size
  /\ f.clusters = Chain(Entry(e).start).clusters /\ Chain(Entry(e).start).error = "unreadable"
  /\ Behind(f.clusters, W(Entry(e).start), rest)
  /\ W(Entry(e).start) \in image.whole /\ AllReadable(W(Entry(e).start))
  /\ ToSet(W(Entry(e).start)) \cap excluded = {}
  /\ Chain(Head(rest)).clusters = rest /\ Chain(Head(rest)).error = "none"

\* Its rest is outside the part that was read, belongs to no file, and nothing
\* that was read leads to it.
LEMMA RestUntouched ==
  ASSUME Tree, Sound, Counted(image), NEW f, NEW e, NEW rest, LostLink(f, e, rest), NEW c \in ToSet(rest)
  PROVE  c \in ToSet(W(Entry(e).start)) /\ c \notin Owned \cup excluded /\ Cardinality(Incoming(c)) <= 1
<1>1. e \in Live /\ Entry(e).kind = "file" /\ ToSet(W(Entry(e).start)) \cap excluded = {} BY DEF LostLink
<1>2. PICK part, whole : part = f.clusters /\ whole = W(Entry(e).start) OBVIOUS
<1>3. Behind(part, whole, rest) /\ part = Chain(Entry(e).start).clusters BY <1>2 DEF LostLink
<1>4. \A i, j \in DOMAIN whole : whole[i] = whole[j] => i = j BY <1>2, WrittenIs DEF IsChain, W
<1>5. PICK i \in DOMAIN rest : c = rest[i] BY DEF ToSet
<1>6. i + Len(part) \in DOMAIN whole /\ c = whole[i + Len(part)] /\ i + Len(part) > Len(part) BY <1>3, <1>5 DEF Behind
<1>7. c \in ToSet(W(Entry(e).start)) BY <1>2, <1>6 DEF ToSet
<1>8. ASSUME c \in Held(Entry(e).start) PROVE FALSE
  <2>1. PICK j \in DOMAIN part : c = part[j] BY <1>3, <1>8 DEF Held, ToSet
  <2>2. j \in DOMAIN whole /\ c = whole[j] /\ j <= Len(part) BY <1>3, <2>1 DEF Behind
  <2>3. j = i + Len(part) BY <1>4, <1>6, <2>2
  <2> QED BY <1>3, <1>6, <2>2, <2>3 DEF Behind
<1>9. c \notin Owned BY <1>1, <1>7, <1>8, TailUnowned
<1>10. c \notin excluded BY <1>1, <1>7
<1> QED BY <1>1, <1>7, <1>9, <1>10, OneWayIn

\* The first cluster of the rest is one that no other leads to.
LEMMA RestUnlinked ==
  ASSUME Tree, Sound, NEW f, NEW e, NEW rest, LostLink(f, e, rest)
  PROVE  Incoming(Head(rest)) = {}
<1>1. e \in Live /\ Chain(Entry(e).start).error = "unreadable" BY DEF LostLink
<1>2. PICK part, whole, h, n : part = f.clusters /\ whole = W(Entry(e).start) /\ h = Head(rest) /\ n = Len(part) OBVIOUS
<1>3. Behind(part, whole, rest) /\ part = Chain(Entry(e).start).clusters BY <1>2 DEF LostLink
<1>4. h = whole[n + 1] /\ n + 1 \in DOMAIN whole /\ n \in Nat /\ whole \in Seq(Clusters)
  BY <1>2, <1>3 DEF Behind
<1>5. h \in Clusters /\ h \in ToSet(whole) BY <1>4 DEF ToSet
<1>6. \A i, j \in DOMAIN whole : whole[i] = whole[j] => i = j BY <1>2, WrittenIs DEF IsChain, W
<1> SUFFICES ASSUME NEW a \in Incoming(h) PROVE FALSE BY <1>2
<1>7. a \in Clusters /\ Link(a) = h BY DEF Incoming
<1>8. image.fat[1][a] = h BY <1>5, <1>7, LinkedAs
<1>9. PICK d \in Live : \E i \in DOMAIN W(Entry(d).start) :
         /\ W(Entry(d).start)[i] = a
         /\ i + 1 \in DOMAIN W(Entry(d).start) /\ W(Entry(d).start)[i + 1] = image.fat[1][a]
  BY <1>5, <1>7, <1>8, Predecessor
<1>10. PICK i \in DOMAIN W(Entry(d).start) :
         W(Entry(d).start)[i] = a /\ i + 1 \in DOMAIN W(Entry(d).start) /\ W(Entry(d).start)[i + 1] = h
  BY <1>8, <1>9
<1>11. h \in ToSet(W(Entry(d).start)) BY <1>10 DEF ToSet
<1>12. d = e BY <1>1, <1>2, <1>5, <1>11, Disjoint
<1>13. i \in DOMAIN whole /\ whole[i] = a /\ i + 1 \in DOMAIN whole /\ whole[i + 1] = h BY <1>2, <1>10, <1>12
<1>14. i + 1 = n + 1 BY <1>4, <1>6, <1>13
<1>15. i \in Nat /\ i = n
  <2>1. DOMAIN whole = 1 .. Len(whole) /\ Len(whole) \in Nat BY <1>4
  <2>2. i \in Nat BY <1>13, <2>1
  <2> QED BY <1>4, <1>14, <2>2
<1>16. n \in DOMAIN part /\ Link(part[n]) = Unreadable BY <1>1, <1>2, <1>3, BrokenChain
<1>17. part[n] = a BY <1>3, <1>13, <1>15, <1>16 DEF Behind
<1>18. Unreadable \notin Clusters BY ClusterCount DEF Unreadable
<1> QED BY <1>5, <1>7, <1>16, <1>17, <1>18

\* So it is a chain of its own to the search, and one of those it tries.
LEMMA RestIsTried ==
  ASSUME Tree, Sound, Counted(image), NEW f, NEW e, NEW rest, LostLink(f, e, rest)
  PROVE  rest \in {Chain(g).clusters : g \in Unclaimed}
<1>1. PICK h : h = Head(rest) OBVIOUS
<1>2. Chain(h).clusters = rest /\ Chain(h).error = "none" BY <1>1 DEF LostLink
<1>3. h \in Clusters /\ Link(h) \in Clusters \cup {End} BY <1>2, WholeChain
<1>4. Incoming(h) = {} BY <1>1, RestUnlinked
<1>5. ToSet(Chain(h).clusters) \cap (Owned \cup excluded) = {} BY <1>2, RestUntouched
<1>6. \A i \in DOMAIN Chain(h).clusters : Cardinality(Incoming(Chain(h).clusters[i])) <= 1
  BY <1>2, RestUntouched DEF ToSet
<1>7. h \in Unclaimed BY <1>2, <1>3, <1>4, <1>5, <1>6 DEF Unclaimed
<1> QED BY <1>2, <1>7

\* The rest makes the file whole, and is tried for it.
LEMMA LostLinkTried ==
  ASSUME Tree, Sound, Counted(image), NEW f, NEW e, NEW rest, LostLink(f, e, rest)
  PROVE  rest \in Tails(f)
<1>1. PICK part, whole : part = f.clusters /\ whole = W(Entry(e).start) OBVIOUS
<1>2. Behind(part, whole, rest) /\ part = Chain(Entry(e).start).clusters BY <1>1 DEF LostLink
<1>3. /\ e \in Live /\ Entry(e).kind = "file" /\ f.size = Entry(e).size /\ f.issue = "unreadable"
      /\ AllReadable(whole) /\ e = f.claim[2] /\ whole \in image.whole
  BY <1>1 DEF LostLink
<1>4. Len(whole) = f.size
  <2>1. Entry(e).start \in Clusters
    <3>1. SUFFICES ASSUME Entry(e).start \notin Clusters PROVE FALSE OBVIOUS
    <3>2. whole = <<>> BY <1>1, <3>1, NoStart
    <3> QED BY <1>2, <3>2 DEF Behind
  <2>2. Entry(e).start # 0 BY <2>1, ClusterCount
  <2>3. Len(ChainOf(e).clusters) = Entry(e).size BY <1>3 DEF Sound
  <2> QED BY <1>1, <1>3, <2>2, <2>3 DEF ChainOf, W
<1>5. Len(part) < f.size /\ Len(rest) = f.size - Len(part) /\ part \o rest = whole BY <1>2, <1>4 DEF Behind
<1>6. AllReadable(part) /\ AllReadable(rest)
  <2>1. \A i \in DOMAIN part : DataSector(part[i]) \notin bad BY <1>2, <1>3 DEF AllReadable, Behind
  <2>2. \A i \in DOMAIN rest : DataSector(rest[i]) \notin bad BY <1>2, <1>3 DEF AllReadable, Behind
  <2> QED BY <2>1, <2>2 DEF AllReadable
<1>7. Documented(part \o rest, Len(part))
  <2>1. IsPrefix(whole, whole) BY <1>2 DEF IsPrefix, Behind
  <2>2. Len(whole) > Len(part) BY <1>2 DEF Behind
  <2> QED BY <1>3, <1>5, <2>1, <2>2 DEF Documented
<1>8. Safe(f)
  <2>1. Verdict(f) = "unreadable" BY <1>3 DEF Verdict
  <2>2. ToSet(f.clusters) = Held(Entry(e).start) BY <1>1, <1>2 DEF Held
  <2>3. ToSet(f.clusters) \cap Crosslinked = {} BY <1>3, <2>2, FilesClean
  <2> QED BY <2>1, <2>3 DEF Safe
<1>9. rest \in {Chain(g).clusters : g \in Unclaimed} BY RestIsTried
<1>10. Len(part) >= f.size <=> FALSE
  <2>1. Len(part) \in Nat /\ f.size = Len(whole) /\ Len(whole) \in Nat BY <1>2, <1>4 DEF Behind
  <2> QED BY <1>5, <2>1
<1> QED BY <1>1, <1>3, <1>5, <1>6, <1>7, <1>8, <1>9, <1>10 DEF Tails

\* A file that lost one link is put together again.
LEMMA TailsConsideredHolds ==
  ASSUME Tree, Sound, Counted(image), FoundAsRead
  PROVE  TailsConsidered
<1>1. ASSUME NEW f \in Incomplete,
             NEW whole, whole = Written(Entry(f.claim[2]).start).clusters,
             f.issue = "unreadable", whole \in image.whole, AllReadable(whole), ToSet(whole) \cap excluded = {},
             NEW tail, tail = SubSeq(whole, Len(f.clusters) + 1, Len(whole)),
             tail # <<>>, Chain(Head(tail)) = [clusters |-> tail, error |-> "none"]
      PROVE  tail \in Tails(f)
  <2>1. PICK e : e = f.claim[2] OBVIOUS
  <2>2. f \in found BY DEF Incomplete
  <2>3. e \in Live /\ Entry(e).kind = "file" /\ f.size = Entry(e).size BY <2>1, <2>2 DEF Tree, FoundInv
  <2>4. f.clusters = FileChain(Entry(e)).clusters /\ f.issue = Issue(Entry(e), FileChain(Entry(e)))
    BY <2>1, <2>2, Zenon DEF FoundAsRead
  <2>5. FileChain(Entry(e)).error = "unreadable" BY <1>1, <2>4, Zenon DEF Issue
  <2>6. FileChain(Entry(e)) = Chain(Entry(e).start) BY <2>5 DEF FileChain, NoChain
  <2>7. f.clusters = Chain(Entry(e).start).clusters /\ Chain(Entry(e).start).error = "unreadable"
    BY <2>4, <2>5, <2>6, Zenon
  <2>8. whole = W(Entry(e).start) BY <1>1, <2>1, Zenon DEF W
  <2>9. image.fat[1] = image.fat[2] BY DEF Sound
  <2>10. whole \in Seq(Clusters) /\ f.clusters \in Seq(Clusters) BY <2>7, <2>8, ChainsTyped, Zenon
  <2>11. Begins(f.clusters, whole) BY <2>7, <2>8, <2>9, ReadBegins, Zenon
  <2>12. Behind(f.clusters, whole, tail) BY <1>1, <2>10, <2>11, BehindThePart, Zenon
  <2>13. Chain(Head(tail)).clusters = tail /\ Chain(Head(tail)).error = "none"
    <3>1. PICK r : r = Chain(Head(tail)) /\ r = [clusters |-> tail, error |-> "none"] BY <1>1, Zenon
    <3>2. r.clusters = tail /\ r.error = "none"
      <4>1. \A x, y : [clusters |-> x, error |-> y].clusters = x /\ [clusters |-> x, error |-> y].error = y OBVIOUS
      <4> QED BY <3>1, <4>1, Zenon
    <3> QED BY <3>1, <3>2, Zenon
  <2>14. LostLink(f, e, tail)
    BY <1>1, <2>1, <2>3, <2>7, <2>8, <2>12, <2>13, Zenon DEF LostLink
  <2> QED BY <2>14, LostLinkTried, Zenon
<1> QED BY <1>1, Zenon DEF TailsConsidered

\* Of a floppy without a fault, whatever sectors of it cannot be read, every file
\* that native recovery recovers is true, every one that can be had is recovered,
\* and every document that lost one link is put together again (src/fat12.rs,
\* analyze; src/fat12_directories.rs, discover; src/fat12_orphans.rs).
THEOREM SalvageIsTrueAndWhole == Spec => []TrueAndWhole
<1>1. Init => LearntInv BY DEF Init, ScanInit, LearntInv, DeletedExcluded, FoundAsRead
<1>2. TreeInv /\ LearntInv => TrueAndWhole
  <2> SUFFICES ASSUME TreeInv, LearntInv, Judged, Sound PROVE FilesTrue /\ ReadableRecovered /\ TailsConsidered
    BY DEF TrueAndWhole
  <2>1. Tree /\ Counted(image) BY DEF TreeInv
  <2>2. FoundAsRead BY DEF LearntInv
  <2>3. phase = "judged" /\ queue = <<>> BY <2>1 DEF Judged, Tree, ShapeInv
  <2> QED BY <2>1, <2>2, <2>3, FilesTrueHolds, ReadableRecoveredHolds, TailsConsideredHolds
<1> QED BY TreeInit, TreeStep, <1>1, LearntStep, <1>2, PTL DEF Spec
=============================================================================
