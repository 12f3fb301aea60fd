--------------------------- MODULE FinishedProofs ---------------------------
(***************************************************************************)
(* The interval map of nsqd/segment_tree.go is a faithful record of the    *)
(* finished messages, whatever their sizes, their number and the order     *)
(* they are finished in: the four invariants of MCIntervalHash hold for    *)
(* every set of message boundaries.                                        *)
(***************************************************************************)
EXTENDS MCIntervalHash, IntervalHashProofs, FiniteSetTheorems

\* Message i has offset p.
In(p, i) == i[1] <= p /\ p < i[2]

\* The inductive invariant.  Above the confirmed position the map has exactly the
\* offsets of finished messages; the history has finished messages only, and those
\* above the confirmed position all of them.
HashInv ==
    /\ Shaped(ih.elems, Cuts) /\ BothEnds(ih.elems)
    /\ low \in Cuts /\ finished \subseteq Messages
    /\ \A p \in Nat : p >= low => (Has(ih.elems, p) <=> \E i \in finished : In(p, i))
    /\ \A s \in DOMAIN ih.historyMsg : <<s, ih.historyMsg[s]>> \in finished
    /\ \A i \in finished : i[1] >= low => /\ i[1] \in DOMAIN ih.historyMsg
                                          /\ ih.historyMsg[i[1]] = i[2]

\* Messages are made of naturals and lie between neighbouring cuts.
LEMMA MessageFacts ==
    ASSUME NEW i \in Messages
    PROVE  /\ i[1] \in Cuts /\ i[2] \in Cuts /\ i[1] \in Nat /\ i[2] \in Nat /\ i[1] < i[2]
           /\ i = <<i[1], i[2]>> /\ \A c \in Cuts : c <= i[1] \/ i[2] <= c
<1>1. i \in Cuts \X Cuts /\ i[1] < i[2] /\ \A c \in Cuts : c <= i[1] \/ i[2] <= c
  BY DEF Messages
<1>2. i[1] \in Cuts /\ i[2] \in Cuts /\ i = <<i[1], i[2]>>
  BY <1>1
<1>3. QED BY <1>1, <1>2, CutsAssumption, Zenon

\* Two messages that share an offset are the same.
LEMMA MessagesApart ==
    ASSUME NEW i \in Messages, NEW j \in Messages, NEW p \in Nat, In(p, i), In(p, j)
    PROVE  i = j
<1>1. /\ i[1] \in Cuts /\ i[2] \in Cuts /\ i[1] \in Nat /\ i[2] \in Nat
      /\ i = <<i[1], i[2]>> /\ \A c \in Cuts : c <= i[1] \/ i[2] <= c
  BY MessageFacts
<1>2. /\ j[1] \in Cuts /\ j[2] \in Cuts /\ j[1] \in Nat /\ j[2] \in Nat
      /\ j = <<j[1], j[2]>> /\ \A c \in Cuts : c <= j[1] \/ j[2] <= c
  BY MessageFacts
<1>3. i[1] = j[1] /\ i[2] = j[2]
  BY <1>1, <1>2 DEF In
<1>4. QED BY <1>1, <1>2, <1>3

\* The empty map.
LEMMA HashInitInv == HashInit => HashInv
BY CutsAssumption DEF HashInit, HashInv, NewIntervalHash, EmptyMap, Shaped, BothEnds, Has, Messages

\* ConfirmBackendQueue: the message is added, and the confirmed position passes the
\* merged interval if it reaches down to it.
LEMMA ConfirmInv ==
    ASSUME HashInv, NEW i \in Messages, Confirm(i)
    PROVE  HashInv'
<1> DEFINE added == AddOrMerge(ih, i[1], i[2])
           merged == MergedInterval(ih, i[1], i[2])
<1>1. /\ i[1] \in Cuts /\ i[2] \in Cuts /\ i[1] \in Nat /\ i[2] \in Nat /\ i[1] < i[2]
      /\ i = <<i[1], i[2]>> /\ \A c \in Cuts : c <= i[1] \/ i[2] <= c
  BY MessageFacts
<1>2. /\ Cuts \in SUBSET Nat /\ Shaped(ih.elems, Cuts) /\ BothEnds(ih.elems)
      /\ low \in Cuts /\ low \in Nat
  BY CutsAssumption DEF HashInv
<1>3. /\ Shaped(added.elems, Cuts) /\ BothEnds(added.elems)
      /\ merged[1] \in DOMAIN added.elems /\ added.elems[merged[1]] = merged
      /\ merged \in Cuts \X Cuts /\ merged[1] <= i[1] /\ i[2] <= merged[2]
      /\ \A p \in Nat : Has(ih.elems, p) \/ (i[1] <= p /\ p < i[2]) => Has(added.elems, p)
  BY <1>1, <1>2, AddOrMergeBoth, Zenon
<1>4. \A p \in Nat : Has(added.elems, p) => Has(ih.elems, p) \/ In(p, i)
  <2> DEFINE S == {p \in Nat : Has(ih.elems, p) \/ In(p, i)}
  <2>1. Within(ih.elems, S)
    BY DEF Within, Has
  <2>2. \A p \in Nat : i[1] <= p /\ p < i[2] => p \in S
    BY DEF In
  <2> HIDE DEF S
  <2>3. Within(added.elems, S)
    BY <1>1, <1>2, <2>1, <2>2, AddOrMergeWithin
  <2>4. \A p \in Nat : Has(added.elems, p) => p \in S
    BY <2>3 DEF Within, Has
  <2>5. QED BY <2>4 DEF S
<1>5. /\ DOMAIN added.historyMsg = DOMAIN ih.historyMsg \cup {i[1]}
      /\ \A s \in DOMAIN added.historyMsg :
            added.historyMsg[s] = IF s = i[1] THEN i[2] ELSE ih.historyMsg[s]
      /\ "elems" \in DOMAIN added
  BY DEF AddOrMerge
<1>6. i[1] >= low /\ finished' = finished \cup {i} /\ finished' \subseteq Messages
  BY DEF Confirm, HashInv
<1>7. /\ low' = IF merged[1] <= low THEN merged[2] ELSE low
      /\ ih' = IF merged[1] <= low THEN DeleteInterval(added, merged) ELSE added
  BY DEF Confirm
<1>8. ih'.historyMsg = added.historyMsg
  BY <1>7 DEF DeleteInterval, AddOrMerge
<1> HIDE DEF added, merged
<1>9. merged[1] \in Nat /\ merged[2] \in Nat /\ merged[2] \in Cuts /\ low' \in Cuts /\ low' \in Nat /\ low <= low'
  <2>1. merged[1] \in Nat /\ merged[2] \in Nat /\ merged[2] \in Cuts
    BY <1>2, <1>3, Zenon
  <2>2. QED BY <2>1, <1>1, <1>2, <1>3, <1>6, <1>7
<1>10. /\ Shaped(ih'.elems, Cuts) /\ BothEnds(ih'.elems)
       /\ \A p \in Nat : Has(ih'.elems, p) => Has(added.elems, p)
       /\ \A p \in Nat : p >= low' /\ Has(added.elems, p) => Has(ih'.elems, p)
  <2>1. CASE merged[1] <= low
    <3>1. /\ Shaped(ih'.elems, Cuts) /\ BothEnds(ih'.elems)
          /\ \A p \in Nat : Has(ih'.elems, p) => Has(added.elems, p)
          /\ \A p \in Nat : Has(added.elems, p) => Has(ih'.elems, p) \/ (merged[1] <= p /\ p < merged[2])
      BY <2>1, <1>2, <1>3, <1>5, <1>7, DeleteIntervalBoth
    <3>2. low' = merged[2]
      BY <2>1, <1>7
    <3>3. QED BY <3>1, <3>2, <1>9
  <2>2. CASE ~(merged[1] <= low)
    BY <2>2, <1>3, <1>7
  <2>3. QED BY <2>1, <2>2
<1>11. ASSUME NEW p \in Nat, p >= low'
       PROVE  Has(ih'.elems, p) <=> \E j \in finished' : In(p, j)
  <2>1. p >= low
    BY <1>2, <1>9, <1>11
  <2>2. Has(ih.elems, p) <=> \E j \in finished : In(p, j)
    BY <2>1 DEF HashInv
  <2>3. Has(ih'.elems, p) <=> Has(ih.elems, p) \/ In(p, i)
    BY <1>3, <1>4, <1>10, <1>11 DEF In
  <2>4. QED BY <2>2, <2>3, <1>6
<1>12. ASSUME NEW s \in DOMAIN ih'.historyMsg
       PROVE  <<s, ih'.historyMsg[s]>> \in finished'
  <2>1. CASE s = i[1]
    BY <2>1, <1>1, <1>5, <1>6, <1>8
  <2>2. CASE s # i[1]
    <3>1. s \in DOMAIN ih.historyMsg /\ ih'.historyMsg[s] = ih.historyMsg[s]
      BY <2>2, <1>5, <1>8, <1>12
    <3>2. QED BY <3>1, <1>6 DEF HashInv
  <2>3. QED BY <2>1, <2>2
<1>13. ASSUME NEW j \in finished', j[1] >= low'
       PROVE  j[1] \in DOMAIN ih'.historyMsg /\ ih'.historyMsg[j[1]] = j[2]
  <2>1. /\ j[1] \in Nat /\ j[2] \in Nat /\ j[1] < j[2] /\ j \in Messages
    BY <1>6, MessageFacts
  <2>2. CASE j[1] = i[1]
    <3>1. In(i[1], i) /\ In(i[1], j)
      BY <2>1, <2>2, <1>1 DEF In
    <3>2. j = i
      BY <3>1, <2>1, <1>1, MessagesApart
    <3>3. QED BY <3>2, <1>5, <1>8
  <2>3. CASE j[1] # i[1]
    <3>1. j \in finished /\ j[1] >= low
      BY <2>1, <2>3, <1>2, <1>6, <1>9, <1>13
    <3>2. j[1] \in DOMAIN ih.historyMsg /\ ih.historyMsg[j[1]] = j[2]
      BY <3>1 DEF HashInv
    <3>3. QED BY <3>2, <2>3, <1>5, <1>8
  <2>4. QED BY <2>2, <2>3
<1>14. QED BY <1>6, <1>9, <1>10, <1>11, <1>12, <1>13 DEF HashInv

\* DeleteLower up to a cut c at or above the position, which becomes c, with the
\* messages below c finished.
LEMMA DeleteLowerInv ==
    ASSUME HashInv, NEW c \in Cuts, c >= low, low' = c, ih' = DeleteLower(ih, c),
           finished \subseteq finished', finished' \subseteq Messages,
           \A i \in finished' \ finished : i[2] <= c
    PROVE  HashInv'
<1>1. /\ Cuts \in SUBSET Nat /\ Shaped(ih.elems, Cuts) /\ BothEnds(ih.elems)
      /\ low \in Nat /\ c \in Nat
  BY CutsAssumption DEF HashInv
<1>2. /\ Shaped(ih'.elems, Cuts) /\ BothEnds(ih'.elems)
      /\ \A p \in Nat : Has(ih'.elems, p) => Has(ih.elems, p)
      /\ \A p \in Nat : p >= c /\ Has(ih.elems, p) => Has(ih'.elems, p)
  BY <1>1, DeleteLowerBoth, Zenon
<1>3. /\ DOMAIN ih'.historyMsg =
            DOMAIN ih.historyMsg \ {s \in DOMAIN ih.historyMsg : ih.historyMsg[s] <= c /\ s < c}
      /\ \A s \in DOMAIN ih'.historyMsg : ih'.historyMsg[s] = ih.historyMsg[s]
  BY DEF DeleteLower, Without
<1>4. ASSUME NEW p \in Nat, p >= low'
      PROVE  Has(ih'.elems, p) <=> \E j \in finished' : In(p, j)
  <2>1. Has(ih.elems, p) <=> \E j \in finished : In(p, j)
    BY <1>1, <1>4 DEF HashInv
  <2>2. \A j \in finished' : In(p, j) => j \in finished
    BY <1>1, <1>4, MessageFacts DEF In
  <2>3. QED BY <2>1, <2>2, <1>2, <1>4
<1>5. \A s \in DOMAIN ih'.historyMsg : <<s, ih'.historyMsg[s]>> \in finished'
  BY <1>3 DEF HashInv
<1>6. ASSUME NEW j \in finished', j[1] >= low'
      PROVE  j[1] \in DOMAIN ih'.historyMsg /\ ih'.historyMsg[j[1]] = j[2]
  <2>1. j[1] \in Nat /\ j[2] \in Nat /\ j[1] < j[2]
    BY MessageFacts
  <2>2. j \in finished /\ j[1] >= low
    BY <2>1, <1>1, <1>6
  <2>3. j[1] \in DOMAIN ih.historyMsg /\ ih.historyMsg[j[1]] = j[2]
    BY <2>2 DEF HashInv
  <2>4. QED BY <2>1, <2>3, <1>1, <1>3, <1>6
<1>7. QED BY <1>2, <1>4, <1>5, <1>6 DEF HashInv

\* Every step keeps the invariant.
LEMMA HashNextInv == HashInv /\ [HashNext]_hashVars => HashInv'
<1> SUFFICES ASSUME HashInv, [HashNext]_hashVars PROVE HashInv'
  OBVIOUS
<1>1. ASSUME NEW i \in Messages, Confirm(i) PROVE HashInv'
  BY <1>1, ConfirmInv
<1>2. CASE Clean
  <2>1. low \in Cuts /\ low >= low /\ finished \subseteq Messages
    BY CutsAssumption DEF HashInv
  <2>2. low' = low /\ ih' = DeleteLower(ih, low) /\ finished' = finished
    BY <1>2 DEF Clean
  <2>3. QED BY <2>1, <2>2, DeleteLowerInv
<1>3. ASSUME NEW c \in Cuts, MoveUp(c) PROVE HashInv'
  <2>1. low \in Nat /\ c \in Nat /\ finished \subseteq Messages
    BY CutsAssumption DEF HashInv
  <2>2. /\ c > low /\ low' = c /\ ih' = DeleteLower(ih, c)
        /\ finished' = finished \cup {i \in Messages : i[2] <= c}
    BY <1>3 DEF MoveUp
  <2>3. /\ c >= low /\ finished \subseteq finished' /\ finished' \subseteq Messages
        /\ \A i \in finished' \ finished : i[2] <= c
    BY <2>1, <2>2
  <2>4. QED BY <2>2, <2>3, DeleteLowerInv
<1>4. CASE UNCHANGED hashVars
  BY <1>4 DEF hashVars, HashInv
<1>5. QED BY <1>1, <1>2, <1>3, <1>4 DEF HashNext

\* The inductive invariant of the map of confirmed intervals, under every sequence of
\* finished messages, lookups and deletions.
THEOREM HashInvariant == HashSpec => []HashInv
BY HashInitInv, HashNextInv, PTL DEF HashSpec

\* A set is as large as the set of its elements' images under an injection.
LEMMA SameSize ==
    ASSUME NEW S, IsFiniteSet(S), NEW T, NEW f \in [S -> T],
           \A x, y \in S : f[x] = f[y] => x = y, \A t \in T : \E x \in S : f[x] = t
    PROVE  IsFiniteSet(T) /\ Cardinality(T) = Cardinality(S)
<1>1. f \in Bijection(S, T)
  BY DEF Bijection, Injection, Surjection, IsInjective
<1>2. ExistsBijection(S, T)
  BY <1>1 DEF ExistsBijection
<1>3. QED BY <1>2, FS_Bijection

\* The keys are the starts and the ends of the stored intervals, and no interval
\* starts where another ends, so there are twice as many keys as intervals.
LEMMA KeysArePairs ==
    ASSUME NEW map, NEW P \in SUBSET Nat, Shaped(map, P), BothEnds(map), IsFiniteSet(P)
    PROVE  Cardinality(DOMAIN map) \div 2 = Cardinality({map[k] : k \in DOMAIN map})
<1> DEFINE I == {map[k] : k \in DOMAIN map}
           S == {i[1] : i \in I}
           E == {i[2] : i \in I}
           first == [i \in I |-> i[1]]
           last == [i \in I |-> i[2]]
<1>1. \A i \in I : /\ i \in P \X P /\ i[1] < i[2] /\ i[1] \in P /\ i[2] \in P
                   /\ i[1] \in DOMAIN map /\ i[2] \in DOMAIN map /\ map[i[1]] = i /\ map[i[2]] = i
  <2> SUFFICES ASSUME NEW k \in DOMAIN map
               PROVE  /\ map[k] \in P \X P /\ map[k][1] < map[k][2] /\ map[k][1] \in P /\ map[k][2] \in P
                      /\ map[k][1] \in DOMAIN map /\ map[k][2] \in DOMAIN map
                      /\ map[map[k][1]] = map[k] /\ map[map[k][2]] = map[k]
    OBVIOUS
  <2>1. QED BY DEF Shaped, BothEnds
<1>2. DOMAIN map = S \cup E
  <2>1. \A k \in DOMAIN map : map[k] \in I /\ k \in {map[k][1], map[k][2]}
    BY DEF Shaped
  <2> HIDE DEF I
  <2>2. QED BY <1>1, <2>1
<1>3. IsFiniteSet(P) /\ S \subseteq P /\ E \subseteq P
  <2> HIDE DEF I
  <2>1. QED BY <1>1
<1>4. IsFiniteSet(S) /\ IsFiniteSet(E) /\ Cardinality(S) \in Nat
  BY <1>3, FS_Subset, FS_CardinalityType
<1> HIDE DEF I
<1>5. IsFiniteSet(I)
  <2> DEFINE at == [k \in S |-> map[k]]
  <2>1. \A i \in I : i[1] \in S /\ at[i[1]] = i
    BY <1>1
  <2>2. at \in [S -> I]
    <3>1. \A k \in S : map[k] \in I
      BY <1>1
    <3>2. QED BY <3>1
  <2>3. \A x, y \in S : at[x] = at[y] => x = y
    <3>1. \A x \in S : map[x][1] = x
      BY <1>1
    <3>2. QED BY <3>1
  <2> HIDE DEF at, S
  <2>4. QED BY <2>1, <2>2, <2>3, <1>4, SameSize
<1>6. Cardinality(S) = Cardinality(I)
  <2>1. first \in [I -> S] /\ (\A x, y \in I : first[x] = first[y] => x = y) /\ \A t \in S : \E x \in I : first[x] = t
    BY <1>1
  <2> HIDE DEF first, S
  <2>2. QED BY <1>5, <2>1, SameSize
<1>7. Cardinality(E) = Cardinality(I)
  <2>1. last \in [I -> E] /\ (\A x, y \in I : last[x] = last[y] => x = y) /\ \A t \in E : \E x \in I : last[x] = t
    BY <1>1
  <2> HIDE DEF last, E
  <2>2. QED BY <1>5, <2>1, SameSize
<1>8. S \cap E = {}
  <2>1. ASSUME NEW i \in I, NEW j \in I, i[1] = j[2] PROVE FALSE
    <3>1. i = j
      BY <1>1, <2>1
    <3>2. i[1] < i[2] /\ i[1] \in Nat /\ i[2] \in Nat
      BY <1>1, Zenon
    <3>3. QED BY <2>1, <3>1, <3>2
  <2>2. QED BY <2>1
<1> HIDE DEF S, E
<1>9. Cardinality(S \cup E) = Cardinality(S) + Cardinality(E) - Cardinality(S \cap E)
  BY <1>4, FS_Union
<1>10. Cardinality(S \cap E) = 0
  BY <1>8, FS_EmptySet
<1>11. Cardinality(DOMAIN map) = 2 * Cardinality(I) /\ Cardinality(I) \in Nat
  BY <1>2, <1>4, <1>6, <1>7, <1>9, <1>10
<1>12. QED BY <1>11 DEF I

\* The map stays well formed and Len counts the stored intervals, whatever is
\* finished, cleaned or passed over.
THEOREM MapWellFormed == HashSpec => []WellFormed
<1>1. HashInv => WellFormed
  <2> SUFFICES ASSUME HashInv PROVE WellFormed
    OBVIOUS
  <2>1. Shaped(ih.elems, Cuts) /\ BothEnds(ih.elems) /\ Cuts \in SUBSET Nat /\ IsFiniteSet(Cuts)
    BY CutsAssumption DEF HashInv
  <2>2. Cardinality(DOMAIN ih.elems) \div 2 = Cardinality({ih.elems[k] : k \in DOMAIN ih.elems})
    BY <2>1, KeysArePairs
  <2>3. QED BY <2>1, <2>2 DEF WellFormed, HashLen
<1>2. QED BY <1>1, HashInvariant, PTL

\* No stored interval begins where another ends.
THEOREM MapNeverTouches == HashSpec => []NeverTouching
<1>1. HashInv => NeverTouching
  <2> SUFFICES ASSUME HashInv, NEW j \in DOMAIN ih.elems, NEW k \in DOMAIN ih.elems,
                      ih.elems[j][2] = ih.elems[k][1]
               PROVE  FALSE
    BY DEF NeverTouching
  <2>1. ih.elems[ih.elems[j][2]] = ih.elems[j] /\ ih.elems[ih.elems[k][1]] = ih.elems[k]
    BY Zenon DEF HashInv, BothEnds
  <2>2. ih.elems[j] = ih.elems[k]
    BY <2>1
  <2>3. ih.elems[k] \in Cuts \X Cuts /\ ih.elems[k][1] < ih.elems[k][2]
    BY DEF HashInv, Shaped
  <2>4. ih.elems[k][1] \in Nat /\ ih.elems[k][2] \in Nat
    BY <2>3, CutsAssumption, Zenon
  <2>5. QED BY <2>2, <2>3, <2>4
<1>2. QED BY <1>1, HashInvariant, PTL

\* Above the confirmed position the map covers exactly the finished messages.
THEOREM MapCoversFinished == HashSpec => []CoversFinished
<1>1. HashInv => CoversFinished
  <2> SUFFICES ASSUME HashInv PROVE CoversFinished
    OBVIOUS
  <2>1. \A k \in DOMAIN ih.elems : ih.elems[k][1] \in Nat /\ ih.elems[k][2] \in Nat
    BY CutsAssumption, Zenon DEF HashInv, Shaped
  <2>2. \A p : p \in Covered(ih) <=> p \in Nat /\ Has(ih.elems, p)
    BY <2>1 DEF Covered, Has
  <2>3. \A i \in finished : i[1] \in Nat /\ i[2] \in Nat
    BY MessageFacts DEF HashInv
  <2>4. \A p : p \in Points(finished) <=> p \in Nat /\ \E i \in finished : In(p, i)
    BY <2>3 DEF Points, In
  <2>5. \A p \in Nat : p >= low => (Has(ih.elems, p) <=> \E i \in finished : In(p, i))
    BY DEF HashInv
  <2>6. QED BY <2>2, <2>4, <2>5 DEF CoversFinished
<1>2. QED BY <1>1, HashInvariant, PTL

\* IsCompleteOverlap knows a message above the confirmed position to be finished
\* exactly when it is.
THEOREM MapOverlapExact == HashSpec => []OverlapExact
<1>1. HashInv => OverlapExact
  <2> SUFFICES ASSUME HashInv, NEW i \in Messages, i[1] >= low
               PROVE  IsCompleteOverlap(ih, i[1], i[2]) <=> i \in finished
    BY DEF OverlapExact
  <2>1. /\ i[1] \in Cuts /\ i[2] \in Cuts /\ i[1] \in Nat /\ i[2] \in Nat /\ i[1] < i[2]
        /\ i = <<i[1], i[2]>>
    BY MessageFacts
  <2>2. ASSUME i \in finished PROVE IsCompleteOverlap(ih, i[1], i[2])
    <3>1. i[1] \in DOMAIN ih.historyMsg /\ ih.historyMsg[i[1]] = i[2]
      BY <2>2 DEF HashInv
    <3>2. QED BY <3>1, <2>1 DEF IsCompleteOverlap
  <2>3. ASSUME Has(ih.elems, i[1]) PROVE i \in finished
    <3>1. PICK j \in finished : In(i[1], j)
      BY <2>1, <2>3 DEF HashInv
    <3>2. In(i[1], i) /\ j \in Messages
      BY <2>1 DEF In, HashInv
    <3>3. i = j
      BY <2>1, <3>1, <3>2, MessagesApart
    <3>4. QED BY <3>3
  <2>4. ASSUME IsCompleteOverlap(ih, i[1], i[2]) PROVE i \in finished
    <3>1. \A k \in DOMAIN ih.elems : /\ ih.elems[k][1] \in Nat /\ ih.elems[k][2] \in Nat
                                     /\ k \in {ih.elems[k][1], ih.elems[k][2]}
                                     /\ ih.elems[k][1] < ih.elems[k][2]
      BY CutsAssumption, Zenon DEF HashInv, Shaped
    <3>2. CASE i[1] \in DOMAIN ih.elems /\ ih.elems[i[1]][2] >= i[2]
      BY <3>1, <3>2, <2>1, <2>3 DEF Has
    <3>3. CASE i[2] \in DOMAIN ih.elems /\ ih.elems[i[2]][1] <= i[1]
      BY <3>1, <3>3, <2>1, <2>3 DEF Has
    <3>4. CASE i[1] \in DOMAIN ih.historyMsg /\ ih.historyMsg[i[1]] >= i[2]
      <4> DEFINE j == <<i[1], ih.historyMsg[i[1]]>>
      <4>1. j \in finished /\ j \in Messages /\ j[1] = i[1]
        BY <3>4 DEF HashInv
      <4> HIDE DEF j
      <4>2. j[1] < j[2] /\ j[2] \in Nat
        BY <4>1, MessageFacts
      <4>3. In(i[1], i) /\ In(i[1], j)
        BY <2>1, <4>1, <4>2 DEF In
      <4>4. i = j
        BY <2>1, <4>1, <4>3, MessagesApart
      <4>5. QED BY <4>1, <4>4
    <3>5. QED BY <2>4, <3>2, <3>3, <3>4 DEF IsCompleteOverlap
  <2>5. QED BY <2>2, <2>4
<1>2. QED BY <1>1, HashInvariant, PTL
=============================================================================
