------------------------- MODULE IntervalHashProofs -------------------------
(***************************************************************************)
(* What the interval map of nsqd/segment_tree.go computes: merging neither *)
(* covers an offset that was not finished nor breaks the shape of the map. *)
(***************************************************************************)
EXTENDS IntervalHash, TLAPS

\* Every offset the map's intervals cover is in S.
Within(map, S) ==
    \A k \in DOMAIN map : \A p \in Nat : map[k][1] <= p /\ p < map[k][2] => p \in S

\* One lookup of AddOrMerge: the interval stored under either end of acc is
\* adjacent to it or overlaps it, so joining the two covers nothing new.
LEMMA JoinedWithin ==
    ASSUME NEW P \in SUBSET Nat, NEW S, NEW map, Shaped(map, P), Within(map, S),
           NEW acc \in P \X P, acc[1] < acc[2],
           \A p \in Nat : acc[1] <= p /\ p < acc[2] => p \in S,
           NEW k \in {acc[1], acc[2]}
    PROVE  LET i == Joined(map, k, acc)
           IN  /\ i \in P \X P /\ i[1] <= acc[1] /\ acc[2] <= i[2]
               /\ \A p \in Nat : i[1] <= p /\ p < i[2] => p \in S
<1>1. CASE k \notin DOMAIN map
  <2>1. Joined(map, k, acc) = acc
    BY <1>1 DEF Joined
  <2>2. acc[1] \in Nat /\ acc[2] \in Nat
    BY Zenon
  <2>3. acc[1] <= acc[1] /\ acc[2] <= acc[2]
    BY <2>2
  <2>4. QED BY <2>1, <2>3
<1>2. CASE k \in DOMAIN map
  <2>1. /\ map[k] \in P \X P /\ map[k][1] < map[k][2] /\ k \in {map[k][1], map[k][2]}
        /\ \A p \in Nat : map[k][1] <= p /\ p < map[k][2] => p \in S
    BY <1>2 DEF Shaped, Within
  <2>2. Joined(map, k, acc) = <<Lower(acc[1], map[k][1]), Higher(acc[2], map[k][2])>>
    BY <1>2 DEF Joined, Hull
  <2>3. /\ acc[1] \in Nat /\ acc[2] \in Nat /\ map[k][1] \in Nat /\ map[k][2] \in Nat
        /\ acc[1] \in P /\ acc[2] \in P /\ map[k][1] \in P /\ map[k][2] \in P
    BY <2>1, Zenon
  <2>4. Lower(acc[1], map[k][1]) \in P /\ Higher(acc[2], map[k][2]) \in P
    BY <2>3 DEF Lower, Higher
  <2>5. Lower(acc[1], map[k][1]) <= acc[1] /\ acc[2] <= Higher(acc[2], map[k][2])
    BY <2>3 DEF Lower, Higher
  <2>6. ASSUME NEW p \in Nat, Lower(acc[1], map[k][1]) <= p, p < Higher(acc[2], map[k][2])
        PROVE  p \in S
    <3>1. (acc[1] <= p /\ p < acc[2]) \/ (map[k][1] <= p /\ p < map[k][2])
      BY <2>1, <2>3, <2>6 DEF Lower, Higher
    <3>2. QED BY <3>1, <2>1
  <2>7. QED BY <2>2, <2>4, <2>5, <2>6
<1>3. QED BY <1>1, <1>2

\* Absorbed only removes keys.
LEMMA AbsorbedShrinks ==
    ASSUME NEW map, NEW k
    PROVE  /\ DOMAIN Absorbed(map, k) \subseteq DOMAIN map
           /\ \A j \in DOMAIN Absorbed(map, k) : Absorbed(map, k)[j] = map[j]
BY DEF Absorbed, Without

\* Removing keys from a shaped map leaves it shaped and covers nothing new.
LEMMA ShrunkMap ==
    ASSUME NEW P, NEW S, NEW map, NEW small, Shaped(map, P), Within(map, S),
           DOMAIN small \subseteq DOMAIN map, \A j \in DOMAIN small : small[j] = map[j]
    PROVE  Shaped(small, P) /\ Within(small, S)
BY DEF Shaped, Within

\* AddOrMerge([s, e)): the merged interval contains [s, e), and neither it nor the
\* new map covers an offset outside S, if S has [s, e) and what was covered before.
THEOREM MergedWithin ==
    ASSUME NEW P \in SUBSET Nat, NEW S, NEW ih, Shaped(ih.elems, P), Within(ih.elems, S),
           NEW s \in P, NEW e \in P, s < e, \A p \in Nat : s <= p /\ p < e => p \in S
    PROVE  LET i == MergedInterval(ih, s, e)
           IN  /\ i \in P \X P /\ i[1] <= s /\ e <= i[2] /\ i[1] < i[2]
               /\ \A p \in Nat : i[1] <= p /\ p < i[2] => p \in S
<1> DEFINE first == Joined(ih.elems, s, <<s, e>>)
           rest  == Absorbed(ih.elems, s)
<1>1. /\ first \in P \X P /\ first[1] <= s /\ e <= first[2]
      /\ \A p \in Nat : first[1] <= p /\ p < first[2] => p \in S
  <2>1. <<s, e>> \in P \X P /\ <<s, e>>[1] = s /\ <<s, e>>[2] = e
    OBVIOUS
  <2>2. QED BY <2>1, JoinedWithin
<1>2. Shaped(rest, P) /\ Within(rest, S)
  BY AbsorbedShrinks, ShrunkMap
<1> HIDE DEF first, rest
<1>3. first[1] \in Nat /\ first[2] \in Nat /\ first[1] < first[2] /\ first[2] \in {first[1], first[2]}
  <2>1. first[1] \in Nat /\ first[2] \in Nat /\ s \in Nat /\ e \in Nat
    BY <1>1, Zenon
  <2>2. QED BY <2>1, <1>1
<1>4. LET i == Joined(rest, first[2], first)
      IN  /\ i \in P \X P /\ i[1] <= first[1] /\ first[2] <= i[2]
          /\ \A p \in Nat : i[1] <= p /\ p < i[2] => p \in S
  BY <1>1, <1>2, <1>3, JoinedWithin
<1>5. MergedInterval(ih, s, e) = Joined(rest, first[2], first)
  BY DEF MergedInterval, first, rest
<1> DEFINE i == Joined(rest, first[2], first)
<1>6. /\ i \in P \X P /\ i[1] <= first[1] /\ first[2] <= i[2]
      /\ \A p \in Nat : i[1] <= p /\ p < i[2] => p \in S
  BY <1>4
<1> HIDE DEF i
<1>7. i[1] \in Nat /\ i[2] \in Nat /\ s \in Nat /\ e \in Nat
  BY <1>6, Zenon
<1>8. i[1] <= s /\ e <= i[2] /\ i[1] < i[2]
  BY <1>1, <1>3, <1>6, <1>7
<1>9. QED BY <1>5, <1>6, <1>8 DEF i

\* AddOrMerge: the new map covers nothing outside S, if S has the added interval
\* and what the map covered before.
THEOREM AddOrMergeWithin ==
    ASSUME NEW P \in SUBSET Nat, NEW S, NEW ih, Shaped(ih.elems, P), Within(ih.elems, S),
           NEW s \in P, NEW e \in P, s < e, \A p \in Nat : s <= p /\ p < e => p \in S
    PROVE  Shaped(AddOrMerge(ih, s, e).elems, P) /\ Within(AddOrMerge(ih, s, e).elems, S)
<1> DEFINE first == Joined(ih.elems, s, <<s, e>>)
           rest  == Absorbed(Absorbed(ih.elems, s), first[2])
           i     == MergedInterval(ih, s, e)
<1>1. /\ i \in P \X P /\ i[1] < i[2]
      /\ \A p \in Nat : i[1] <= p /\ p < i[2] => p \in S
  BY MergedWithin
<1>2. Shaped(rest, P) /\ Within(rest, S)
  <2>1. Shaped(Absorbed(ih.elems, s), P) /\ Within(Absorbed(ih.elems, s), S)
    BY AbsorbedShrinks, ShrunkMap
  <2>2. QED BY <2>1, AbsorbedShrinks, ShrunkMap
<1>3. AddOrMerge(ih, s, e).elems = Stored(rest, i)
  BY DEF AddOrMerge
<1> HIDE DEF rest, i
<1>4. Shaped(Stored(rest, i), P)
  BY <1>1, <1>2 DEF Stored, Shaped
<1>5. Within(Stored(rest, i), S)
  BY <1>1, <1>2 DEF Stored, Within
<1>6. QED BY <1>3, <1>4, <1>5

-----------------------------------------------------------------------------
(* Both ends of every interval are stored, and merging forgets nothing.    *)

\* Some stored interval has p.
Has(map, p) == \E k \in DOMAIN map : map[k][1] <= p /\ p < map[k][2]

\* Taking an interval out under both its ends leaves the others whole: two
\* intervals never share an end.
LEMMA RemovedBoth ==
    ASSUME NEW P, NEW map, Shaped(map, P), BothEnds(map), NEW k \in DOMAIN map
    PROVE  LET rest == Absorbed(map, k)
           IN  Shaped(rest, P) /\ BothEnds(rest)
<1> DEFINE rest == Absorbed(map, k)
<1>1. /\ DOMAIN rest = DOMAIN map \ {map[k][1], map[k][2]}
      /\ \A j \in DOMAIN rest : rest[j] = map[j]
  BY DEF Absorbed, Without
<1> HIDE DEF rest
<1>2. Shaped(rest, P)
  BY <1>1 DEF Shaped
<1>3. ASSUME NEW j \in DOMAIN rest
      PROVE  /\ {rest[j][1], rest[j][2]} \subseteq DOMAIN rest
             /\ rest[rest[j][1]] = rest[j] /\ rest[rest[j][2]] = rest[j]
  <2>1. j \in DOMAIN map /\ rest[j] = map[j] /\ j \notin {map[k][1], map[k][2]}
    BY <1>1
  <2>2. /\ map[j][1] \in DOMAIN map /\ map[j][2] \in DOMAIN map
        /\ map[map[j][1]] = map[j] /\ map[map[j][2]] = map[j]
        /\ map[map[k][1]] = map[k] /\ map[map[k][2]] = map[k]
    BY <2>1 DEF BothEnds
  <2>3. j \in {map[j][1], map[j][2]}
    BY <2>1 DEF Shaped
  <2>4. map[j] # map[k]
    BY <2>1, <2>3
  <2>5. map[j][1] \notin {map[k][1], map[k][2]} /\ map[j][2] \notin {map[k][1], map[k][2]}
    BY <2>2, <2>4
  <2>6. QED BY <1>1, <2>1, <2>2, <2>5
<1>4. BothEnds(rest)
  BY <1>3 DEF BothEnds
<1>5. QED BY <1>2, <1>4 DEF rest

\* One lookup of AddOrMerge: nothing is left under the key, and what was covered
\* is in the joined interval or still in the map.
LEMMA AbsorbedBoth ==
    ASSUME NEW P \in SUBSET Nat, NEW map, Shaped(map, P), BothEnds(map),
           NEW acc \in P \X P, acc[1] < acc[2], NEW k
    PROVE  LET i == Joined(map, k, acc)
               rest == Absorbed(map, k)
           IN  /\ Shaped(rest, P) /\ BothEnds(rest)
               /\ k \notin DOMAIN rest /\ DOMAIN rest \subseteq DOMAIN map
               /\ i \in P \X P /\ i[1] <= acc[1] /\ acc[2] <= i[2]
               /\ i[1] = acc[1] \/ i[1] \notin DOMAIN rest
               /\ i[2] = acc[2] \/ i[2] \notin DOMAIN rest
               /\ \A p \in Nat : Has(map, p) => Has(rest, p) \/ (i[1] <= p /\ p < i[2])
<1> DEFINE i == Joined(map, k, acc)
           rest == Absorbed(map, k)
<1>1. acc[1] \in Nat /\ acc[2] \in Nat /\ acc[1] \in P /\ acc[2] \in P
  BY Zenon
<1>2. CASE k \notin DOMAIN map
  <2>1. i = acc /\ rest = map
    BY <1>2 DEF Joined, Absorbed
  <2>2. QED BY <1>1, <1>2, <2>1
<1>3. CASE k \in DOMAIN map
  <2>1. /\ map[k] \in P \X P /\ map[k][1] < map[k][2] /\ k \in {map[k][1], map[k][2]}
        /\ map[k][1] \in Nat /\ map[k][2] \in Nat /\ map[k][1] \in P /\ map[k][2] \in P
    BY <1>3, Zenon DEF Shaped
  <2>2. i = <<Lower(acc[1], map[k][1]), Higher(acc[2], map[k][2])>>
    BY <1>3 DEF Joined, Hull
  <2>4. /\ Shaped(rest, P) /\ BothEnds(rest)
        /\ DOMAIN rest = DOMAIN map \ {map[k][1], map[k][2]}
        /\ \A j \in DOMAIN rest : rest[j] = map[j]
    <3>1. Shaped(rest, P) /\ BothEnds(rest)
      BY <1>3, RemovedBoth
    <3>2. QED BY <1>3, <3>1 DEF Absorbed, Without
  <2> HIDE DEF i, rest
  <2>5. /\ i \in P \X P /\ i[1] <= acc[1] /\ acc[2] <= i[2]
        /\ i[1] <= map[k][1] /\ map[k][2] <= i[2]
        /\ i[1] \in {acc[1], map[k][1]} /\ i[2] \in {acc[2], map[k][2]}
    BY <1>1, <2>1, <2>2 DEF Lower, Higher
  <2>6. ASSUME NEW p \in Nat, Has(map, p)
        PROVE  Has(rest, p) \/ (i[1] <= p /\ p < i[2])
    <3>1. PICK j \in DOMAIN map : map[j][1] <= p /\ p < map[j][2]
      BY <2>6 DEF Has
    <3>2. CASE j \in DOMAIN rest
      BY <3>1, <3>2, <2>4 DEF Has
    <3>3. CASE j \notin DOMAIN rest
      <4>1. map[j] = map[k]
        BY <3>3, <2>4, <1>3, Zenon DEF BothEnds
      <4>2. i[1] \in Nat /\ i[2] \in Nat
        BY <2>5
      <4>3. QED BY <4>1, <4>2, <3>1, <2>1, <2>5
    <3>4. QED BY <3>2, <3>3
  <2>7. QED BY <2>1, <2>4, <2>5, <2>6 DEF i, rest
<1>4. QED BY <1>2, <1>3

\* AddOrMerge stores its interval under both ends, leaves every other interval
\* whole and covers the added interval and all that was covered before.
THEOREM AddOrMergeBoth ==
    ASSUME NEW P \in SUBSET Nat, NEW ih, Shaped(ih.elems, P), BothEnds(ih.elems),
           NEW s \in P, NEW e \in P, s < e
    PROVE  LET added == AddOrMerge(ih, s, e).elems
               i == MergedInterval(ih, s, e)
           IN  /\ Shaped(added, P) /\ BothEnds(added)
               /\ i[1] \in DOMAIN added /\ added[i[1]] = i
               /\ i \in P \X P /\ i[1] <= s /\ e <= i[2]
               /\ \A p \in Nat : Has(ih.elems, p) \/ (s <= p /\ p < e) => Has(added, p)
<1> DEFINE acc == <<s, e>>
           first == Joined(ih.elems, s, acc)
           one  == Absorbed(ih.elems, s)
           i == Joined(one, first[2], first)
           two  == Absorbed(one, first[2])
           added == Stored(two, i)
<1>1. /\ acc \in P \X P /\ acc[1] < acc[2] /\ acc[1] = s /\ acc[2] = e /\ s \in Nat /\ e \in Nat
  OBVIOUS
<1>2. /\ Shaped(one, P) /\ BothEnds(one) /\ s \notin DOMAIN one
      /\ first \in P \X P /\ first[1] <= s /\ e <= first[2]
      /\ first[1] = s \/ first[1] \notin DOMAIN one
      /\ first[2] = e \/ first[2] \notin DOMAIN one
      /\ \A p \in Nat : Has(ih.elems, p) => Has(one, p) \/ (first[1] <= p /\ p < first[2])
  <2> HIDE DEF acc
  <2>1. QED BY <1>1, AbsorbedBoth, Zenon
<1> HIDE DEF one, first
<1>3. first[1] \in Nat /\ first[2] \in Nat /\ first[1] < first[2]
  <2>1. first[1] \in Nat /\ first[2] \in Nat
    BY <1>2, Zenon
  <2>2. QED BY <1>1, <1>2, <2>1
<1>4. /\ Shaped(two, P) /\ BothEnds(two)
      /\ first[2] \notin DOMAIN two /\ DOMAIN two \subseteq DOMAIN one
      /\ i \in P \X P /\ i[1] <= first[1] /\ first[2] <= i[2]
      /\ i[1] = first[1] \/ i[1] \notin DOMAIN two
      /\ i[2] = first[2] \/ i[2] \notin DOMAIN two
      /\ \A p \in Nat : Has(one, p) => Has(two, p) \/ (i[1] <= p /\ p < i[2])
  BY <1>2, <1>3, AbsorbedBoth, Zenon
<1> HIDE DEF two, i
<1>5. i[1] \notin DOMAIN two /\ i[2] \notin DOMAIN two
  BY <1>2, <1>4
<1>6. /\ i[1] \in Nat /\ i[2] \in Nat /\ i[1] \in P /\ i[2] \in P
      /\ i[1] <= s /\ e <= i[2] /\ i[1] < i[2]
  <2>1. i[1] \in Nat /\ i[2] \in Nat /\ i[1] \in P /\ i[2] \in P
    BY <1>4, Zenon
  <2>2. QED BY <2>1, <1>1, <1>2, <1>3, <1>4
<1>7. /\ DOMAIN added = DOMAIN two \cup {i[1], i[2]}
      /\ added[i[1]] = i /\ added[i[2]] = i
      /\ \A j \in DOMAIN two : added[j] = two[j]
  BY <1>5 DEF Stored
<1> HIDE DEF added
<1>8. Shaped(added, P)
  BY <1>4, <1>6, <1>7 DEF Shaped
<1>9. BothEnds(added)
  <2>1. /\ {i[1], i[2]} \subseteq DOMAIN added
        /\ \A j \in {i[1], i[2]} : added[j] = i
    BY <1>7
  <2>2. \A j \in DOMAIN two : /\ {two[j][1], two[j][2]} \subseteq DOMAIN two
                             /\ two[two[j][1]] = two[j] /\ two[two[j][2]] = two[j]
    BY <1>4 DEF BothEnds
  <2>3. \A j \in DOMAIN two : /\ {added[j][1], added[j][2]} \subseteq DOMAIN added
                             /\ added[added[j][1]] = added[j] /\ added[added[j][2]] = added[j]
    <3> TAKE j \in DOMAIN two
    <3>1. added[j] = two[j] /\ two[j][1] \in DOMAIN two /\ two[j][2] \in DOMAIN two
      BY <2>2, <1>7
    <3>2. added[two[j][1]] = two[j] /\ added[two[j][2]] = two[j]
      BY <3>1, <2>2, <1>7, Zenon
    <3>3. QED BY <3>1, <3>2, <1>7
  <2>4. QED BY <2>1, <2>3, <1>7, Zenon DEF BothEnds
<1>10. ASSUME NEW p \in Nat, Has(ih.elems, p) \/ (s <= p /\ p < e)
       PROVE  Has(added, p)
  <2>1. CASE i[1] <= p /\ p < i[2]
    BY <2>1, <1>7 DEF Has
  <2>2. CASE Has(two, p)
    BY <2>2, <1>7 DEF Has
  <2>3. (first[1] <= p /\ p < first[2]) \/ Has(one, p)
    BY <1>10, <1>1, <1>2, <1>3
  <2>4. (first[1] <= p /\ p < first[2]) => (i[1] <= p /\ p < i[2])
    BY <1>3, <1>4, <1>6
  <2>5. QED BY <2>1, <2>2, <2>3, <2>4, <1>4
<1>11. AddOrMerge(ih, s, e).elems = added /\ MergedInterval(ih, s, e) = i
  BY DEF AddOrMerge, MergedInterval, added, i, two, one, first
<1>12. QED BY <1>4, <1>6, <1>7, <1>8, <1>9, <1>10, <1>11

\* DeleteInterval of a stored interval leaves the others whole, and forgets no
\* offset outside it.
LEMMA DeleteIntervalBoth ==
    ASSUME NEW P \in SUBSET Nat, NEW ih, Shaped(ih.elems, P), BothEnds(ih.elems),
           "elems" \in DOMAIN ih, NEW k \in DOMAIN ih.elems
    PROVE  LET rest == DeleteInterval(ih, ih.elems[k]).elems
           IN  /\ Shaped(rest, P) /\ BothEnds(rest)
               /\ \A p \in Nat : Has(rest, p) => Has(ih.elems, p)
               /\ \A p \in Nat : Has(ih.elems, p) => \/ Has(rest, p)
                                                     \/ ih.elems[k][1] <= p /\ p < ih.elems[k][2]
<1> DEFINE map == ih.elems
           i == map[k]
           rest == Absorbed(map, k)
<1>1. i[1] \in DOMAIN map /\ map[i[1]] = i /\ i[2] \in DOMAIN map /\ map[i[2]] = i
  BY DEF BothEnds
<1>2. Shaped(rest, P) /\ BothEnds(rest)
  BY RemovedBoth
<1>3. DeleteInterval(ih, i).elems = rest
  <2>1. DeleteInterval(ih, i) = [ih EXCEPT !.elems = Without(map, {i[1], i[2]})]
    BY <1>1 DEF DeleteInterval
  <2>2. Without(map, {i[1], i[2]}) = rest
    BY DEF Absorbed
  <2>3. QED BY <2>1, <2>2
<1>4. DOMAIN rest = DOMAIN map \ {i[1], i[2]} /\ \A j \in DOMAIN rest : rest[j] = map[j]
  BY DEF Absorbed, Without
<1> HIDE DEF map, i, rest
<1>5. \A p \in Nat : Has(rest, p) => Has(map, p)
  BY <1>4 DEF Has
<1>6. ASSUME NEW p \in Nat, Has(map, p)
      PROVE  Has(rest, p) \/ (i[1] <= p /\ p < i[2])
  <2>1. PICK j \in DOMAIN map : map[j][1] <= p /\ p < map[j][2]
    BY <1>6 DEF Has
  <2>2. j \in DOMAIN rest \/ map[j] = i
    BY <1>1, <1>4
  <2>3. QED BY <2>1, <2>2, <1>4 DEF Has
<1>7. QED BY <1>2, <1>3, <1>5, <1>6 DEF map, i

\* DeleteLower leaves whole what it keeps, and forgets no offset from low on.
LEMMA DeleteLowerBoth ==
    ASSUME NEW P \in SUBSET Nat, NEW ih, Shaped(ih.elems, P), BothEnds(ih.elems), NEW low \in Nat
    PROVE  LET rest == DeleteLower(ih, low).elems
           IN  /\ Shaped(rest, P) /\ BothEnds(rest)
               /\ \A p \in Nat : Has(rest, p) => Has(ih.elems, p)
               /\ \A p \in Nat : p >= low /\ Has(ih.elems, p) => Has(rest, p)
<1> DEFINE map == ih.elems
           dead == {k \in DOMAIN map : map[k][2] <= low}
           rest == DeleteLower(ih, low).elems
<1>1. rest = Without(map, dead \cup {map[k][1] : k \in dead} \cup {map[k][2] : k \in dead})
  BY Zenon DEF DeleteLower
<1>2. /\ DOMAIN rest = DOMAIN map \ (dead \cup {map[k][1] : k \in dead} \cup {map[k][2] : k \in dead})
      /\ \A j \in DOMAIN rest : rest[j] = map[j]
  BY <1>1 DEF Without
<1> HIDE DEF rest
<1>3. \A k \in DOMAIN map : /\ map[k][1] \in DOMAIN map /\ map[map[k][1]] = map[k]
                            /\ map[k][2] \in DOMAIN map /\ map[map[k][2]] = map[k]
                            /\ map[k] \in P \X P /\ map[k][1] \in Nat /\ map[k][2] \in Nat
  BY Zenon DEF BothEnds, Shaped
<1> HIDE DEF map
<1>4. DOMAIN rest = {k \in DOMAIN map : ~(map[k][2] <= low)}
  BY <1>2, <1>3, Zenon
<1>5. Shaped(map, P)
  BY DEF map
<1>6. Shaped(rest, P)
  BY <1>2, <1>4, <1>5 DEF Shaped
<1>7. BothEnds(rest)
  <2> SUFFICES ASSUME NEW k \in DOMAIN rest
               PROVE  /\ {rest[k][1], rest[k][2]} \subseteq DOMAIN rest
                      /\ rest[rest[k][1]] = rest[k] /\ rest[rest[k][2]] = rest[k]
    BY DEF BothEnds
  <2>1. k \in DOMAIN map /\ rest[k] = map[k] /\ ~(map[k][2] <= low)
    BY <1>2, <1>4
  <2>2. map[k][1] \in DOMAIN rest /\ map[k][2] \in DOMAIN rest
    BY <2>1, <1>3, <1>4
  <2>3. rest[map[k][1]] = map[k] /\ rest[map[k][2]] = map[k]
    BY <2>1, <2>2, <1>2, <1>3, Zenon
  <2>4. QED BY <2>1, <2>2, <2>3
<1>8. \A p \in Nat : Has(rest, p) => Has(map, p)
  BY <1>2, <1>4 DEF Has
<1>9. \A p \in Nat : p >= low /\ Has(map, p) => Has(rest, p)
  <2> SUFFICES ASSUME NEW p \in Nat, p >= low, NEW k \in DOMAIN map, map[k][1] <= p, p < map[k][2]
               PROVE  Has(rest, p)
    BY Zenon DEF Has
  <2>1. map[k][2] \in Nat
    BY <1>3, Zenon
  <2>2. ~(map[k][2] <= low)
    BY <2>1
  <2>3. k \in DOMAIN rest /\ rest[k] = map[k]
    BY <1>2, <1>4, <2>2, Zenon
  <2>4. QED BY <2>3, Zenon DEF Has
<1>10. QED BY <1>6, <1>7, <1>8, <1>9 DEF rest, map
=============================================================================
