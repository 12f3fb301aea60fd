---------------------------- MODULE IntervalHash ----------------------------
(***************************************************************************)
(* The interval map a channel keeps its finished-but-not-yet-confirmed     *)
(* messages in (nsqd/segment_tree.go, type IntervalHash).                  *)
(*                                                                         *)
(* A value ih has two fields:                                              *)
(*   ih.elems       map from an offset to an interval <<start, end>> that  *)
(*                  starts or ends there: every interval is stored twice,  *)
(*                  under its start and under its end;                     *)
(*   ih.historyMsg  map from the start of every interval ever added to its *)
(*                  end, kept until DeleteLower removes it.                *)
(* Offsets are natural numbers.  The message count the code carries next   *)
(* to an end offset (EndCnt) is a function of that offset and is left out. *)
(***************************************************************************)
EXTENDS Integers, FiniteSets

EmptyMap == [k \in {} |-> <<0, 0>>]

NewIntervalHash == [elems |-> EmptyMap, historyMsg |-> [k \in {} |-> 0]]

\* delete(m, k) for every k in ks.
Without(map, ks) == [k \in DOMAIN map \ ks |-> map[k]]

\* m[start] = inter; m[end] = inter
Stored(map, inter) ==
    [k \in DOMAIN map \cup {inter[1], inter[2]} |->
        IF k \in {inter[1], inter[2]} THEN inter ELSE map[k]]

Lower(a, b) == IF a < b THEN a ELSE b
Higher(a, b) == IF a > b THEN a ELSE b
HullMutant(p, q) == <<Lower(p[1], q[1]), p[2]>>      \* the later end is forgotten
Hull(p, q) == <<Lower(p[1], q[1]), Higher(p[2], q[2])>>

\* One lookup of AddOrMerge: the interval stored under key k, if there is one,
\* is taken out of the map and joined with acc.
AbsorbedMutant(map, k) == IF k \in DOMAIN map THEN Without(map, {k}) ELSE map   \* one key stays
Absorbed(map, k) == IF k \in DOMAIN map THEN Without(map, {map[k][1], map[k][2]}) ELSE map
Joined(map, k, acc) == IF k \in DOMAIN map THEN Hull(acc, map[k]) ELSE acc

\* The merged interval AddOrMerge returns, and the map after it: the neighbour
\* is looked up under the start of the new interval first, then under the end
\* the first lookup may have extended.
MergedInterval(ih, s, e) ==
    LET first == Joined(ih.elems, s, <<s, e>>)
    IN  Joined(Absorbed(ih.elems, s), first[2], first)

AddOrMergeMutant(ih, s, e) ==      \* the neighbour above is not looked up
    [elems      |-> Stored(Absorbed(ih.elems, s), Joined(ih.elems, s, <<s, e>>)),
     historyMsg |-> [k \in DOMAIN ih.historyMsg \cup {s} |-> IF k = s THEN e ELSE ih.historyMsg[k]]]
AddOrMerge(ih, s, e) ==
    LET first == Joined(ih.elems, s, <<s, e>>)
        rest  == Absorbed(Absorbed(ih.elems, s), first[2])
    IN  [elems      |-> Stored(rest, MergedInterval(ih, s, e)),
         historyMsg |-> [k \in DOMAIN ih.historyMsg \cup {s} |->
                            IF k = s THEN e ELSE ih.historyMsg[k]]]

\* Len(): half the number of keys.
HashLen(ih) == Cardinality(DOMAIN ih.elems) \div 2

\* Remove inter if exactly this interval is stored.
DeleteInterval(ih, inter) ==
    IF inter[1] \in DOMAIN ih.elems /\ ih.elems[inter[1]] = inter
    THEN [ih EXCEPT !.elems = Without(ih.elems, {inter[1], inter[2]})]
    ELSE ih

\* Remove every interval, and every history entry, that ends at or below low.
DeleteLower(ih, low) ==
    LET dead == {k \in DOMAIN ih.elems : ih.elems[k][2] <= low}
    IN  [elems      |-> Without(ih.elems, dead \cup {ih.elems[k][1] : k \in dead}
                                               \cup {ih.elems[k][2] : k \in dead}),
         historyMsg |-> Without(ih.historyMsg,
                            {s \in DOMAIN ih.historyMsg : ih.historyMsg[s] <= low /\ s < low})]

\* Is [s, e) known to be finished?  Only the two neighbours and the history are
\* asked, not every stored interval.
IsCompleteOverlapMutant(ih, s, e) ==      \* the history is not asked
    \/ s \in DOMAIN ih.elems /\ ih.elems[s][2] >= e
    \/ e \in DOMAIN ih.elems /\ ih.elems[e][1] <= s
IsCompleteOverlap(ih, s, e) ==
    \/ s \in DOMAIN ih.elems /\ ih.elems[s][2] >= e
    \/ e \in DOMAIN ih.elems /\ ih.elems[e][1] <= s
    \/ s \in DOMAIN ih.historyMsg /\ ih.historyMsg[s] >= e

\* QueryExist with excludeBoard: some stored interval overlaps [s, e) in more
\* than a boundary point.
QueryExist(ih, s, e) ==
    \E k \in DOMAIN ih.elems : ih.elems[k][2] > s /\ ih.elems[k][1] < e

\* The shape of the map: the offsets come from the set P, an interval is not empty,
\* and the key it is stored under is one of its ends.
Shaped(map, P) ==
    \A k \in DOMAIN map :
        map[k] \in P \X P /\ map[k][1] < map[k][2] /\ k \in {map[k][1], map[k][2]}

\* What is stored under a key is stored under both its ends.
BothEnds(map) ==
    \A k \in DOMAIN map : LET i == map[k]
                          IN  /\ {i[1], i[2]} \subseteq DOMAIN map
                              /\ map[i[1]] = i /\ map[i[2]] = i

\* The offsets the stored intervals cover.
Covered(ih) ==
    UNION {ih.elems[k][1] .. (ih.elems[k][2] - 1) : k \in DOMAIN ih.elems}
=============================================================================
