-------------------------- MODULE DelayQueueProofs --------------------------
(***************************************************************************)
(* The delayed queue loses nothing and counts right, and its replica only  *)
(* deletes what was consumed, for any number of messages, copies, faults   *)
(* and calls of the operator.                                              *)
(***************************************************************************)
EXTENDS DelayQueue, FiniteSetTheorems, SequenceTheorems, TLAPS

\* The store of the leader has under each key the copy of that key, put by a requeue;
\* what is indexed has a copy.
StoreInv ==
    /\ \A c \in Copies : leader.val[c] \in {Absent, c} /\ (c >= next => leader.val[c] = Absent)
    /\ \A c \in Copies : c < next => orig[c] \in Msgs
    /\ \A m \in leader.index : \E c \in Stored(leader) : orig[c] = m

Begun == {n \in Msgs : req[n].at = "begun"}

\* There is an id for every requeue that has begun.  A requeue under way is not due, and
\* once it has put its copy that is in the store until the operator empties it.
RequestInv ==
    /\ next + Cardinality(Begun) <= MaxCopies + 1
    /\ \A m \in Msgs : req[m].at # "idle" => req[m].ts > now
    /\ \A m \in Msgs : req[m].at \in {"written", "synced"} =>
          /\ req[m].copy \in Copies /\ req[m].copy < next
          /\ orig[req[m].copy] = m /\ ts[req[m].copy] = req[m].ts
          /\ m \in emptied \/ leader.val[req[m].copy] # Absent

\* The replica lacks the message that is being written, and nothing but one is.
QueueInv ==
    /\ \A i \in 1 .. Len(queue) : queue[i] < next
    /\ \A m \in Msgs : req[m].at = "written" =>
          received < Len(queue) /\ \A n \in Msgs : req[n].at = "written" => n = m

\* What is delivered is due, and goes under the id of its original.
DueCopy(c) == c < next /\ ts[c] <= now

HeldInv ==
    /\ \A i \in travelling : i.copy # Original => i.at # "delayed" /\ DueCopy(i.copy) /\ orig[i.copy] = i.msg
    /\ \A m \in Msgs : inFlight[m] \in Copies => DueCopy(inFlight[m]) /\ orig[inFlight[m]] = m
    /\ \A c \in scan.found : DueCopy(c)

Kept(m) == m \in finished \cup emptied \/ \E c \in Stored(leader) : orig[c] = m

KeptInv ==
    /\ \A m \in confirmed : Kept(m)
    /\ \A i \in travelling : i.at = "delayed" => Kept(i.msg)

\* The report names no copy that was in the store while it was made.
UpdateInv ==
    /\ \A c \in update.held : c < next
    /\ update.at # "idle" /\ update.cnt = 0 => update.held = {}
    /\ update.at = "sent" =>
          IF update.key = Absent THEN update.held = {}
          ELSE update.key < next /\ \A c \in update.held : ~EarlierKey(c, ts[update.key], update.key)

\* As long as the channel is not reset a message is in one place, and is marked as
\* waiting once it has a copy.
Fresh(m) == req[m].at = "idle" /\ \A c \in Copies : c < next => orig[c] # m

OnePlace ==
    /\ \A i, j \in travelling : i.msg = j.msg => i = j
    /\ \A i \in travelling : inFlight[i.msg] = Absent /\ i.msg \notin unread
    /\ \A i \in travelling : i.msg \in waitingRequeueChanMsgs \/ (i.copy = Original /\ Fresh(i.msg))
    /\ \A m \in unread : inFlight[m] = Absent /\ Fresh(m)

PlaceInv == undisturbed => OnePlace /\ deferredFromDelay = Cardinality(Held \cap Copies) /\ drain = "idle"

DelayInv ==
    /\ TypeOK /\ StoreInv /\ RequestInv /\ QueueInv /\ HeldInv /\ KeptInv /\ UpdateInv /\ PlaceInv /\ CountCovers

-----------------------------------------------------------------------------
(* Counting.                                                               *)

\* Sets of copies are finite, and the number of elements behaves as it should.
LEMMA Counts ==
    /\ IsFiniteSet({}) /\ Cardinality({}) = 0
    /\ \A S \in SUBSET Copies : IsFiniteSet(S) /\ Cardinality(S) \in Nat /\ (Cardinality(S) = 0 <=> S = {})
    /\ \A S, T \in SUBSET Copies : Cardinality(S \ T) = Cardinality(S) - Cardinality(S \cap T)
    /\ \A S, T \in SUBSET Copies : S \subseteq T => Cardinality(S) <= Cardinality(T)
    /\ \A S \in SUBSET Copies : \A c \in Copies :
          Cardinality(S \cup {c}) = IF c \in S THEN Cardinality(S) ELSE Cardinality(S) + 1
    /\ \A S \in SUBSET Copies : \A c \in Copies :
          Cardinality(S \ {c}) = IF c \in S THEN Cardinality(S) - 1 ELSE Cardinality(S)
    /\ \A S, T \in SUBSET Copies : Cardinality(S \cup T) = Cardinality(S) + Cardinality(T \ S)
<1>1. IsFiniteSet(Copies)
  BY DelayQueueAssumption, FS_Interval DEF Copies
<1>2. \A S \in SUBSET Copies : IsFiniteSet(S)
  BY <1>1, FS_Subset, Zenon
<1>3. \A S \in SUBSET Copies : Cardinality(S) \in Nat /\ (Cardinality(S) = 0 <=> S = {})
  BY <1>2, FS_CardinalityType, FS_EmptySet, Zenon
<1>4. \A S, T \in SUBSET Copies : Cardinality(S \ T) = Cardinality(S) - Cardinality(S \cap T)
  BY <1>2, FS_Difference, Zenon
<1>5. \A S, T \in SUBSET Copies : S \subseteq T => Cardinality(S) <= Cardinality(T)
  BY <1>2, FS_Subset, Zenon
<1>6. \A S \in SUBSET Copies : \A c \in Copies :
          Cardinality(S \cup {c}) = IF c \in S THEN Cardinality(S) ELSE Cardinality(S) + 1
  BY <1>2, FS_AddElement, Zenon
<1>7. \A S \in SUBSET Copies : \A c \in Copies :
          Cardinality(S \ {c}) = IF c \in S THEN Cardinality(S) - 1 ELSE Cardinality(S)
  BY <1>2, FS_RemoveElement, Zenon
<1>8. ASSUME NEW S \in SUBSET Copies, NEW T \in SUBSET Copies
      PROVE  Cardinality(S \cup T) = Cardinality(S) + Cardinality(T \ S)
  <2>1. Cardinality(S \cup T) = Cardinality(S) + Cardinality(T) - Cardinality(S \cap T)
    BY <1>2, FS_Union, Zenon
  <2>2. Cardinality(T \ S) = Cardinality(T) - Cardinality(T \cap S)
    BY <1>4, Zenon
  <2>3. S \cap T = T \cap S
    OBVIOUS
  <2>4. Cardinality(S) \in Nat /\ Cardinality(T) \in Nat /\ S \cap T \in SUBSET Copies
    BY <1>3
  <2>5. Cardinality(S \cap T) \in Nat
    BY <1>3, <2>4, Zenon
  <2>6. QED
    BY <2>1, <2>2, <2>3, <2>4, <2>5, Zenon
<1>9. QED
  BY <1>2, <1>3, <1>4, <1>5, <1>6, <1>7, <1>8, FS_EmptySet, Zenon

\* A set of naturals has a smallest element.
LEMMA Smallest ==
    ASSUME NEW T \in SUBSET Nat, T # {}
    PROVE  \E x \in T : \A y \in T : x <= y
<1> DEFINE R == OpToRel(<, Nat)
<1>1. \E x \in T : \A y \in T : ~ (<<y, x>> \in R)
  <2> HIDE DEF R
  <2>1. IsWellFoundedOn(R, Nat)
    BY NatLessThanWellFounded, Zenon DEF R
  <2>2. QED
    BY <2>1, WFMin, Zenon
<1>2. PICK x \in T : \A y \in T : ~ (<<y, x>> \in R)
  BY <1>1, Zenon
<1>3. \A y \in T : x <= y
  <2>1. ASSUME NEW y \in T, y < x
        PROVE  <<y, x>> \in R
    BY <2>1, Zenon DEF OpToRel
  <2>2. ASSUME NEW y \in T
        PROVE  x <= y
    <3>1. ~(y < x)
      <4> HIDE DEF R
      <4> QED BY <1>2, <2>1, Zenon
    <3>2. x \in Nat /\ y \in Nat
      OBVIOUS
    <3>3. QED
      BY <3>1, <3>2
  <2>3. QED
    BY <2>2, Zenon
<1>4. QED
  BY <1>3

\* The first key of a set: the cursor of the kv store stands on it after a seek.
LEMMA LeastIsFirst ==
    ASSUME ts \in [Copies -> Nat], NEW C \in SUBSET Copies, C # {}
    PROVE  /\ Least(C) \in C
           /\ \A d \in C \ {Least(C)} : EarlierKey(Least(C), ts[d], d)
<1> DEFINE First(c) == c \in C /\ \A d \in C \ {c} : EarlierKey(c, ts[d], d)
<1>1. \E c \in C : \A d \in C \ {c} : EarlierKey(c, ts[d], d)
  <2> DEFINE T == {ts[c] : c \in C}
  <2>1. T \in SUBSET Nat /\ T # {}
    OBVIOUS
  <2>2. PICK t \in T : \A y \in T : t <= y
    <3> HIDE DEF T
    <3> QED BY <2>1, Smallest, Zenon
  <2> DEFINE E == {c \in C : ts[c] = t}
  <2>3. E \in SUBSET Nat /\ E # {}
    <3>1. PICK c \in C : ts[c] = t
      OBVIOUS
    <3>2. C \in SUBSET Nat
      BY DelayQueueAssumption DEF Copies
    <3>3. E \in SUBSET Nat
      BY <3>2, Zenon
    <3>4. c \in E
      BY <3>1, Zenon
    <3>5. QED
      BY <3>3, <3>4, Zenon
  <2>4. PICK c \in E : \A y \in E : c <= y
    <3> HIDE DEF E
    <3> QED BY <2>3, Smallest, Zenon
  <2>5. ASSUME NEW d \in C \ {c}
        PROVE  EarlierKey(c, ts[d], d)
    BY <2>2, <2>4, SMTT(60) DEF EarlierKey, Copies
  <2>6. QED
    BY <2>4, <2>5, Zenon
<1>2. QED
  BY <1>1, Zenon DEF Least

-----------------------------------------------------------------------------
(* The kv store.                                                           *)

\* t is s without the keys D, and counts at least what it has.
Without(s, t, D) ==
    /\ t \in Store
    /\ t.val = [c \in Copies |-> IF c \in D THEN Absent ELSE s.val[c]]
    /\ t.index \subseteq s.index
    /\ t.cnt >= Cardinality(Stored(t))

\* On the leader the count is exact and the deleted copies are no longer indexed.
Exact(s, t, D) ==
    /\ Without(s, t, D)
    /\ t.cnt = Cardinality(Stored(t))
    /\ \A m \in t.index : \A c \in D \cap Stored(s) : orig[c] # m

LEMMA StoredCopies ==
    ASSUME NEW s
    PROVE  Stored(s) \in SUBSET Copies
BY DEF Stored

LEMMA WithoutStored ==
    ASSUME NEW s, NEW t, NEW D \in SUBSET Copies, t.val = [c \in Copies |-> IF c \in D THEN Absent ELSE s.val[c]]
    PROVE  Stored(t) = Stored(s) \ D
BY DEF Stored

LEMMA DeleteWithout ==
    ASSUME NEW s \in Store, s.cnt >= Cardinality(Stored(s)), NEW D \in SUBSET Copies
    PROVE  Without(s, Delete(s, D), D)
<1> DEFINE decoded == {c \in D \cap Stored(s) : s.val[c] # Empty}
           t == Delete(s, D)
<1>1. decoded \in SUBSET Copies /\ decoded \subseteq Stored(s) \cap D /\ Stored(s) \cap D \in SUBSET Copies
  BY StoredCopies
<1>2. /\ t.val = [c \in Copies |-> IF c \in D THEN Absent ELSE s.val[c]]
      /\ t.index = s.index \ {orig[s.val[c]] : c \in decoded}
      /\ t.cnt = IF s.cnt > Cardinality(decoded) THEN s.cnt - Cardinality(decoded) ELSE 0
  BY DEF Delete, Store
<1> HIDE DEF decoded
<1>3. Cardinality(decoded) \in Nat /\ Cardinality(Stored(s)) \in Nat /\ Cardinality(Stored(s) \cap D) \in Nat
  BY <1>1, Counts, StoredCopies, Zenon
<1>4. s.cnt \in Nat /\ s.index \in SUBSET Msgs /\ s.val \in [Copies -> {Absent, Empty} \cup Copies]
  BY DEF Store
<1>5. t.cnt \in Nat
  BY <1>2, <1>3, <1>4
<1>6. t.val \in [Copies -> {Absent, Empty} \cup Copies]
  BY <1>2, <1>4, Zenon
<1>7. t.index \in SUBSET Msgs /\ t.index \subseteq s.index
  BY <1>2, <1>4, ZenonT(60)
<1>8. t \in Store
  BY <1>5, <1>6, <1>7, Zenon DEF Store, Delete
<1> HIDE DEF t
<1>9. Stored(t) = Stored(s) \ D
  BY <1>2, WithoutStored
<1>10. Cardinality(Stored(t)) = Cardinality(Stored(s)) - Cardinality(Stored(s) \cap D)
  <2>1. Stored(s) \in SUBSET Copies
    BY StoredCopies
  <2>2. Cardinality(Stored(s) \ D) = Cardinality(Stored(s)) - Cardinality(Stored(s) \cap D)
    BY <2>1, Counts, Zenon
  <2>3. QED
    BY <1>9, <2>2, Zenon
<1>11. Cardinality(decoded) <= Cardinality(Stored(s) \cap D)
  BY <1>1, Counts, Zenon
<1>12. t.cnt >= Cardinality(Stored(t))
  BY <1>2, <1>3, <1>4, <1>10, <1>11
<1>13. QED
  BY <1>2, <1>7, <1>8, <1>12, Zenon DEF Without, t

LEMMA DeleteExact ==
    ASSUME NEW s \in Store, s.cnt = Cardinality(Stored(s)), NEW D \in SUBSET Copies,
           \A c \in Copies : s.val[c] \in {Absent, c}
    PROVE  Exact(s, Delete(s, D), D)
<1> DEFINE t == Delete(s, D)
<1>1. {c \in D \cap Stored(s) : s.val[c] # Empty} = Stored(s) \cap D
  BY StoredCopies DEF Stored, Empty, Copies, Absent
<1>2. {orig[s.val[c]] : c \in Stored(s) \cap D} = {orig[c] : c \in Stored(s) \cap D}
  BY StoredCopies DEF Stored
<1>3. /\ t.index = s.index \ {orig[c] : c \in Stored(s) \cap D}
      /\ t.cnt = IF s.cnt > Cardinality(Stored(s) \cap D) THEN s.cnt - Cardinality(Stored(s) \cap D) ELSE 0
      /\ t.val = [c \in Copies |-> IF c \in D THEN Absent ELSE s.val[c]]
  BY <1>1, <1>2, Zenon DEF Delete, Store
<1> HIDE DEF t
<1>4. /\ Cardinality(Stored(s)) \in Nat /\ Cardinality(Stored(s) \cap D) \in Nat
      /\ Cardinality(Stored(s) \cap D) <= Cardinality(Stored(s))
  BY Counts, StoredCopies, Zenon
<1>5. Stored(t) = Stored(s) \ D
  BY <1>3, WithoutStored
<1>6. Cardinality(Stored(t)) = Cardinality(Stored(s)) - Cardinality(Stored(s) \cap D)
  <2>1. Stored(s) \in SUBSET Copies
    BY StoredCopies
  <2>2. Cardinality(Stored(s) \ D) = Cardinality(Stored(s)) - Cardinality(Stored(s) \cap D)
    BY <2>1, Counts, ZenonT(60)
  <2>3. QED
    BY <1>5, <2>2, Zenon
<1>7. t.cnt = Cardinality(Stored(t))
  BY <1>3, <1>4, <1>6
<1>8. Without(s, t, D)
  BY <1>4, DeleteWithout DEF t
<1>9. \A m \in t.index : \A c \in D \cap Stored(s) : orig[c] # m
  BY <1>3
<1>10. QED
  BY <1>7, <1>8, <1>9, Zenon DEF Exact, t

\* The cached oldest time is not part of what is stored.
LEMMA SetOldest ==
    ASSUME NEW s, NEW t, NEW D \in SUBSET Copies, NEW n \in Nat
    PROVE  /\ Without(s, t, D) => Without(s, [t EXCEPT !.oldest = n], D)
           /\ Exact(s, t, D) => Exact(s, [t EXCEPT !.oldest = n], D)
<1> DEFINE r == [t EXCEPT !.oldest = n]
<1>1. ASSUME t \in Store
      PROVE  r \in Store /\ r.val = t.val /\ r.index = t.index /\ r.cnt = t.cnt /\ Stored(r) = Stored(t)
  BY <1>1 DEF Store, Stored
<1> HIDE DEF r
<1>2. Without(s, t, D) => Without(s, r, D)
  BY <1>1, Zenon DEF Without
<1>3. Exact(s, t, D) => Exact(s, r, D)
  BY <1>1, <1>2, Zenon DEF Exact, Without
<1>4. QED
  BY <1>2, <1>3, Zenon DEF r

LEMMA ConfirmedExact ==
    ASSUME NEW s \in Store, s.cnt = Cardinality(Stored(s)), NEW c \in Copies,
           \A d \in Copies : s.val[d] \in {Absent, d}
    PROVE  Exact(s, ConfirmedMessage(s, c), {c})
<1>1. CASE s.val[c] \in {Absent, Empty}
  <2>1. s.val[c] = Absent
    BY <1>1, DelayQueueAssumption DEF Absent, Empty, Copies
  <2>2. ConfirmedMessage(s, c) = s
    BY <1>1, Zenon DEF ConfirmedMessage
  <2>3. c \notin Stored(s)
    BY <2>1, Zenon DEF Stored
  <2>4. s.val = [d \in Copies |-> IF d \in {c} THEN Absent ELSE s.val[d]]
    BY <2>1, Zenon DEF Store
  <2>5. s.cnt >= Cardinality(Stored(s))
    BY Counts, StoredCopies
  <2>6. QED
    BY <2>2, <2>3, <2>4, <2>5, Zenon DEF Exact, Without
<1>2. CASE s.val[c] \notin {Absent, Empty}
  BY <1>2, DeleteExact, Zenon DEF ConfirmedMessage
<1>3. QED
  BY <1>1, <1>2, Zenon

LEMMA EmptyExact ==
    ASSUME NEW s \in Store, s.cnt = Cardinality(Stored(s)), now \in Nat,
           \A d \in Copies : s.val[d] \in {Absent, d}
    PROVE  Exact(s, EmptyDelayedChannel(s), Stored(s))
<1>1. now + Hour \in Nat
  BY DelayQueueAssumption
<1>2. Exact(s, Delete(s, Stored(s)), Stored(s))
  BY DeleteExact, StoredCopies, Zenon
<1>3. QED
  BY <1>1, <1>2, SetOldest, StoredCopies, Zenon DEF EmptyDelayedChannel

LEMMA EmptyWithout ==
    ASSUME NEW s \in Store, s.cnt >= Cardinality(Stored(s)), now \in Nat
    PROVE  Without(s, EmptyDelayedChannel(s), Stored(s))
<1>1. now + Hour \in Nat
  BY DelayQueueAssumption
<1>2. Without(s, Delete(s, Stored(s)), Stored(s))
  BY DeleteWithout, StoredCopies, Zenon
<1>3. QED
  BY <1>1, <1>2, SetOldest, StoredCopies, Zenon DEF EmptyDelayedChannel

LEMMA UntilWithout ==
    ASSUME NEW s \in Store, s.cnt >= Cardinality(Stored(s)), NEW t \in Nat, NEW id
    PROVE  Without(s, EmptyDelayedUntil(s, t, id), {c \in Stored(s) : EarlierKey(c, t, id)})
<1> DEFINE D == {c \in Stored(s) : EarlierKey(c, t, id)}
<1>1. D \in SUBSET Copies
  BY StoredCopies
<1>2. EmptyDelayedUntil(s, t, id) = [Delete(s, D) EXCEPT !.oldest = t]
  BY DEF EmptyDelayedUntil
<1> HIDE DEF D
<1>3. Without(s, Delete(s, D), D)
  BY <1>1, DeleteWithout, Zenon
<1>4. Without(s, [Delete(s, D) EXCEPT !.oldest = t], D)
  BY <1>1, <1>3, SetOldest, Zenon
<1>5. Without(s, EmptyDelayedUntil(s, t, id), D)
  BY <1>2, <1>4, Zenon
<1>6. QED
  BY <1>5, Zenon DEF D

\* A replica that is told the state of the leader deletes what is before the first key
\* of the leader, or everything when the leader has nothing.
LEMMA UpdateStore ==
    ASSUME NEW s \in Store, s.cnt >= Cardinality(Stored(s)), now \in Nat, ts \in [Copies -> Nat],
           NEW u, u.key \in {Absent} \cup Copies
    PROVE  /\ UpdateConsumedState(s, u) \in Store
           /\ UpdateConsumedState(s, u).cnt >= Cardinality(Stored(UpdateConsumedState(s, u)))
           /\ u.cnt # 0 => \A c \in Stored(s) :
                 \/ c \in Stored(UpdateConsumedState(s, u))
                 \/ u.key # Absent /\ EarlierKey(c, ts[u.key], u.key)
<1> DEFINE t == IF u.key = Absent THEN s ELSE EmptyDelayedUntil(s, ts[u.key], u.key)
           r == UpdateConsumedState(s, u)
<1>1. r = IF u.cnt = 0 THEN EmptyDelayedChannel(t) ELSE t
  BY DEF UpdateConsumedState
<1>2. /\ t \in Store /\ t.cnt >= Cardinality(Stored(t))
      /\ \A c \in Stored(s) : c \in Stored(t) \/ (u.key # Absent /\ EarlierKey(c, ts[u.key], u.key))
  <2>1. CASE u.key = Absent
    BY <2>1, Zenon
  <2>2. CASE u.key # Absent
    <3> DEFINE D == {c \in Stored(s) : EarlierKey(c, ts[u.key], u.key)}
    <3>1. u.key \in Copies /\ ts[u.key] \in Nat
      BY <2>2, Zenon
    <3>2. t = EmptyDelayedUntil(s, ts[u.key], u.key)
      BY <2>2
    <3> HIDE DEF t
    <3>3. Without(s, t, D)
      BY <3>1, <3>2, UntilWithout, Zenon
    <3>4. D \in SUBSET Copies
      BY StoredCopies
    <3>5. Stored(t) = Stored(s) \ D
      <4> HIDE DEF D
      <4> QED BY <3>3, <3>4, WithoutStored, Zenon DEF Without
    <3>6. t \in Store /\ t.cnt >= Cardinality(Stored(t))
      BY <3>3, Zenon DEF Without
    <3>7. \A c \in Stored(s) : c \in Stored(t) \/ (u.key # Absent /\ EarlierKey(c, ts[u.key], u.key))
      BY <2>2, <3>5, Zenon
    <3>8. QED
      BY <3>6, <3>7, Zenon
  <2>3. QED
    BY <2>1, <2>2, Zenon
<1> HIDE DEF t, r
<1>3. CASE u.cnt = 0
  BY <1>1, <1>2, <1>3, EmptyWithout, Zenon DEF Without, r
<1>4. CASE u.cnt # 0
  BY <1>1, <1>2, <1>4, Zenon DEF r
<1>5. QED
  BY <1>3, <1>4, Zenon

\* t is s with the key c, a copy of m.
With(s, t, c, m, bytes) ==
    /\ t \in Store
    /\ t.val = [s.val EXCEPT ![c] = bytes]
    /\ Stored(t) = Stored(s) \cup {c}
    /\ t.index \subseteq s.index \cup {m}
    /\ t.cnt = IF c \in Stored(s) THEN s.cnt ELSE s.cnt + 1

LEMMA PutStore ==
    ASSUME NEW s \in Store, NEW c \in Copies, NEW m \in Msgs, NEW t \in Nat, NEW bytes \in Copies
    PROVE  With(s, Put(s, c, m, t, bytes), c, m, bytes)
<1> DEFINE r == Put(s, c, m, t, bytes)
<1>1. /\ r.val = [s.val EXCEPT ![c] = bytes]
      /\ r.index = IF s.val[c] = bytes THEN s.index
                   ELSE (s.index \ {orig[d] : d \in {s.val[c]} \cap Copies}) \cup {m}
      /\ r.cnt = IF s.val[c] = Absent THEN s.cnt + 1 ELSE s.cnt
      /\ r.oldest = IF s.oldest = 0 \/ t < s.oldest THEN t ELSE s.oldest
  BY DEF Put, Store
<1>2. /\ s.cnt \in Nat /\ s.index \in SUBSET Msgs /\ s.val \in [Copies -> {Absent, Empty} \cup Copies]
      /\ s.oldest \in Nat
  BY Zenon DEF Store
<1>3. r.val \in [Copies -> {Absent, Empty} \cup Copies]
  BY <1>1, <1>2, Zenon
<1>4. r.index \in SUBSET Msgs /\ r.index \subseteq s.index \cup {m}
  BY <1>1, <1>2
<1>5. r.cnt \in Nat /\ r.oldest \in Nat
  <2> HIDE DEF r
  <2>1. r.cnt \in {s.cnt, s.cnt + 1} /\ r.oldest \in {t, s.oldest}
    BY <1>1, Zenon
  <2>2. QED
    BY <1>2, <2>1
<1>6. r \in Store
  BY <1>3, <1>4, <1>5, Zenon DEF Store, Put
<1> HIDE DEF r
<1>7. Stored(r) = Stored(s) \cup {c}
  BY <1>1, <1>2, DelayQueueAssumption DEF Stored, Absent, Copies
<1>8. c \in Stored(s) <=> s.val[c] # Absent
  BY DEF Stored
<1>9. QED
  BY <1>1, <1>4, <1>6, <1>7, <1>8, Zenon DEF With, r

\* A put counts the key if it is new.
LEMMA PutCounts ==
    ASSUME NEW s \in Store, s.cnt >= Cardinality(Stored(s)), NEW c \in Copies, NEW m \in Msgs,
           NEW t \in Nat, NEW bytes \in Copies
    PROVE  /\ Put(s, c, m, t, bytes) \in Store
           /\ Put(s, c, m, t, bytes).cnt >= Cardinality(Stored(Put(s, c, m, t, bytes)))
<1> DEFINE r == Put(s, c, m, t, bytes)
<1> HIDE DEF r
<1>1. r \in Store /\ Stored(r) = Stored(s) \cup {c} /\ r.cnt = IF c \in Stored(s) THEN s.cnt ELSE s.cnt + 1
  <2>1. With(s, r, c, m, bytes)
    BY PutStore, Zenon DEF r
  <2>2. QED
    BY <2>1, Zenon DEF With
<1>2. Stored(s) \in SUBSET Copies
  BY StoredCopies
<1>3. /\ Cardinality(Stored(s) \cup {c}) = IF c \in Stored(s) THEN Cardinality(Stored(s)) ELSE Cardinality(Stored(s)) + 1
      /\ Cardinality(Stored(s)) \in Nat
  BY <1>2, Counts, Zenon
<1>4. s.cnt \in Nat
  BY DEF Store
<1>5. r.cnt >= Cardinality(Stored(r))
  BY <1>1, <1>3, <1>4
<1>6. QED
  BY <1>1, <1>5, Zenon DEF r

LEMMA SetBuf ==
    ASSUME NEW s \in Store, s.cnt >= Cardinality(Stored(s)), NEW c \in {Empty} \cup Copies
    PROVE  [s EXCEPT !.buf = c] \in Store /\ [s EXCEPT !.buf = c].cnt >= Cardinality(Stored([s EXCEPT !.buf = c]))
<1> DEFINE r == [s EXCEPT !.buf = c]
<1>1. r \in Store /\ r.cnt = s.cnt /\ r.val = s.val
  BY DEF Store
<1> HIDE DEF r
<1>2. Stored(r) = Stored(s)
  BY <1>1, Zenon DEF Stored
<1>3. QED
  BY <1>1, <1>2, Zenon DEF r

\* Messages put as raw data have their keys and are counted, whatever their bytes.
LEMMA RawStore ==
    ASSUME NEW s \in Store, s.cnt >= Cardinality(Stored(s)), ts \in [Copies -> Nat],
           NEW M \in SUBSET Copies, \A c \in M : orig[c] \in Msgs
    PROVE  /\ PutRawDataOnReplica(s, M) \in Store
           /\ PutRawDataOnReplica(s, M).cnt >= Cardinality(Stored(PutRawDataOnReplica(s, M)))
<1> DEFINE r == PutRawDataOnReplica(s, M)
<1>1. /\ r.val = [c \in Copies |-> IF c \in M THEN s.buf ELSE s.val[c]]
      /\ r.index = s.index \cup {orig[c] : c \in M}
      /\ r.cnt = s.cnt + Cardinality(M \ Stored(s))
      /\ r.oldest = IF M # {} /\ (s.oldest = 0 \/ ts[Least(M)] < s.oldest) THEN ts[Least(M)] ELSE s.oldest
  BY DEF PutRawDataOnReplica, Store
<1>2. /\ s.cnt \in Nat /\ s.index \in SUBSET Msgs /\ s.val \in [Copies -> {Absent, Empty} \cup Copies]
      /\ s.oldest \in Nat /\ s.buf \in {Empty} \cup Copies
  BY Zenon DEF Store
<1>3. r.val \in [Copies -> {Absent, Empty} \cup Copies]
  BY <1>1, <1>2, Zenon
<1>4. r.index \in SUBSET Msgs
  BY <1>1, <1>2
<1>5. Stored(s) \in SUBSET Copies /\ M \ Stored(s) \in SUBSET Copies
  BY StoredCopies
<1>6. Cardinality(M \ Stored(s)) \in Nat /\ Cardinality(Stored(s)) \in Nat
  BY <1>5, Counts, Zenon
<1>7. r.cnt \in Nat
  BY <1>1, <1>2, <1>6
<1>8. r.oldest \in Nat
  <2>1. M # {} => ts[Least(M)] \in Nat
    BY LeastIsFirst, ZenonT(60)
  <2>2. QED
    BY <1>1, <1>2, <2>1, Zenon
<1>9. r \in Store
  BY <1>3, <1>4, <1>7, <1>8, Zenon DEF Store, PutRawDataOnReplica
<1> HIDE DEF r
<1>10. Stored(r) = Stored(s) \cup M
  <2>1. s.buf # Absent
    BY <1>2, DelayQueueAssumption DEF Absent, Empty, Copies
  <2>2. \A c \in Copies : r.val[c] = IF c \in M THEN s.buf ELSE s.val[c]
    BY <1>1
  <2>3. QED
    BY <2>1, <2>2, Zenon DEF Stored
<1>11. Cardinality(Stored(r)) = Cardinality(Stored(s)) + Cardinality(M \ Stored(s))
  <2>1. Cardinality(Stored(s) \cup M) = Cardinality(Stored(s)) + Cardinality(M \ Stored(s))
    BY <1>5, Counts, Zenon
  <2>2. QED
    BY <1>10, <2>1, Zenon
<1>12. r.cnt >= Cardinality(Stored(r))
  BY <1>1, <1>2, <1>6, <1>11
<1>13. QED
  BY <1>9, <1>12, Zenon DEF r

-----------------------------------------------------------------------------
(* What a step leaves alone.                                               *)

LEMMA StoresStay ==
    ASSUME StoreInv, RequestInv, QueueInv, UpdateInv, CountCovers,
           UNCHANGED <<now, next, orig, ts, leader, replica, queue, received, req, update, emptied>>
    PROVE  StoreInv' /\ RequestInv' /\ QueueInv' /\ UpdateInv' /\ CountCovers'
<1>1. StoreInv'
  BY Zenon DEF StoreInv, Stored
<1>2. RequestInv'
  BY Zenon DEF RequestInv, Begun
<1>3. QueueInv'
  BY Zenon DEF QueueInv
<1>4. UpdateInv'
  BY Zenon DEF UpdateInv, EarlierKey
<1>5. CountCovers'
  BY Zenon DEF CountCovers, Stored
<1>6. QED
  BY <1>1, <1>2, <1>3, <1>4, <1>5, Zenon

LEMMA ChannelStays ==
    ASSUME HeldInv, KeptInv, PlaceInv,
           UNCHANGED <<now, next, orig, ts, leader, req, channel, scan, drain, finished, emptied, undisturbed>>
    PROVE  HeldInv' /\ KeptInv' /\ PlaceInv'
<1> USE DEF channel
<1>1. HeldInv'
  BY Zenon DEF HeldInv, DueCopy
<1>2. KeptInv'
  BY Zenon DEF KeptInv, Kept, Stored
<1>3. PlaceInv'
  <2>1. Held' = Held
    BY DEF Held
  <2>2. OnePlace => OnePlace'
    BY Zenon DEF OnePlace, Fresh
  <2>3. QED
    BY <2>1, <2>2, Zenon DEF PlaceInv
<1>4. QED
  BY <1>1, <1>2, <1>3, Zenon

\* What is kept stays so, as long as its copies are.
LEMMA KeptStays ==
    ASSUME UNCHANGED <<orig, leader, emptied>>, finished \subseteq finished', NEW m, Kept(m)
    PROVE  Kept(m)'
BY Zenon DEF Kept, Stored

LEMMA ItemType ==
    ASSUME NEW i \in Travelling
    PROVE  i.msg \in Msgs /\ i.copy \in {Original} \cup Copies /\ i.at \in {"queued", "passed", "delayed"}
BY DEF Travelling

LEMMA QueuedType ==
    ASSUME NEW m \in Msgs, NEW c \in {Original} \cup Copies
    PROVE  Queued(m, c) \in Travelling /\ Queued(m, c).msg = m /\ Queued(m, c).copy = c /\ Queued(m, c).at = "queued"
BY DEF Travelling, Queued

\* A connection goes on with a message (FindDelayed, Pass).
LEMMA MoveStep ==
    ASSUME DelayInv, NEW i \in travelling, NEW at \in {"queued", "passed", "delayed"},
           travelling' = Moved(i, at), at = "delayed" => i.copy = Original /\ Kept(i.msg),
           UNCHANGED <<now, copies, leader, replica, disk, unread, confirmed, inFlight, waitingRequeueChanMsgs,
                       deferredFromDelay, delayedConfirmedMsgs, scan, req, update, drain, history, left>>
    PROVE  DelayInv'
<1> USE DEF copies, disk, history
<1>1. PICK j : j = [i EXCEPT !.at = at]
  BY Zenon
<1>2. i \in Travelling /\ j \in Travelling /\ j.msg = i.msg /\ j.copy = i.copy /\ j.at = at
  <2>1. i \in Travelling
    BY DEF DelayInv, TypeOK
  <2>2. /\ [i EXCEPT !.at = at] \in Travelling /\ [i EXCEPT !.at = at].msg = i.msg
        /\ [i EXCEPT !.at = at].copy = i.copy /\ [i EXCEPT !.at = at].at = at
    BY <2>1 DEF Travelling
  <2>3. QED
    BY <1>1, <2>1, <2>2, Zenon
<1>3. travelling' = (travelling \ {i}) \cup {j}
  BY <1>1, Zenon DEF Moved
<1>4. TypeOK'
  BY <1>2, <1>3, Zenon DEF DelayInv, TypeOK
<1>5. StoreInv' /\ RequestInv' /\ QueueInv' /\ UpdateInv' /\ CountCovers'
  BY StoresStay, Zenon DEF DelayInv
<1>6. HeldInv'
  BY <1>2, <1>3, ZenonT(60) DEF DelayInv, HeldInv, DueCopy
<1>7. KeptInv'
  <2>1. \A m : Kept(m) => Kept(m)'
    BY KeptStays
  <2>2. QED
    BY <1>2, <1>3, <2>1, Zenon DEF DelayInv, KeptInv
<1>8. PlaceInv'
  <2>1. Held' = Held
    BY <1>2, <1>3, Zenon DEF Held
  <2>2. ASSUME OnePlace PROVE OnePlace'
    <3>1. \A x, y \in travelling' : x.msg = y.msg => x = y
      BY <1>2, <1>3, <2>2, Zenon DEF OnePlace
    <3>2. \A x \in travelling' : inFlight[x.msg] = Absent /\ x.msg \notin unread
      BY <1>2, <1>3, <2>2, Zenon DEF OnePlace
    <3>3. \A x \in travelling' : x.msg \in waitingRequeueChanMsgs \/ (x.copy = Original /\ Fresh(x.msg))
      BY <1>2, <1>3, <2>2, Zenon DEF OnePlace
    <3>4. QED
      BY <2>2, <3>1, <3>2, <3>3, Zenon DEF OnePlace, Fresh
  <2>3. QED
    BY <2>1, <2>2, Zenon DEF DelayInv, PlaceInv
<1>9. QED
  BY <1>4, <1>5, <1>6, <1>7, <1>8, Zenon DEF DelayInv

\* A connection drops a message of the partition (ConfirmDelayed, DropConfirmed).
LEMMA DropStep ==
    ASSUME DelayInv, NEW i \in travelling, travelling' = travelling \ {i}, i.copy = Original,
           confirmed' \subseteq confirmed \cup {i.msg}, i.msg \in confirmed' => i.msg \in confirmed \/ Kept(i.msg),
           waitingRequeueChanMsgs' = waitingRequeueChanMsgs \ {i.msg},
           UNCHANGED <<now, copies, leader, replica, disk, unread, inFlight, deferredFromDelay, delayedConfirmedMsgs,
                       scan, req, update, drain, history, left>>
    PROVE  DelayInv'
<1> USE DEF copies, disk, history
<1>1. i \in Travelling /\ i.msg \in Msgs
  BY ItemType, Zenon DEF DelayInv, TypeOK
<1>2. TypeOK'
  BY <1>1, Zenon DEF DelayInv, TypeOK
<1>3. StoreInv' /\ RequestInv' /\ QueueInv' /\ UpdateInv' /\ CountCovers'
  BY StoresStay, Zenon DEF DelayInv
<1>4. HeldInv'
  BY Zenon DEF DelayInv, HeldInv, DueCopy
<1>5. KeptInv'
  <2>1. \A m : Kept(m) => Kept(m)'
    BY KeptStays
  <2>2. QED
    BY <2>1, Zenon DEF DelayInv, KeptInv
<1>6. PlaceInv'
  <2>1. Held' \cap Copies = Held \cap Copies
    BY DelayQueueAssumption DEF Held, Original, Copies
  <2>2. OnePlace => OnePlace'
    BY ZenonT(60) DEF OnePlace, Fresh
  <2>3. QED
    BY <2>1, <2>2, Zenon DEF DelayInv, PlaceInv
<1>7. QED
  BY <1>2, <1>3, <1>4, <1>5, <1>6, Zenon DEF DelayInv

\* Requests go on as they are, or end.
LEMMA RequestsStay ==
    ASSUME RequestInv, QueueInv, UNCHANGED <<now, next, orig, ts, emptied, queue, received>>,
           \A n \in Msgs : \/ req'[n].at = req[n].at /\ req'[n].ts = req[n].ts /\ req'[n].copy = req[n].copy
                           \/ req'[n].at = "idle" /\ req[n].at # "begun",
           \A n \in Msgs : req[n].at \in {"written", "synced"} /\ leader.val[req[n].copy] # Absent
                              => leader'.val[req[n].copy] # Absent
    PROVE  RequestInv' /\ QueueInv'
<1>1. Begun' = Begun
  BY Zenon DEF Begun
<1>2. \A m \in Msgs : req'[m].at # "idle" => req'[m].ts > now
  BY DEF RequestInv
<1>3. ASSUME NEW m \in Msgs, req'[m].at \in {"written", "synced"}
      PROVE  /\ req'[m].copy \in Copies /\ req'[m].copy < next
             /\ orig[req'[m].copy] = m /\ ts[req'[m].copy] = req'[m].ts
             /\ m \in emptied \/ leader'.val[req'[m].copy] # Absent
  <2>1. req'[m].at = req[m].at /\ req'[m].ts = req[m].ts /\ req'[m].copy = req[m].copy
    BY <1>3, Zenon
  <2>2. QED
    BY <1>3, <2>1, Zenon DEF RequestInv
<1>4. RequestInv'
  BY <1>1, <1>2, <1>3, Zenon DEF RequestInv
<1>5. QueueInv'
  <2>1. \A m \in Msgs : req'[m].at = "written" => req[m].at = "written"
    OBVIOUS
  <2>2. QED
    BY <2>1, Zenon DEF QueueInv
<1>6. QED
  BY <1>4, <1>5, Zenon

\* The leader deletes keys.
LEMMA LeaderLoses ==
    ASSUME leader \in Store, StoreInv, NEW D \in SUBSET Copies, Exact(leader, leader', D), UNCHANGED <<next, orig>>
    PROVE  /\ leader' \in Store /\ StoreInv' /\ leader'.cnt = Cardinality(Stored(leader'))
           /\ \A c \in Copies : leader'.val[c] = IF c \in D THEN Absent ELSE leader.val[c]
           /\ Stored(leader') = Stored(leader) \ D
<1>1. /\ leader' \in Store /\ leader'.cnt = Cardinality(Stored(leader')) /\ leader'.index \subseteq leader.index
      /\ leader'.val = [c \in Copies |-> IF c \in D THEN Absent ELSE leader.val[c]]
      /\ \A m \in leader'.index : \A c \in D \cap Stored(leader) : orig[c] # m
  BY Zenon DEF Exact, Without
<1>2. \A c \in Copies : leader'.val[c] = IF c \in D THEN Absent ELSE leader.val[c]
  BY <1>1
<1>3. Stored(leader') = Stored(leader) \ D
  BY <1>1, WithoutStored, Zenon
<1>4. StoreInv'
  <2>1. \A c \in Copies : leader'.val[c] \in {Absent, c} /\ (c >= next => leader'.val[c] = Absent)
    BY <1>2 DEF StoreInv
  <2>2. \A m \in leader'.index : \E c \in Stored(leader') : orig[c] = m
    BY <1>1, <1>3, Zenon DEF StoreInv
  <2>3. QED
    BY <2>1, <2>2, Zenon DEF StoreInv
<1>5. QED
  BY <1>1, <1>2, <1>3, <1>4, Zenon

LEMMA NotCopies == Original \notin Copies /\ Absent \notin Copies /\ Original # Absent
BY DelayQueueAssumption DEF Original, Absent, Copies

\* A copy whose requeue is under way is not due.
LEMMA NotDue ==
    ASSUME DelayInv, NEW m \in Msgs, req[m].at \in {"written", "synced"}, NEW c, c # Original => ts[c] <= now
    PROVE  /\ req[m].copy \in Copies /\ orig[req[m].copy] = m /\ req[m].copy # c
           /\ m \in emptied \/ leader.val[req[m].copy] # Absent
<1>1. /\ req[m].copy \in Copies /\ orig[req[m].copy] = m /\ ts[req[m].copy] = req[m].ts
      /\ m \in emptied \/ leader.val[req[m].copy] # Absent
  BY Zenon DEF DelayInv, RequestInv
<1>2. req[m].ts > now
  BY Zenon DEF DelayInv, RequestInv
<1>3. ts[req[m].copy] \in Nat /\ now \in Nat
  BY <1>1, Zenon DEF DelayInv, TypeOK
<1>4. ~(ts[req[m].copy] <= now)
  BY <1>1, <1>2, <1>3
<1>5. req[m].copy # c
  BY <1>1, <1>4, NotCopies, Zenon
<1>6. QED
  BY <1>1, <1>5, Zenon

\* A message leaves the flight (Finish, FinishRequeued): one that a client has finished,
\* or one whose requester has put a copy that is not due.
LEMMA FinishStep ==
    ASSUME DelayInv, NEW m \in Msgs, FinishLocal(m), finished \subseteq finished', finished' \subseteq Msgs,
           m \in finished' \/ req[m].at = "synced", req' \in [Msgs -> Requester],
           \A n \in Msgs : req'[n] = req[n] \/ (req[n].at = "synced" /\ req'[n].at = "idle"),
           UNCHANGED <<now, copies, replica, disk, unread, travelling, waitingRequeueChanMsgs, scan, update, drain,
                       emptied, undisturbed, left>>
    PROVE  DelayInv'
<1> USE DEF copies, disk, history
<1> DEFINE c == inFlight[m]
<1>0. /\ leader \in Store /\ leader.cnt = Cardinality(Stored(leader)) /\ StoreInv
      /\ \A d \in Copies : leader.val[d] \in {Absent, d}
  BY Zenon DEF DelayInv, TypeOK, CountCovers, StoreInv
<1>1. /\ c # Absent /\ c \in {Original} \cup Copies /\ inFlight' = [inFlight EXCEPT ![m] = Absent]
      /\ inFlight \in [Msgs -> {Absent, Original} \cup Copies]
  BY Zenon DEF FinishLocal, DelayInv, TypeOK
<1>2. \A n \in Msgs : inFlight'[n] = IF n = m THEN Absent ELSE inFlight[n]
  BY <1>1, Zenon
<1>3. c # Original => /\ c \in Copies /\ c < next /\ ts[c] <= now /\ orig[c] = m
                      /\ Exact(leader, leader', {c}) /\ deferredFromDelay' = deferredFromDelay - 1
  <2>1. ASSUME c # Original PROVE c \in Copies
    BY <1>1, <2>1, Zenon
  <2>2. ASSUME c # Original PROVE c < next /\ ts[c] <= now /\ orig[c] = m
    BY <2>1, <2>2, Zenon DEF DelayInv, HeldInv, DueCopy
  <2>3. ASSUME c # Original
        PROVE  leader' = ConfirmedMessage(leader, c) /\ deferredFromDelay' = deferredFromDelay - 1
    BY <2>3 DEF FinishLocal
  <2>4. ASSUME c # Original PROVE Exact(leader, leader', {c})
    <3>1. Exact(leader, ConfirmedMessage(leader, c), {c})
      BY <1>0, <2>1, <2>4, ConfirmedExact, Zenon
    <3>2. QED
      BY <2>3, <2>4, <3>1, Zenon
  <2>5. QED
    BY <2>1, <2>2, <2>3, <2>4
<1>4. c = Original => leader' = leader /\ deferredFromDelay' = deferredFromDelay
  BY Zenon DEF FinishLocal
<1>5. confirmed' \subseteq confirmed \cup {m}
  BY Zenon DEF FinishLocal
<1>6. delayedConfirmedMsgs' \subseteq delayedConfirmedMsgs \cup {m}
  BY DEF FinishLocal
<1> HIDE DEF c
<1>7. /\ leader' \in Store /\ StoreInv' /\ leader'.cnt = Cardinality(Stored(leader'))
      /\ Stored(leader') = Stored(leader) \ ({c} \ {Original})
      /\ \A d \in Copies : d # c => leader'.val[d] = leader.val[d]
  <2>1. CASE c = Original
    <3>1. leader' = leader /\ next' = next /\ orig' = orig
      BY <1>4, <2>1, Zenon
    <3>2. StoreInv'
      BY <1>0, <3>1, ZenonT(60) DEF StoreInv, Stored
    <3>3. QED
      BY <1>0, <2>1, <3>1, <3>2, Zenon
  <2>2. CASE c # Original
    <3>1. /\ leader' \in Store /\ StoreInv' /\ leader'.cnt = Cardinality(Stored(leader'))
          /\ \A d \in Copies : leader'.val[d] = IF d \in {c} THEN Absent ELSE leader.val[d]
          /\ Stored(leader') = Stored(leader) \ {c}
      <4>1. {c} \in SUBSET Copies /\ Exact(leader, leader', {c})
        BY <1>3, <2>2
      <4>2. QED
        BY <1>0, <4>1, LeaderLoses, Zenon
    <3>2. QED
      BY <2>2, <3>1
  <2>3. QED
    BY <2>1, <2>2, Zenon
<1>8. TypeOK'
  <2>1. deferredFromDelay' \in Int
    BY <1>3, <1>4 DEF DelayInv, TypeOK
  <2>2. inFlight' \in [Msgs -> {Absent, Original} \cup Copies]
    BY <1>1, Zenon
  <2>3. confirmed' \subseteq Msgs /\ delayedConfirmedMsgs' \subseteq Msgs
    BY <1>5, <1>6, Zenon DEF DelayInv, TypeOK
  <2>4. QED
    BY <1>7, <2>1, <2>2, <2>3, ZenonT(60) DEF DelayInv, TypeOK
<1>9. RequestInv' /\ QueueInv'
  <2>1. \A n \in Msgs : req[n].at \in {"written", "synced"} => req[n].copy \in Copies /\ req[n].copy # c
    BY <1>3, NotDue, Zenon
  <2>2. \A n \in Msgs : req[n].at \in {"written", "synced"} /\ leader.val[req[n].copy] # Absent
                           => leader'.val[req[n].copy] # Absent
    BY <1>7, <2>1, ZenonT(60)
  <2>3. \A n \in Msgs : \/ req'[n].at = req[n].at /\ req'[n].ts = req[n].ts /\ req'[n].copy = req[n].copy
                        \/ req'[n].at = "idle" /\ req[n].at # "begun"
    OBVIOUS
  <2>4. QED
    BY <2>2, <2>3, RequestsStay, Zenon DEF DelayInv
<1>10. HeldInv'
  <2>1. \A n \in Msgs : inFlight'[n] \in Copies => inFlight'[n] = inFlight[n]
    BY <1>2, DelayQueueAssumption DEF Absent, Copies
  <2>2. QED
    BY <2>1, ZenonT(60) DEF DelayInv, HeldInv, DueCopy
<1>11. KeptInv'
  <2>1. Kept(m)'
    <3>1. CASE m \in finished'
      BY <3>1, Zenon DEF Kept
    <3>2. CASE req[m].at = "synced"
      <4>1. /\ req[m].copy \in Copies /\ orig[req[m].copy] = m /\ req[m].copy # c
            /\ m \in emptied \/ leader.val[req[m].copy] # Absent
        BY <1>3, <3>2, NotDue, Zenon
      <4>2. m \in emptied \/ req[m].copy \in Stored(leader')
        BY <1>7, <4>1, Zenon DEF Stored
      <4>3. QED
        BY <4>1, <4>2, Zenon DEF Kept
    <3>3. QED
      BY <3>1, <3>2, Zenon
  <2>2. ASSUME NEW n, n # m, Kept(n) PROVE Kept(n)'
    <3>1. CASE n \in finished \cup emptied
      BY <3>1, Zenon DEF Kept
    <3>2. CASE \E d \in Stored(leader) : orig[d] = n
      BY <1>3, <1>7, <2>2, <3>2, Zenon DEF Kept
    <3>3. QED
      BY <2>2, <3>1, <3>2, Zenon DEF Kept
  <2>3. QED
    BY <1>5, <2>1, <2>2, Zenon DEF DelayInv, KeptInv
<1>12. UpdateInv'
  BY Zenon DEF DelayInv, UpdateInv, EarlierKey
<1>13. PlaceInv'
  <2>1. ASSUME OnePlace PROVE OnePlace'
    <3>1. \A n \in Msgs : Fresh(n) => Fresh(n)'
      BY Zenon DEF Fresh
    <3>2. \A n \in Msgs : inFlight[n] = Absent => inFlight'[n] = Absent
      BY <1>2, Zenon
    <3>3. (\A i \in travelling : i.msg \in Msgs) /\ unread \subseteq Msgs
      BY ItemType, Zenon DEF DelayInv, TypeOK
    <3>4. QED
      BY <2>1, <3>1, <3>2, <3>3, Zenon DEF OnePlace
  <2>2. CASE c = Original
    <3>1. Held' \cap Copies = Held \cap Copies
      BY <1>1, <1>2, <2>2, DelayQueueAssumption DEF Held, c, Original, Absent, Copies
    <3>2. QED
      BY <1>4, <2>1, <2>2, <3>1, ZenonT(60) DEF DelayInv, PlaceInv
  <2>3. CASE c # Original
    <3>1. ASSUME OnePlace PROVE Held' \cap Copies = (Held \cap Copies) \ {c}
      <4>1. c \in Copies /\ orig[c] = m
        BY <1>3, <2>3, ZenonT(60)
      <4>2. \A i \in travelling : i.copy # c
        BY <1>1, <3>1, <4>1, DelayQueueAssumption DEF OnePlace, DelayInv, HeldInv, Original, Copies, c
      <4>3. \A n \in Msgs \ {m} : inFlight[n] # c
        BY <4>1, ZenonT(60) DEF DelayInv, HeldInv
      <4>4. QED
        BY <1>1, <1>2, <4>1, <4>2, <4>3, DelayQueueAssumption DEF Held, Absent, Copies, c
    <3>2. c \in Held \cap Copies
      BY <1>3, <2>3 DEF Held, c
    <3>3. Cardinality((Held \cap Copies) \ {c}) = Cardinality(Held \cap Copies) - 1
      <4>1. Held \cap Copies \in SUBSET Copies
        OBVIOUS
      <4>2. QED
        BY <3>2, <4>1, Counts, ZenonT(60)
    <3>4. QED
      BY <1>3, <2>1, <2>3, <3>1, <3>3, ZenonT(60) DEF DelayInv, PlaceInv
  <2>4. QED
    BY <2>2, <2>3, Zenon
<1>14. CountCovers'
  BY <1>7, Zenon DEF DelayInv, CountCovers, Stored
<1>15. QED
  BY <1>7, <1>8, <1>9, <1>10, <1>11, <1>12, <1>13, <1>14, Zenon DEF DelayInv

\* The reader gives a message: it has no copy yet, or the channel has been reset.
LEMMA ReadStep ==
    ASSUME DelayInv, NEW m \in Msgs, Read(m)
    PROVE  DelayInv'
<1> USE DEF copies, disk, history
<1>1. PICK j : j = Queued(m, Original)
  BY Zenon
<1>2. j \in Travelling /\ j.msg = m /\ j.copy = Original /\ j.at = "queued"
  BY <1>1, QueuedType, Zenon
<1>3. /\ m \in unread /\ unread' = unread \ {m} /\ travelling' = travelling \cup {j}
      /\ UNCHANGED <<now, copies, leader, replica, disk, confirmed, inFlight, waitingRequeueChanMsgs, deferredFromDelay,
                     delayedConfirmedMsgs, scan, req, update, drain, history, left>>
  BY <1>1, Zenon DEF Read
<1>4. TypeOK'
  BY <1>2, <1>3, Zenon DEF DelayInv, TypeOK
<1>5. StoreInv' /\ RequestInv' /\ QueueInv' /\ UpdateInv' /\ CountCovers'
  BY <1>3, StoresStay, Zenon DEF DelayInv
<1>6. HeldInv'
  BY <1>2, <1>3, ZenonT(60) DEF DelayInv, HeldInv, DueCopy
<1>7. KeptInv'
  <2>1. \A n : Kept(n) => Kept(n)'
    BY <1>3, KeptStays, Zenon
  <2>2. QED
    BY <1>2, <1>3, <2>1 DEF DelayInv, KeptInv
<1>8. PlaceInv'
  <2>1. Held' \cap Copies = Held \cap Copies
    BY <1>2, <1>3, NotCopies, Zenon DEF Held
  <2>2. ASSUME OnePlace PROVE OnePlace'
    <3>1. \A n : Fresh(n) => Fresh(n)'
      BY <1>3, Zenon DEF Fresh
    <3>2. \A x, y \in travelling' : x.msg = y.msg => x = y
      BY <1>2, <1>3, <2>2, Zenon DEF OnePlace
    <3>3. \A x \in travelling' : inFlight[x.msg] = Absent /\ x.msg \notin unread'
      BY <1>2, <1>3, <2>2, Zenon DEF OnePlace
    <3>4. \A x \in travelling' : x.msg \in waitingRequeueChanMsgs \/ (x.copy = Original /\ Fresh(x.msg))
      BY <1>2, <1>3, <2>2, Zenon DEF OnePlace
    <3>5. \A n \in unread' : inFlight[n] = Absent /\ Fresh(n)
      BY <1>3, <2>2, Zenon DEF OnePlace
    <3>6. QED
      BY <1>3, <3>1, <3>2, <3>3, <3>4, <3>5, ZenonT(60) DEF OnePlace
  <2>3. QED
    BY <1>3, <2>1, <2>2, Zenon DEF DelayInv, PlaceInv
<1>9. QED
  BY <1>4, <1>5, <1>6, <1>7, <1>8, Zenon DEF DelayInv

\* A message that is taken goes in flight, unless its id is there by then.
LEMMA StartStep ==
    ASSUME DelayInv, NEW i \in travelling, StartInFlight(i)
    PROVE  DelayInv'
<1> USE DEF copies, disk, history
<1>1. /\ i.at = "passed" /\ travelling' = travelling \ {i}
      /\ IF inFlight[i.msg] = Absent
         THEN /\ inFlight' = [inFlight EXCEPT ![i.msg] = i.copy]
              /\ waitingRequeueChanMsgs' = waitingRequeueChanMsgs \ {i.msg}
         ELSE UNCHANGED <<inFlight, waitingRequeueChanMsgs>>
      /\ UNCHANGED <<now, copies, leader, replica, disk, unread, confirmed, deferredFromDelay, delayedConfirmedMsgs, scan,
                     req, update, drain, history, left>>
  BY Zenon DEF StartInFlight
<1>2. i \in Travelling /\ i.msg \in Msgs /\ i.copy \in {Original} \cup Copies
  BY ItemType, Zenon DEF DelayInv, TypeOK
<1>3. inFlight \in [Msgs -> {Absent, Original} \cup Copies]
  BY Zenon DEF DelayInv, TypeOK
<1>4. inFlight[i.msg] = Absent => \A n \in Msgs : inFlight'[n] = IF n = i.msg THEN i.copy ELSE inFlight[n]
  BY <1>1, <1>3, Zenon
<1>5. TypeOK'
  <2>1. inFlight' \in [Msgs -> {Absent, Original} \cup Copies]
    BY <1>1, <1>2, <1>3, Zenon
  <2>2. travelling' \subseteq travelling /\ waitingRequeueChanMsgs' \subseteq waitingRequeueChanMsgs
    BY <1>1, Zenon
  <2>3. QED
    BY <1>1, <2>1, <2>2, ZenonT(60) DEF DelayInv, TypeOK
<1>6. StoreInv' /\ RequestInv' /\ QueueInv' /\ UpdateInv' /\ CountCovers'
  BY <1>1, StoresStay, Zenon DEF DelayInv
<1>7. HeldInv'
  <2>1. \A n \in Msgs : inFlight'[n] \in Copies => DueCopy(inFlight'[n]) /\ orig[inFlight'[n]] = n
    <3>1. CASE inFlight[i.msg] = Absent
      BY <1>2, <1>4, <3>1, NotCopies, ZenonT(60) DEF DelayInv, HeldInv
    <3>2. CASE inFlight[i.msg] # Absent
      BY <1>1, <3>2, Zenon DEF DelayInv, HeldInv
    <3>3. QED
      BY <3>1, <3>2, Zenon
  <2>2. \A c : DueCopy(c) => DueCopy(c)'
    BY <1>1, Zenon DEF DueCopy
  <2>3. QED
    BY <1>1, <2>1, <2>2, Zenon DEF DelayInv, HeldInv
<1>8. KeptInv'
  <2>1. \A n : Kept(n) => Kept(n)'
    BY <1>1, KeptStays, Zenon
  <2>2. QED
    BY <1>1, <2>1, Zenon DEF DelayInv, KeptInv
<1>9. PlaceInv'
  <2>1. SUFFICES ASSUME undisturbed PROVE OnePlace' /\ deferredFromDelay' = Cardinality(Held' \cap Copies) /\ drain' = "idle"
    BY <1>1, Zenon DEF PlaceInv
  <2>2. OnePlace /\ deferredFromDelay = Cardinality(Held \cap Copies) /\ drain = "idle"
    BY <2>1, Zenon DEF DelayInv, PlaceInv
  <2>3. /\ inFlight[i.msg] = Absent /\ i.msg \notin unread
        /\ \A j \in travelling : j # i => j.msg # i.msg
    BY <2>2, Zenon DEF OnePlace
  <2>4. (\A j \in travelling : j.msg \in Msgs) /\ unread \subseteq Msgs
    BY ItemType, Zenon DEF DelayInv, TypeOK
  <2>5. OnePlace'
    <3>1. \A n : Fresh(n) => Fresh(n)'
      BY <1>1, Zenon DEF Fresh
    <3>2. \A j \in travelling' : j \in travelling /\ j.msg # i.msg /\ j.msg \in Msgs
      BY <1>1, <2>3, <2>4, Zenon
    <3>3. \A j \in travelling' : inFlight'[j.msg] = inFlight[j.msg]
      BY <1>4, <2>3, <3>2, Zenon
    <3>4. \A n \in unread : inFlight'[n] = inFlight[n]
      BY <1>4, <2>3, <2>4, Zenon
    <3>5. \A j \in travelling' : j.msg \in waitingRequeueChanMsgs => j.msg \in waitingRequeueChanMsgs'
      BY <1>1, <3>2, Zenon
    <3>6. QED
      BY <1>1, <2>2, <3>1, <3>2, <3>3, <3>4, <3>5, ZenonT(60) DEF OnePlace
  <2>6. Held' \cap Copies = Held \cap Copies
    <3>1. Held \cap Copies \subseteq Held'
      BY <1>1, <1>2, <1>4, <2>3, NotCopies DEF Held
    <3>2. Held' \cap Copies \subseteq Held
      BY <1>1, <1>2, <1>4, <2>3, NotCopies DEF Held
    <3>3. QED
      BY <3>1, <3>2, Zenon
  <2>7. QED
    BY <1>1, <2>2, <2>5, <2>6, Zenon
<1>10. QED
  BY <1>5, <1>6, <1>7, <1>8, <1>9, Zenon DEF DelayInv

\* A message times out, or is due again: it goes back to the requeue channel.
LEMMA TimeoutStep ==
    ASSUME DelayInv, NEW m \in Msgs, Timeout(m)
    PROVE  DelayInv'
<1> USE DEF copies, disk, history
<1> DEFINE c == inFlight[m]
<1>1. /\ c # Absent /\ inFlight' = [inFlight EXCEPT ![m] = Absent] /\ travelling' = travelling \cup {Queued(m, c)}
      /\ waitingRequeueChanMsgs' = waitingRequeueChanMsgs \cup {m} /\ req' = [req EXCEPT ![m].owns = FALSE]
      /\ UNCHANGED <<now, copies, leader, replica, disk, unread, confirmed, deferredFromDelay, delayedConfirmedMsgs, scan,
                     update, drain, history, left>>
  BY Zenon DEF Timeout
<1>2. inFlight \in [Msgs -> {Absent, Original} \cup Copies] /\ req \in [Msgs -> Requester]
  BY Zenon DEF DelayInv, TypeOK
<1>3. c \in {Original} \cup Copies
  BY <1>1, <1>2
<1>4. \A n \in Msgs : inFlight'[n] = IF n = m THEN Absent ELSE inFlight[n]
  BY <1>1, <1>2, Zenon
<1>5. /\ req' \in [Msgs -> Requester]
      /\ \A n \in Msgs : req'[n].at = req[n].at /\ req'[n].ts = req[n].ts /\ req'[n].copy = req[n].copy
  BY <1>1, <1>2, Zenon DEF Requester
<1>6. PICK j : j = Queued(m, c)
  OBVIOUS
<1>7. j \in Travelling /\ j.msg = m /\ j.copy = c /\ j.at = "queued" /\ travelling' = travelling \cup {j}
  BY <1>1, <1>3, <1>6, QueuedType, Zenon
<1>8. TypeOK'
  <2>1. inFlight' \in [Msgs -> {Absent, Original} \cup Copies]
    BY <1>1, <1>2, Zenon
  <2>2. travelling' \subseteq Travelling /\ waitingRequeueChanMsgs' \subseteq Msgs
    BY <1>1, <1>7, Zenon DEF DelayInv, TypeOK
  <2>3. QED
    BY <1>1, <1>5, <2>1, <2>2, ZenonT(60) DEF DelayInv, TypeOK
<1>9. RequestInv' /\ QueueInv'
  BY <1>1, <1>5, RequestsStay, Zenon DEF DelayInv
<1>10. StoreInv' /\ UpdateInv' /\ CountCovers'
  <2>1. StoreInv'
    BY <1>1, Zenon DEF DelayInv, StoreInv, Stored
  <2>2. UpdateInv'
    BY <1>1, Zenon DEF DelayInv, UpdateInv, EarlierKey
  <2>3. CountCovers'
    BY <1>1, Zenon DEF DelayInv, CountCovers, Stored
  <2>4. QED
    BY <2>1, <2>2, <2>3, Zenon
<1>11. HeldInv'
  <2>1. \A d : DueCopy(d) => DueCopy(d)'
    BY <1>1, Zenon DEF DueCopy
  <2>2. c # Original => DueCopy(c) /\ orig[c] = m
    BY <1>3, Zenon DEF DelayInv, HeldInv
  <2>3. \A n \in Msgs : inFlight'[n] \in Copies => inFlight'[n] = inFlight[n]
    BY <1>4, NotCopies, Zenon
  <2> HIDE DEF c
  <2>4. \A i \in travelling' : i.copy # Original => i.at # "delayed" /\ DueCopy(i.copy) /\ orig[i.copy] = i.msg
    BY <1>7, <2>2, Zenon DEF DelayInv, HeldInv
  <2>5. QED
    BY <1>1, <2>1, <2>3, <2>4, ZenonT(60) DEF DelayInv, HeldInv
<1>12. KeptInv'
  <2>1. \A n : Kept(n) => Kept(n)'
    BY <1>1, KeptStays, Zenon
  <2>2. QED
    BY <1>1, <1>7, <2>1, Zenon DEF DelayInv, KeptInv
<1>13. PlaceInv'
  <2>1. Held' \cap Copies = Held \cap Copies
    <3>1. Held \cap Copies \subseteq Held'
      BY <1>4, <1>7, NotCopies DEF Held
    <3>2. Held' \cap Copies \subseteq Held
      BY <1>4, <1>7, NotCopies DEF Held
    <3>3. QED
      BY <3>1, <3>2, Zenon
  <2>2. ASSUME OnePlace PROVE OnePlace'
    <3>1. \A n \in Msgs : Fresh(n) => Fresh(n)'
      BY <1>1, <1>5, Zenon DEF Fresh
    <3>2. (\A i \in travelling : i.msg \in Msgs) /\ unread \subseteq Msgs
      BY ItemType, Zenon DEF DelayInv, TypeOK
    <3>3. (\A i \in travelling : i.msg # m) /\ m \notin unread
      BY <1>1, <2>2, Zenon DEF OnePlace
    <3>4. \A n \in Msgs : inFlight[n] = Absent => inFlight'[n] = Absent
      BY <1>4
    <3> HIDE DEF c
    <3>5. \A x, y \in travelling' : x.msg = y.msg => x = y
      BY <1>7, <2>2, <3>3, Zenon DEF OnePlace
    <3>6. \A x \in travelling' : inFlight'[x.msg] = Absent /\ x.msg \notin unread
      BY <1>4, <1>7, <2>2, <3>2, <3>3, <3>4, ZenonT(60) DEF OnePlace
    <3>7. \A x \in travelling' : x.msg \in waitingRequeueChanMsgs' \/ (x.copy = Original /\ Fresh(x.msg)')
      BY <1>1, <1>7, <2>2, <3>1, <3>2, ZenonT(60) DEF OnePlace
    <3>8. \A n \in unread : inFlight'[n] = Absent /\ Fresh(n)'
      BY <2>2, <3>1, <3>2, <3>4, Zenon DEF OnePlace
    <3>9. QED
      BY <1>1, <3>5, <3>6, <3>7, <3>8, Zenon DEF OnePlace
  <2>3. QED
    BY <1>1, <2>1, <2>2, Zenon DEF DelayInv, PlaceInv
<1>14. QED
  BY <1>8, <1>9, <1>10, <1>11, <1>12, <1>13, ZenonT(60) DEF DelayInv

\* Sets of messages are finite too.
LEMMA MsgsFinite ==
    /\ \A S \in SUBSET Msgs : IsFiniteSet(S) /\ Cardinality(S) \in Nat
    /\ \A S \in SUBSET Msgs : \A m \in Msgs :
          Cardinality(S \cup {m}) = IF m \in S THEN Cardinality(S) ELSE Cardinality(S) + 1
    /\ \A S \in SUBSET Msgs : \A m \in Msgs :
          Cardinality(S \ {m}) = IF m \in S THEN Cardinality(S) - 1 ELSE Cardinality(S)
<1>1. IsFiniteSet(Msgs)
  BY DelayQueueAssumption, FS_Interval DEF Msgs
<1>2. \A S \in SUBSET Msgs : IsFiniteSet(S)
  BY <1>1, FS_Subset, Zenon
<1>3. QED
  BY <1>2, FS_CardinalityType, FS_AddElement, FS_RemoveElement, Zenon

\* Budgets stay counts.
LEMMA SpendType ==
    ASSUME TypeOK, NEW what \in {"copies", "updates", "admin", "faults"}, Spend(what)
    PROVE  /\ left' \in [msgs : 0 .. NumMsgs, time : Nat, copies : Nat, updates : Nat, admin : Nat, faults : Nat]
           /\ left'.time = left.time /\ left'.msgs = left.msgs
<1>1. left \in [msgs : 0 .. NumMsgs, time : Nat, copies : Nat, updates : Nat, admin : Nat, faults : Nat]
  BY DEF TypeOK
<1>2. left[what] > 0 /\ left' = [left EXCEPT ![what] = @ - 1]
  BY Zenon DEF Spend
<1>3. CASE what = "copies"
  BY <1>1, <1>2, <1>3
<1>4. CASE what = "updates"
  BY <1>1, <1>2, <1>4
<1>5. CASE what = "admin"
  BY <1>1, <1>2, <1>5
<1>6. CASE what = "faults"
  BY <1>1, <1>2, <1>6
<1>7. QED
  BY <1>3, <1>4, <1>5, <1>6, Zenon

\* A requeue to the end begins: there is an id for its copy.
LEMMA BeginStep ==
    ASSUME DelayInv, NEW m \in Msgs, NEW t, RequeueToEnd(m, t)
    PROVE  DelayInv'
<1> USE DEF copies, disk, history, channel
<1>1. /\ inFlight[m] # Absent /\ req[m].at = "idle" /\ t \in now + 1 .. left.time /\ Spend("copies")
      /\ next + Cardinality(Begun) <= MaxCopies
      /\ req' = [req EXCEPT ![m] = [at |-> "begun", ts |-> t, copy |-> Absent, owns |-> TRUE]]
      /\ UNCHANGED <<now, copies, leader, replica, disk, channel, scan, update, drain, history>>
  BY Zenon DEF RequeueToEnd, Begun
<1>2. now \in Nat /\ next \in Nat /\ req \in [Msgs -> Requester]
  BY DelayQueueAssumption DEF DelayInv, TypeOK
<1>3. t \in Nat /\ t > now
  BY <1>1, <1>2
<1>4. /\ req' \in [Msgs -> Requester] /\ req'[m].at = "begun" /\ req'[m].ts = t
      /\ \A n \in Msgs \ {m} : req'[n] = req[n]
  BY <1>1, <1>2, <1>3, Zenon DEF Requester
<1>5. TypeOK'
  <2>1. left' \in [msgs : 0 .. NumMsgs, time : Nat, copies : Nat, updates : Nat, admin : Nat, faults : Nat]
    BY <1>1, SpendType, Zenon DEF DelayInv
  <2>2. QED
    BY <1>1, <1>4, <2>1, ZenonT(60) DEF DelayInv, TypeOK
<1>6. RequestInv'
  <2>1. Begun' = Begun \cup {m} /\ m \notin Begun /\ Begun \in SUBSET Msgs
    BY <1>1, <1>4 DEF Begun
  <2>2. Cardinality(Begun') = Cardinality(Begun) + 1 /\ Cardinality(Begun) \in Nat
    BY <2>1, MsgsFinite, Zenon
  <2>3. next + Cardinality(Begun') <= MaxCopies + 1
    BY <1>1, <1>2, <2>2, DelayQueueAssumption
  <2>4. \A n \in Msgs : req'[n].at # "idle" => req'[n].ts > now
    BY <1>3, <1>4, Zenon DEF DelayInv, RequestInv
  <2>5. \A n \in Msgs : req'[n].at \in {"written", "synced"} => n # m /\ req'[n] = req[n]
    BY <1>4, Zenon
  <2>6. ASSUME NEW n \in Msgs, req'[n].at \in {"written", "synced"}
        PROVE  /\ req[n].copy \in Copies /\ req[n].copy < next
               /\ orig[req[n].copy] = n /\ ts[req[n].copy] = req[n].ts
               /\ n \in emptied \/ leader.val[req[n].copy] # Absent
    BY <2>5, <2>6, Zenon DEF DelayInv, RequestInv
  <2>7. QED
    BY <1>1, <2>3, <2>4, <2>5, <2>6, ZenonT(60) DEF RequestInv
<1>7. QueueInv'
  <2>1. \A n \in Msgs : req'[n].at = "written" => req[n].at = "written"
    BY <1>4, Zenon
  <2>2. QED
    BY <1>1, <2>1, Zenon DEF DelayInv, QueueInv
<1>8. StoreInv' /\ UpdateInv' /\ CountCovers'
  <2>1. StoreInv'
    BY <1>1, Zenon DEF DelayInv, StoreInv, Stored
  <2>2. UpdateInv'
    BY <1>1, Zenon DEF DelayInv, UpdateInv, EarlierKey
  <2>3. CountCovers'
    BY <1>1, Zenon DEF DelayInv, CountCovers, Stored
  <2>4. QED
    BY <2>1, <2>2, <2>3, Zenon
<1>9. HeldInv' /\ KeptInv'
  <2>1. HeldInv'
    BY <1>1, Zenon DEF DelayInv, HeldInv, DueCopy
  <2>2. KeptInv'
    BY <1>1, Zenon DEF DelayInv, KeptInv, Kept, Stored
  <2>3. QED
    BY <2>1, <2>2, Zenon
<1>10. PlaceInv'
  <2>1. Held' = Held
    BY <1>1, Zenon DEF Held
  <2>2. ASSUME OnePlace PROVE OnePlace'
    <3>1. \A n \in Msgs \ {m} : Fresh(n) => Fresh(n)'
      BY <1>1, <1>4, Zenon DEF Fresh
    <3>2. (\A i \in travelling : i.msg \in Msgs \ {m}) /\ unread \subseteq Msgs \ {m}
      BY <1>1, <2>2, ItemType, ZenonT(60) DEF DelayInv, TypeOK, OnePlace
    <3>3. QED
      BY <1>1, <2>2, <3>1, <3>2, Zenon DEF OnePlace
  <2>3. QED
    BY <1>1, <2>1, <2>2, Zenon DEF DelayInv, PlaceInv
<1>11. QED
  BY <1>5, <1>6, <1>7, <1>8, <1>9, <1>10, ZenonT(60) DEF DelayInv

\* A copy is put: it gets a new id, so what is known of the others stays.
LEMMA PutStep ==
    ASSUME DelayInv, NEW m \in Msgs, PutDelayMessage(m)
    PROVE  DelayInv'
<1> USE DEF disk, history, channel
<1>1. /\ req[m].at = "begun" /\ \A n \in Msgs : req[n].at # "written"
      /\ next' = next + 1 /\ orig' = [orig EXCEPT ![next] = m] /\ ts' = [ts EXCEPT ![next] = req[m].ts]
      /\ leader' = Put(leader, next, m, req[m].ts, next) /\ queue' = Append(queue, next)
      /\ req' = [req EXCEPT ![m].at = "written", ![m].copy = next]
      /\ UNCHANGED <<now, replica, received, inISR, channel, scan, update, drain, history, left>>
  BY Zenon DEF PutDelayMessage
<1>2. /\ now \in Nat /\ next \in 1 .. MaxCopies + 1 /\ next \in Nat /\ orig \in [Copies -> {0} \cup Msgs]
      /\ ts \in [Copies -> Nat] /\ leader \in Store /\ queue \in Seq(Copies) /\ req \in [Msgs -> Requester]
      /\ req[m].ts \in Nat /\ leader.val \in [Copies -> {Absent, Empty} \cup Copies] /\ leader.cnt \in Nat
      /\ received \in 0 .. Len(queue)
  <2>1. /\ now \in Nat /\ next \in 1 .. MaxCopies + 1 /\ orig \in [Copies -> {0} \cup Msgs]
        /\ ts \in [Copies -> Nat] /\ leader \in Store /\ queue \in Seq(Copies) /\ req \in [Msgs -> Requester]
        /\ received \in 0 .. Len(queue)
    BY Zenon DEF DelayInv, TypeOK
  <2>2. \A n \in 1 .. MaxCopies + 1 : n \in Nat
    OBVIOUS
  <2>3. req[m].ts \in Nat /\ leader.val \in [Copies -> {Absent, Empty} \cup Copies] /\ leader.cnt \in Nat
    BY <2>1, Zenon DEF Requester, Store
  <2>4. QED
    BY <2>1, <2>2, <2>3, Zenon
<1>3. next \in Copies
  <2>1. m \in Begun /\ Begun \in SUBSET Msgs
    BY <1>1, Zenon DEF Begun
  <2>2. Cardinality(Begun \ {m}) = Cardinality(Begun) - 1 /\ Cardinality(Begun \ {m}) \in Nat /\ Cardinality(Begun) \in Nat
    <3>1. Begun \ {m} \in SUBSET Msgs
      BY <2>1, Zenon
    <3>2. QED
      BY <2>1, <3>1, MsgsFinite, Zenon
  <2>3. next <= MaxCopies
    BY <1>2, <2>2, DelayQueueAssumption DEF DelayInv, RequestInv
  <2>4. QED
    BY <1>2, <2>3, DelayQueueAssumption DEF Copies
<1>4. /\ orig' \in [Copies -> {0} \cup Msgs] /\ orig'[next] = m /\ ts' \in [Copies -> Nat] /\ ts'[next] = req[m].ts
      /\ \A c \in Copies : c < next => orig'[c] = orig[c] /\ ts'[c] = ts[c]
  BY <1>1, <1>2, <1>3 DEF Copies
<1>5. /\ leader' \in Store /\ leader'.val = [leader.val EXCEPT ![next] = next]
      /\ Stored(leader') = Stored(leader) \cup {next} /\ leader'.index \subseteq leader.index \cup {m}
      /\ leader'.cnt = IF next \in Stored(leader) THEN leader.cnt ELSE leader.cnt + 1
  <2>1. With(leader, leader', next, m, next)
    BY <1>1, <1>2, <1>3, PutStore, ZenonT(60)
  <2>2. QED
    BY <2>1, Zenon DEF With
<1>20. \A c \in Copies : c < next => c < next'
  <2>1. \A c \in Copies : c \in Nat
    BY DEF Copies
  <2>2. QED
    BY <1>1, <1>2, <2>1
<1>6. \A c \in Stored(leader) : c \in Copies /\ c < next
  <2>1. \A c \in Copies : c >= next => leader.val[c] = Absent
    BY Zenon DEF DelayInv, StoreInv
  <2>2. \A c \in Stored(leader) : c \in Copies /\ ~(c >= next)
    BY <2>1, Zenon DEF Stored
  <2>3. QED
    BY <1>2, <2>2 DEF Copies
<1>7. /\ req' \in [Msgs -> Requester] /\ req'[m].at = "written" /\ req'[m].ts = req[m].ts /\ req'[m].copy = next
      /\ \A n \in Msgs \ {m} : req'[n] = req[n]
  BY <1>1, <1>2, <1>3, ZenonT(60) DEF Requester
<1>8. /\ queue' \in Seq(Copies) /\ Len(queue') = Len(queue) + 1 /\ Len(queue) \in Nat
      /\ \A i \in 1 .. Len(queue') : IF i = Len(queue) + 1 THEN queue'[i] = next ELSE i \in 1 .. Len(queue) /\ queue'[i] = queue[i]
  BY <1>1, <1>2, <1>3
<1>9. TypeOK'
  <2>1. next' \in 1 .. MaxCopies + 1
    BY <1>1, <1>3, DelayQueueAssumption DEF Copies
  <2>2. received' \in 0 .. Len(queue')
    BY <1>1, <1>2, <1>8
  <2>3. QED
    BY <1>1, <1>4, <1>5, <1>7, <1>8, <2>1, <2>2, ZenonT(60) DEF DelayInv, TypeOK
<1>10. StoreInv'
  <2>1. \A c \in Copies : leader'.val[c] \in {Absent, c} /\ (c >= next' => leader'.val[c] = Absent)
    BY <1>1, <1>2, <1>3, <1>5 DEF DelayInv, StoreInv, Copies
  <2>2. \A c \in Copies : c < next' => orig'[c] \in Msgs
    <3>1. \A c \in Copies : c < next' => c < next \/ c = next
      BY <1>1, <1>2 DEF Copies
    <3>2. QED
      BY <1>4, <3>1, Zenon DEF DelayInv, StoreInv
  <2>3. \A n \in leader'.index : \E c \in Stored(leader') : orig'[c] = n
    BY <1>4, <1>5, <1>6, Zenon DEF DelayInv, StoreInv
  <2>4. QED
    BY <2>1, <2>2, <2>3, ZenonT(60) DEF StoreInv
<1>11. RequestInv'
  <2>1. next' + Cardinality(Begun') <= MaxCopies + 1
    <3>1. Begun' = Begun \ {m} /\ m \in Begun /\ Begun \in SUBSET Msgs
      BY <1>1, <1>7, Zenon DEF Begun
    <3>2. Cardinality(Begun') = Cardinality(Begun) - 1 /\ Cardinality(Begun) \in Nat
      BY <3>1, MsgsFinite, Zenon
    <3>3. QED
      BY <1>1, <1>2, <3>2, DelayQueueAssumption DEF DelayInv, RequestInv
  <2>2. \A n \in Msgs : req'[n].at # "idle" => req'[n].ts > now
    BY <1>1, <1>7, Zenon DEF DelayInv, RequestInv
  <2>3. ASSUME NEW n \in Msgs, req'[n].at \in {"written", "synced"}
        PROVE  /\ req'[n].copy \in Copies /\ req'[n].copy < next'
               /\ orig'[req'[n].copy] = n /\ ts'[req'[n].copy] = req'[n].ts
               /\ n \in emptied \/ leader'.val[req'[n].copy] # Absent
    <3>1. CASE n = m
      <4>1. next < next'
        BY <1>1, <1>2
      <4>2. leader'.val[next] # Absent
        BY <1>2, <1>3, <1>5, NotCopies
      <4>3. QED
        BY <1>3, <1>4, <1>7, <3>1, <4>1, <4>2, ZenonT(60)
    <3>2. CASE n # m
      <4> DEFINE d == req[n].copy
      <4>1. req'[n] = req[n] /\ req[n].at \in {"written", "synced"}
        BY <1>7, <2>3, <3>2, Zenon
      <4>2. d \in Copies /\ d < next /\ orig[d] = n /\ ts[d] = req[n].ts /\ (n \in emptied \/ leader.val[d] # Absent)
        BY <4>1, Zenon DEF DelayInv, RequestInv
      <4>3. d < next' /\ orig'[d] = n /\ ts'[d] = req[n].ts
        BY <1>4, <1>20, <4>2, ZenonT(60)
      <4>4. leader'.val[d] = leader.val[d]
        BY <1>2, <1>5, <4>2 DEF Copies
      <4>5. QED
        BY <4>1, <4>2, <4>3, <4>4, ZenonT(60)
    <3>3. QED
      BY <3>1, <3>2, Zenon
  <2>4. QED
    BY <1>1, <2>1, <2>2, <2>3, ZenonT(60) DEF RequestInv
<1>12. QueueInv'
  <2>1. \A i \in 1 .. Len(queue) : queue[i] < next /\ queue[i] \in Copies
    BY <1>2 DEF DelayInv, QueueInv
  <2>2. \A i \in 1 .. Len(queue') : queue'[i] < next'
    BY <1>1, <1>2, <1>8, <2>1 DEF Copies
  <2>3. received' < Len(queue')
    BY <1>1, <1>2, <1>8
  <2>4. \A n \in Msgs : req'[n].at = "written" => n = m
    BY <1>1, <1>7, Zenon
  <2>5. QED
    BY <2>2, <2>3, <2>4, ZenonT(60) DEF QueueInv
<1>13. HeldInv'
  <2>1. \A c \in Copies : DueCopy(c) => DueCopy(c)' /\ orig'[c] = orig[c]
    BY <1>1, <1>2, <1>4 DEF DueCopy, Copies
  <2>2. (\A i \in travelling : i.copy # Original => i.copy \in Copies) /\ scan.found \subseteq Copies
    BY ItemType, Zenon DEF DelayInv, TypeOK
  <2>3. QED
    BY <1>1, <2>1, <2>2, ZenonT(60) DEF DelayInv, HeldInv
<1>14. KeptInv'
  <2>1. \A n : Kept(n) => Kept(n)'
    BY <1>1, <1>4, <1>5, <1>6, ZenonT(60) DEF Kept
  <2>2. QED
    BY <1>1, <2>1, Zenon DEF DelayInv, KeptInv
<1>15. UpdateInv'
  <2>1. update.held \subseteq Copies /\ update.key \in {Absent} \cup Copies
    BY Zenon DEF DelayInv, TypeOK
  <2>2. \A c \in update.held : c < next'
    BY <1>1, <1>2, <2>1 DEF DelayInv, UpdateInv, Copies
  <2>3. ASSUME update.at = "sent", update.key # Absent
        PROVE  update.key < next' /\ \A c \in update.held : ~EarlierKey(c, ts[update.key], update.key)'
    <3>1. update.key \in Copies /\ update.key < next
      BY <2>1, <2>3, Zenon DEF DelayInv, UpdateInv
    <3>2. update.key < next' /\ ts'[update.key] = ts[update.key]
      BY <1>4, <1>20, <3>1, Zenon
    <3>3. \A c \in update.held : ts'[c] = ts[c]
      BY <1>4, <2>1, Zenon DEF DelayInv, UpdateInv
    <3>4. \A c \in update.held : ~EarlierKey(c, ts[update.key], update.key)
      BY <2>3, Zenon DEF DelayInv, UpdateInv
    <3>5. QED
      BY <1>1, <3>2, <3>3, <3>4, Zenon DEF EarlierKey
  <2>4. QED
    BY <1>1, <2>2, <2>3, Zenon DEF DelayInv, UpdateInv
<1>16. PlaceInv'
  <2>1. Held' = Held
    BY <1>1, Zenon DEF Held
  <2>2. ASSUME OnePlace PROVE OnePlace'
    <3>1. ASSUME NEW n \in Msgs, Fresh(n) PROVE Fresh(n)'
      <4>1. n # m /\ req'[n].at = "idle"
        BY <1>1, <1>7, <3>1, Zenon DEF Fresh
      <4>2. \A c \in Copies : c < next' => c < next \/ c = next
        BY <1>1, <1>2 DEF Copies
      <4>3. \A c \in Copies : c < next' => orig'[c] # n
        BY <1>4, <3>1, <4>1, <4>2, ZenonT(60) DEF Fresh
      <4>4. QED
        BY <4>1, <4>3, Zenon DEF Fresh
    <3>2. (\A i \in travelling : i.msg \in Msgs) /\ unread \subseteq Msgs
      BY ItemType, Zenon DEF DelayInv, TypeOK
    <3>3. QED
      BY <1>1, <2>2, <3>1, <3>2, Zenon DEF OnePlace
  <2>3. QED
    BY <1>1, <2>1, <2>2, Zenon DEF DelayInv, PlaceInv
<1>17. CountCovers'
  <2>1. next \notin Stored(leader) /\ Stored(leader) \in SUBSET Copies
    BY <1>2, <1>6, StoredCopies
  <2>2. Cardinality(Stored(leader) \cup {next}) = Cardinality(Stored(leader)) + 1
    BY <1>3, <2>1, Counts, Zenon
  <2>3. leader'.cnt = Cardinality(Stored(leader'))
    BY <1>5, <2>1, <2>2, Zenon DEF DelayInv, CountCovers
  <2>4. QED
    BY <1>1, <2>3, Zenon DEF DelayInv, CountCovers, Stored
<1>18. QED
  BY <1>9, <1>10, <1>11, <1>12, <1>13, <1>14, <1>15, <1>16, <1>17, Zenon DEF DelayInv

\* The replica, the reports and the requests go on, and nothing else.
LEMMA SideStep ==
    ASSUME DelayInv, TypeOK', RequestInv', QueueInv', UpdateInv', replica'.cnt >= Cardinality(Stored(replica')),
           \A n \in Msgs : req[n].at = "idle" => req'[n].at = "idle",
           UNCHANGED <<now, copies, leader, channel, scan, drain, history>>
    PROVE  DelayInv'
<1> USE DEF copies, history, channel
<1>1. StoreInv'
  BY Zenon DEF DelayInv, StoreInv, Stored
<1>2. HeldInv'
  BY Zenon DEF DelayInv, HeldInv, DueCopy
<1>3. KeptInv'
  BY Zenon DEF DelayInv, KeptInv, Kept, Stored
<1>4. PlaceInv'
  <2>1. Held' = Held
    BY DEF Held
  <2>2. ASSUME OnePlace PROVE OnePlace'
    <3>1. \A n \in Msgs : Fresh(n) => Fresh(n)'
      BY Zenon DEF Fresh
    <3>2. (\A i \in travelling : i.msg \in Msgs) /\ unread \subseteq Msgs
      BY ItemType, Zenon DEF DelayInv, TypeOK
    <3>3. QED
      BY <2>2, <3>1, <3>2, Zenon DEF OnePlace
  <2>3. QED
    BY <2>1, <2>2, ZenonT(60) DEF DelayInv, PlaceInv
<1>5. CountCovers'
  BY Zenon DEF DelayInv, CountCovers, Stored
<1>6. QED
  BY <1>1, <1>2, <1>3, <1>4, <1>5, Zenon DEF DelayInv

\* The request of m is over, or gets on with its copy.
LEMMA RequestMoves ==
    ASSUME DelayInv, NEW m \in Msgs, req' \in [Msgs -> Requester], \A n \in Msgs \ {m} : req'[n] = req[n],
           req[m].at \notin {"idle", "begun"}, req'[m].at \notin {"begun", "written"},
           \/ req'[m].at = "idle"
           \/ req'[m].at = "failed" /\ req'[m].ts = req[m].ts
           \/ req[m].at = "written" /\ req'[m].at = "synced" /\ req'[m].ts = req[m].ts /\ req'[m].copy = req[m].copy,
           UNCHANGED <<now, next, orig, ts, leader, emptied>>
    PROVE  /\ RequestInv' /\ \A n \in Msgs : req[n].at = "idle" => req'[n].at = "idle"
           /\ \A n \in Msgs : req'[n].at = "written" => req[n].at = "written" /\ n # m
<1>1. Begun' = Begun
  BY DEF Begun
<1>2. \A n \in Msgs : req'[n].at # "idle" => req'[n].ts > now
  BY Zenon DEF DelayInv, RequestInv
<1>3. \A n \in Msgs : req'[n].at \in {"written", "synced"} =>
         req[n].at \in {"written", "synced"} /\ req'[n].copy = req[n].copy /\ req'[n].ts = req[n].ts
  OBVIOUS
<1>4. RequestInv'
  BY <1>1, <1>2, <1>3, ZenonT(60) DEF DelayInv, RequestInv
<1>5. QED
  BY <1>4

\* The replica writes a copy.
LEMMA PutOnReplicaStep ==
    ASSUME DelayInv, NEW m \in Msgs, req[m].at = "written"
    PROVE  /\ PutOnReplica(req[m].copy) \in Store
           /\ PutOnReplica(req[m].copy).cnt >= Cardinality(Stored(PutOnReplica(req[m].copy)))
<1> DEFINE c == req[m].copy
           r == Put(replica, c, orig[c], ts[c], c)
<1>1. c \in Copies /\ orig[c] \in Msgs /\ ts[c] \in Nat
  BY ZenonT(60) DEF DelayInv, RequestInv, TypeOK
<1>2. replica \in Store /\ replica.cnt >= Cardinality(Stored(replica))
  BY DEF DelayInv, TypeOK, CountCovers
<1> HIDE DEF c
<1>3. r \in Store /\ r.cnt >= Cardinality(Stored(r))
  BY <1>1, <1>2, PutCounts, Zenon
<1>4. c \in {Empty} \cup Copies
  BY <1>1, Zenon
<1> HIDE DEF r
<1>5. [r EXCEPT !.buf = c] \in Store /\ [r EXCEPT !.buf = c].cnt >= Cardinality(Stored([r EXCEPT !.buf = c]))
  BY <1>3, <1>4, SetBuf, Zenon
<1>6. PutOnReplica(c) = [r EXCEPT !.buf = c]
  BY Zenon DEF PutOnReplica, r
<1>7. PutOnReplica(c) \in Store /\ PutOnReplica(c).cnt >= Cardinality(Stored(PutOnReplica(c)))
  BY <1>5, <1>6, Zenon
<1>8. QED
  BY <1>7, Zenon DEF c

LEMMA UpdateStays ==
    ASSUME DelayInv, UNCHANGED <<next, ts, update>>
    PROVE  UpdateInv'
BY Zenon DEF DelayInv, UpdateInv, EarlierKey

\* A message is written by the replica.
LEMMA ReplicateStep ==
    ASSUME DelayInv, NEW m \in Msgs, Replicate(m)
    PROVE  DelayInv'
<1> USE DEF copies, disk, history
<1>1. /\ req[m].at = "written" /\ req' = [req EXCEPT ![m].at = "synced"]
      /\ IF inISR
         THEN replica' = PutOnReplica(req[m].copy) /\ received' = Len(queue)
         ELSE UNCHANGED <<replica, received>>
      /\ UNCHANGED <<now, copies, leader, queue, inISR, channel, scan, update, drain, history, left>>
  BY Zenon DEF Replicate
<1>2. req \in [Msgs -> Requester] /\ queue \in Seq(Copies) /\ received \in 0 .. Len(queue)
  BY DEF DelayInv, TypeOK
<1>3. /\ req' \in [Msgs -> Requester] /\ \A n \in Msgs \ {m} : req'[n] = req[n]
      /\ req'[m].at = "synced" /\ req'[m].ts = req[m].ts /\ req'[m].copy = req[m].copy
  BY <1>1, <1>2, Zenon DEF Requester
<1>4. replica' \in Store /\ replica'.cnt >= Cardinality(Stored(replica'))
  <2>1. replica \in Store /\ replica.cnt >= Cardinality(Stored(replica))
    BY DEF DelayInv, TypeOK, CountCovers
  <2>2. QED
    BY <1>1, <2>1, PutOnReplicaStep, ZenonT(60)
<1>5. received' \in 0 .. Len(queue) /\ Len(queue) \in Nat
  BY <1>1, <1>2
<1>6. TypeOK'
  BY <1>1, <1>3, <1>4, <1>5, ZenonT(60) DEF DelayInv, TypeOK, channel
<1>7. /\ RequestInv' /\ \A n \in Msgs : req[n].at = "idle" => req'[n].at = "idle"
      /\ \A n \in Msgs : req'[n].at = "written" => req[n].at = "written" /\ n # m
  BY <1>1, <1>3, RequestMoves, Zenon
<1>8. QueueInv'
  <2>1. \A n \in Msgs : req'[n].at # "written"
    BY <1>1, <1>7, Zenon DEF DelayInv, QueueInv
  <2>2. QED
    BY <1>1, <2>1, Zenon DEF DelayInv, QueueInv
<1>9. UpdateInv'
  BY <1>1, UpdateStays, Zenon
<1>10. QED
  BY <1>1, <1>4, <1>6, <1>7, <1>8, <1>9, SideStep, ZenonT(60)

\* The first n elements of a sequence.
LEMMA FrontOf ==
    ASSUME NEW q \in Seq(Copies), NEW n \in 0 .. Len(q)
    PROVE  SubSeq(q, 1, n) \in Seq(Copies) /\ Len(SubSeq(q, 1, n)) = n /\ \A i \in 1 .. n : SubSeq(q, 1, n)[i] = q[i]
<1>1. n \in Nat /\ n \in Int /\ 1 \in Int
  OBVIOUS
<1>2. \A i \in 1 .. n : q[i] \in Copies
  OBVIOUS
<1>3. SubSeq(q, 1, n) \in Seq(Copies)
  BY <1>1, <1>2, SubSeqProperties, Zenon
<1>4. Len(SubSeq(q, 1, n)) = IF 1 <= n THEN n - 1 + 1 ELSE 0
  BY <1>1, <1>2, SubSeqProperties
<1>5. \A i \in 1 .. n - 1 + 1 : SubSeq(q, 1, n)[i] = q[1 + i - 1]
  BY <1>1, <1>2, SubSeqProperties
<1>6. QED
  BY <1>1, <1>3, <1>4, <1>5

\* The call to the replica fails: the copy stays in the store of the leader, and leaves
\* the queue unless the leader goes on alone.
LEMMA ReplicateFailsStep ==
    ASSUME DelayInv, NEW m \in Msgs, NEW applied \in BOOLEAN, NEW alone \in BOOLEAN, ReplicateFails(m, applied, alone)
    PROVE  DelayInv'
<1> USE DEF copies, disk, history
<1>1. /\ req[m].at = "written" /\ Spend("faults")
      /\ replica' = (IF applied THEN PutOnReplica(req[m].copy) ELSE replica)
      /\ req' = [req EXCEPT ![m].at = IF alone THEN "synced" ELSE "failed"]
      /\ queue' = (IF alone THEN queue ELSE SubSeq(queue, 1, Len(queue) - 1))
      /\ inISR' = ~(applied \/ alone)
      /\ UNCHANGED <<now, copies, leader, received, channel, scan, update, drain, history>>
  BY Zenon DEF ReplicateFails
<1>2. req \in [Msgs -> Requester] /\ queue \in Seq(Copies) /\ received \in 0 .. Len(queue)
  BY Zenon DEF DelayInv, TypeOK
<1>3. /\ req' \in [Msgs -> Requester] /\ \A n \in Msgs \ {m} : req'[n] = req[n]
      /\ req'[m].at = (IF alone THEN "synced" ELSE "failed") /\ req'[m].ts = req[m].ts /\ req'[m].copy = req[m].copy
  BY <1>1, <1>2, ZenonT(60) DEF Requester
<1>4. replica' \in Store /\ replica'.cnt >= Cardinality(Stored(replica'))
  <2>1. replica \in Store /\ replica.cnt >= Cardinality(Stored(replica))
    BY Zenon DEF DelayInv, TypeOK, CountCovers
  <2>2. QED
    BY <1>1, <2>1, PutOnReplicaStep, Zenon
<1>5. /\ queue' \in Seq(Copies) /\ received' \in 0 .. Len(queue')
      /\ \A i \in 1 .. Len(queue') : i \in 1 .. Len(queue) /\ queue'[i] = queue[i]
  <2>1. received < Len(queue) /\ Len(queue) \in Nat
    <3>1. received < Len(queue)
      BY <1>1, Zenon DEF DelayInv, QueueInv
    <3>2. QED
      BY <1>2, <3>1
  <2>2. CASE alone
    BY <1>1, <1>2, <2>2, ZenonT(60)
  <2>3. CASE ~alone
    <3>1. Len(queue) - 1 \in 0 .. Len(queue)
      BY <1>2, <2>1
    <3>2. queue' = SubSeq(queue, 1, Len(queue) - 1)
      BY <1>1, <2>3, Zenon
    <3>3. queue' \in Seq(Copies) /\ Len(queue') = Len(queue) - 1 /\ \A i \in 1 .. Len(queue) - 1 : queue'[i] = queue[i]
      BY <1>2, <2>1, <3>1, <3>2, FrontOf, ZenonT(60)
    <3>4. QED
      BY <1>1, <1>2, <2>1, <3>3
  <2>4. QED
    BY <2>2, <2>3, Zenon
<1>6. TypeOK'
  <2>1. left' \in [msgs : 0 .. NumMsgs, time : Nat, copies : Nat, updates : Nat, admin : Nat, faults : Nat]
    BY <1>1, SpendType, Zenon DEF DelayInv
  <2>2. inISR' \in BOOLEAN
    BY <1>1, Zenon
  <2>3. QED
    BY <1>1, <1>3, <1>4, <1>5, <2>1, <2>2, ZenonT(60) DEF DelayInv, TypeOK, channel
<1>7. /\ RequestInv' /\ \A n \in Msgs : req[n].at = "idle" => req'[n].at = "idle"
      /\ \A n \in Msgs : req'[n].at = "written" => req[n].at = "written" /\ n # m
  <2>1. CASE alone
    <3>1. /\ req[m].at = "written" /\ req'[m].at = "synced" /\ req' \in [Msgs -> Requester]
          /\ UNCHANGED <<now, next, orig, ts, leader, emptied>>
      BY <1>1, <1>3, <2>1, ZenonT(60)
    <3>2. QED
      BY <1>3, <3>1, RequestMoves
  <2>2. CASE ~alone
    <3>1. /\ req[m].at = "written" /\ req'[m].at = "failed" /\ req' \in [Msgs -> Requester]
          /\ UNCHANGED <<now, next, orig, ts, leader, emptied>>
      BY <1>1, <1>3, <2>2, Zenon
    <3>2. QED
      BY <1>3, <3>1, RequestMoves
  <2>3. QED
    BY <2>1, <2>2, ZenonT(60)
<1>8. QueueInv'
  <2>1. \A n \in Msgs : req'[n].at # "written"
    BY <1>1, <1>7, Zenon DEF DelayInv, QueueInv
  <2>2. QED
    BY <1>1, <1>5, <2>1, Zenon DEF DelayInv, QueueInv
<1>9. UpdateInv'
  BY <1>1, UpdateStays, Zenon
<1>10. QED
  BY <1>1, <1>4, <1>6, <1>7, <1>8, <1>9, SideStep, ZenonT(60)

\* A request is over (NotInFlight, RequeueToMemory).
LEMMA EndRequestStep ==
    ASSUME DelayInv, NEW m \in Msgs, req[m].at \in {"synced", "failed"}, req' = [req EXCEPT ![m] = NoRequest],
           UNCHANGED <<now, copies, leader, replica, disk, channel, scan, update, drain, history, left>>
    PROVE  DelayInv'
<1> USE DEF copies, disk, history
<1>1. req \in [Msgs -> Requester]
  BY Zenon DEF DelayInv, TypeOK
<1>2. req' \in [Msgs -> Requester] /\ (\A n \in Msgs \ {m} : req'[n] = req[n]) /\ req'[m].at = "idle"
  BY <1>1, Zenon DEF Requester, NoRequest
<1>3. TypeOK'
  BY <1>2, ZenonT(60) DEF DelayInv, TypeOK, channel
<1>4. /\ RequestInv' /\ \A n \in Msgs : req[n].at = "idle" => req'[n].at = "idle"
      /\ \A n \in Msgs : req'[n].at = "written" => req[n].at = "written" /\ n # m
  BY <1>2, RequestMoves, Zenon
<1>5. QueueInv'
  BY <1>4, Zenon DEF DelayInv, QueueInv
<1>6. UpdateInv' /\ replica'.cnt >= Cardinality(Stored(replica'))
  BY UpdateStays, Zenon DEF DelayInv, CountCovers
<1>7. QED
  BY <1>3, <1>4, <1>5, <1>6, SideStep, ZenonT(60)

-----------------------------------------------------------------------------
(* The scan.                                                               *)

\* The scan looks at the store, and caches the oldest time (Peek, CacheOldest, EndScan).
LEMMA ScanStep ==
    ASSUME DelayInv, leader' \in Store, leader'.val = leader.val, leader'.index = leader.index, leader'.cnt = leader.cnt,
           scan' \in [at : {"idle", "peeked", "adding"}, found : SUBSET Copies, oldest : Nat],
           \A c \in scan'.found : DueCopy(c), delayedConfirmedMsgs' \subseteq Msgs,
           UNCHANGED <<now, copies, replica, disk, unread, travelling, confirmed, inFlight, waitingRequeueChanMsgs,
                       deferredFromDelay, req, update, drain, history, left>>
    PROVE  DelayInv'
<1> USE DEF copies, disk, history
<1>1. TypeOK'
  BY Zenon DEF DelayInv, TypeOK
<1>2. Stored(leader') = Stored(leader)
  BY Zenon DEF Stored
<1>3. StoreInv'
  BY <1>2, Zenon DEF DelayInv, StoreInv
<1>4. RequestInv'
  BY Zenon DEF DelayInv, RequestInv, Begun
<1>5. QueueInv'
  BY Zenon DEF DelayInv, QueueInv
<1>6. HeldInv'
  BY Zenon DEF DelayInv, HeldInv, DueCopy
<1>7. KeptInv'
  BY <1>2, Zenon DEF DelayInv, KeptInv, Kept
<1>8. UpdateInv'
  BY UpdateStays, Zenon
<1>9. PlaceInv'
  <2>1. Held' = Held
    BY DEF Held
  <2>2. OnePlace => OnePlace'
    BY ZenonT(60) DEF OnePlace, Fresh
  <2>3. QED
    BY <2>1, <2>2, ZenonT(60) DEF DelayInv, PlaceInv
<1>10. CountCovers'
  BY <1>2, Zenon DEF DelayInv, CountCovers, Stored
<1>11. QED
  BY <1>1, <1>3, <1>4, <1>5, <1>6, <1>7, <1>8, <1>9, <1>10, ZenonT(60) DEF DelayInv

LEMMA PeekStep ==
    ASSUME DelayInv, Peek
    PROVE  DelayInv'
<1> USE DEF copies, disk, history, channel
<1> DEFINE found == Decoded(leader, Due(leader))
           oldest == IF Stored(leader) = {} THEN 0 ELSE ts[Least(Stored(leader))]
<1>1. /\ scan' = [at |-> "peeked", found |-> found, oldest |-> oldest]
      /\ UNCHANGED <<now, copies, leader, replica, disk, channel, req, update, drain, history, left>>
  BY Zenon DEF Peek
<1>2. ts \in [Copies -> Nat] /\ leader \in Store /\ next \in Nat /\ delayedConfirmedMsgs \subseteq Msgs
  BY DelayQueueAssumption DEF DelayInv, TypeOK
<1>3. found \in SUBSET Copies /\ \A c \in found : DueCopy(c)
  <2>1. \A c \in Due(leader) : c \in Copies /\ leader.val[c] # Absent /\ ts[c] <= now
    BY Zenon DEF Due, Stored
  <2>2. \A c \in Due(leader) : leader.val[c] = c /\ ~(c >= next)
    BY <2>1, Zenon DEF DelayInv, StoreInv
  <2>3. \A c \in found : c \in Due(leader)
    BY <2>2, ZenonT(60) DEF Decoded
  <2>4. \A c \in found : c \in Copies /\ DueCopy(c)
    <3>1. \A c \in Copies : ~(c >= next) => c < next
      BY <1>2 DEF Copies
    <3>2. QED
      BY <2>1, <2>2, <2>3, <3>1, ZenonT(60) DEF DueCopy
  <2>5. QED
    BY <2>4, Zenon
<1>4. oldest \in Nat
  BY <1>2, LeastIsFirst, StoredCopies, Zenon
<1> HIDE DEF found, oldest
<1>5. /\ scan' \in [at : {"idle", "peeked", "adding"}, found : SUBSET Copies, oldest : Nat]
      /\ \A c \in scan'.found : DueCopy(c)
  BY <1>1, <1>3, <1>4, Zenon
<1>6. QED
  BY <1>1, <1>2, <1>5, ScanStep, Zenon

LEMMA CacheOldestStep ==
    ASSUME DelayInv, CacheOldest
    PROVE  DelayInv'
<1> USE DEF copies, disk, history, channel
<1>1. /\ scan' = [scan EXCEPT !.at = "adding"]
      /\ leader' = [leader EXCEPT !.oldest = IF scan.oldest > 0 THEN scan.oldest ELSE @]
      /\ UNCHANGED <<now, copies, replica, disk, channel, req, update, drain, history, left>>
  BY Zenon DEF CacheOldest
<1>2. /\ scan \in [at : {"idle", "peeked", "adding"}, found : SUBSET Copies, oldest : Nat]
      /\ leader \in Store /\ delayedConfirmedMsgs \subseteq Msgs /\ \A c \in scan.found : DueCopy(c)
  BY Zenon DEF DelayInv, TypeOK, HeldInv
<1>3. leader' \in Store /\ leader'.val = leader.val /\ leader'.index = leader.index /\ leader'.cnt = leader.cnt
  BY <1>1, <1>2, Zenon DEF Store
<1>4. /\ scan' \in [at : {"idle", "peeked", "adding"}, found : SUBSET Copies, oldest : Nat]
      /\ \A c \in scan'.found : DueCopy(c)
  BY <1>1, <1>2, Zenon
<1>5. QED
  BY <1>1, <1>2, <1>3, <1>4, ScanStep, ZenonT(60)

LEMMA EndScanStep ==
    ASSUME DelayInv, EndScan
    PROVE  DelayInv'
<1> USE DEF copies, disk, history, channel
<1>1. /\ scan' = NoScan /\ delayedConfirmedMsgs' = {}
      /\ UNCHANGED <<now, copies, leader, replica, disk, unread, travelling, confirmed, inFlight, waitingRequeueChanMsgs,
                     deferredFromDelay, req, update, drain, history, left>>
  BY Zenon DEF EndScan
<1>2. leader \in Store
  BY Zenon DEF DelayInv, TypeOK
<1>3. /\ scan' \in [at : {"idle", "peeked", "adding"}, found : SUBSET Copies, oldest : Nat]
      /\ \A c \in scan'.found : DueCopy(c)
  BY <1>1, Zenon DEF NoScan
<1>4. delayedConfirmedMsgs' \subseteq Msgs
  BY <1>1, Zenon
<1>5. QED
  BY <1>1, <1>2, <1>3, <1>4, ScanStep, ZenonT(60)

\* The scan adds a copy whose original is not waiting or in flight: nothing is delivered
\* of that message yet.
LEMMA AddPeekedStep ==
    ASSUME DelayInv, AddPeeked
    PROVE  DelayInv'
<1> USE DEF copies, disk, history
<1> DEFINE c == Least(scan.found)
           m == orig[c]
<1>1. /\ scan.found # {} /\ scan' = [scan EXCEPT !.found = @ \ {c}]
      /\ \/ UNCHANGED <<travelling, waitingRequeueChanMsgs, deferredFromDelay>>
         \/ /\ inFlight[m] = Absent /\ m \notin waitingRequeueChanMsgs
            /\ travelling' = travelling \cup {Queued(m, c)} /\ waitingRequeueChanMsgs' = waitingRequeueChanMsgs \cup {m}
            /\ deferredFromDelay' = deferredFromDelay + 1
      /\ UNCHANGED <<now, copies, leader, replica, disk, unread, confirmed, inFlight, delayedConfirmedMsgs, req, update,
                     drain, history, left>>
  BY Zenon DEF AddPeeked
<1>2. /\ scan \in [at : {"idle", "peeked", "adding"}, found : SUBSET Copies, oldest : Nat]
      /\ ts \in [Copies -> Nat] /\ leader \in Store /\ delayedConfirmedMsgs \subseteq Msgs
      /\ deferredFromDelay \in Int /\ \A d \in scan.found : DueCopy(d)
  BY Zenon DEF DelayInv, TypeOK, HeldInv
<1>3. c \in scan.found /\ c \in Copies /\ DueCopy(c)
  <2>1. scan.found \in SUBSET Copies
    BY <1>2, Zenon
  <2>2. Least(scan.found) \in scan.found
    BY <1>1, <1>2, <2>1, LeastIsFirst, ZenonT(60)
  <2>3. QED
    BY <1>1, <1>2, <2>1, <2>2, Zenon
<1>4. m \in Msgs /\ c < next
  BY <1>3 DEF DelayInv, StoreInv, DueCopy
<1>5. /\ scan' \in [at : {"idle", "peeked", "adding"}, found : SUBSET Copies, oldest : Nat]
      /\ \A d \in scan'.found : DueCopy(d)
  BY <1>1, <1>2, Zenon
<1>6. m = orig[c]
  OBVIOUS
<1> HIDE DEF c, m
<1>7. CASE UNCHANGED <<travelling, waitingRequeueChanMsgs, deferredFromDelay>>
  BY <1>1, <1>2, <1>5, <1>7, ScanStep, ZenonT(60)
<1>8. CASE /\ inFlight[m] = Absent /\ m \notin waitingRequeueChanMsgs
           /\ travelling' = travelling \cup {Queued(m, c)} /\ waitingRequeueChanMsgs' = waitingRequeueChanMsgs \cup {m}
           /\ deferredFromDelay' = deferredFromDelay + 1
  <2>1. PICK j : j = Queued(m, c)
    OBVIOUS
  <2>2. j \in Travelling /\ j.msg = m /\ j.copy = c /\ j.at = "queued" /\ travelling' = travelling \cup {j}
    <3>1. c \in {Original} \cup Copies
      BY <1>3, Zenon
    <3>2. QED
      BY <1>4, <1>8, <2>1, <3>1, QueuedType, ZenonT(60)
  <2>3. TypeOK'
    <3>1. travelling' \subseteq Travelling /\ waitingRequeueChanMsgs' \subseteq Msgs /\ deferredFromDelay' \in Int
      <4>1. deferredFromDelay' \in Int
        BY <1>2, <1>8
      <4>2. QED
        BY <1>4, <1>8, <2>2, <4>1, ZenonT(60) DEF DelayInv, TypeOK
    <3>2. QED
      BY <1>1, <1>5, <3>1, ZenonT(60) DEF DelayInv, TypeOK
  <2>4. StoreInv' /\ RequestInv' /\ QueueInv' /\ UpdateInv' /\ CountCovers'
    BY <1>1, StoresStay, Zenon DEF DelayInv
  <2>5. HeldInv'
    <3>1. \A d : DueCopy(d) => DueCopy(d)'
      BY <1>1, Zenon DEF DueCopy
    <3>2. \A i \in travelling' : i.copy # Original => i.at # "delayed" /\ DueCopy(i.copy) /\ orig[i.copy] = i.msg
      BY <1>3, <1>6, <2>2, ZenonT(60) DEF DelayInv, HeldInv
    <3>3. QED
      BY <1>1, <1>5, <3>1, <3>2, ZenonT(60) DEF DelayInv, HeldInv
  <2>6. KeptInv'
    <3>1. \A n : Kept(n) => Kept(n)'
      BY <1>1, KeptStays, Zenon
    <3>2. QED
      BY <1>1, <2>2, <3>1, ZenonT(60) DEF DelayInv, KeptInv
  <2>7. PlaceInv'
    <3>1. ASSUME OnePlace PROVE OnePlace'
      <4>1. ~Fresh(m)
        BY <1>3, <1>4, <1>6, Zenon DEF Fresh
      <4>2. (\A i \in travelling : i.msg # m) /\ m \notin unread
        BY <1>8, <3>1, <4>1, Zenon DEF OnePlace
      <4>3. \A n : Fresh(n) => Fresh(n)'
        BY <1>1, Zenon DEF Fresh
      <4>4. \A x, y \in travelling' : x.msg = y.msg => x = y
        BY <2>2, <3>1, <4>2, Zenon DEF OnePlace
      <4>5. \A x \in travelling' : inFlight[x.msg] = Absent /\ x.msg \notin unread
        BY <1>8, <2>2, <3>1, <4>2, ZenonT(60) DEF OnePlace
      <4>6. \A x \in travelling' : x.msg \in waitingRequeueChanMsgs' \/ (x.copy = Original /\ Fresh(x.msg)')
        BY <1>8, <2>2, <3>1, <4>3, ZenonT(60) DEF OnePlace
      <4>7. \A n \in unread : inFlight[n] = Absent /\ Fresh(n)'
        BY <3>1, <4>3, Zenon DEF OnePlace
      <4>8. QED
        BY <1>1, <4>4, <4>5, <4>6, <4>7, ZenonT(60) DEF OnePlace
    <3>2. ASSUME OnePlace PROVE c \notin Held
      <4>1. \A i \in travelling : i.copy = c => i.msg = m
        BY <1>3, <1>6, NotCopies, ZenonT(60) DEF DelayInv, HeldInv
      <4>2. ~Fresh(m)
        BY <1>3, <1>4, <1>6, Zenon DEF Fresh
      <4>3. \A i \in travelling : i.msg # m
        BY <1>8, <3>2, <4>2, Zenon DEF OnePlace
      <4>4. \A n \in Msgs : inFlight[n] = c => n = m
        BY <1>3, <1>6, Zenon DEF DelayInv, HeldInv
      <4>5. \A n \in Msgs : inFlight[n] # c
        BY <1>3, <1>8, <4>4, NotCopies, ZenonT(60)
      <4>6. QED
        BY <4>1, <4>3, <4>5, ZenonT(60) DEF Held
    <3>3. Held' \cap Copies = (Held \cap Copies) \cup {c}
      BY <1>1, <1>3, <2>2, ZenonT(60) DEF Held
    <3>4. ASSUME OnePlace PROVE Cardinality((Held \cap Copies) \cup {c}) = Cardinality(Held \cap Copies) + 1
      <4>1. Held \cap Copies \in SUBSET Copies /\ c \notin Held \cap Copies
        BY <3>2, <3>4, Zenon
      <4>2. QED
        BY <1>3, <4>1, Counts, Zenon
    <3>5. QED
      BY <1>1, <1>8, <3>1, <3>3, <3>4, ZenonT(60) DEF DelayInv, PlaceInv
  <2>8. QED
    BY <2>3, <2>4, <2>5, <2>6, <2>7, ZenonT(60) DEF DelayInv
<1>9. QED
  BY <1>1, <1>7, <1>8, Zenon

-----------------------------------------------------------------------------
(* The operator.                                                           *)

\* What is emptied is remembered as such.
LEMMA EmptyChannelStep ==
    ASSUME DelayInv, EmptyChannel
    PROVE  DelayInv'
<1> USE DEF copies, disk, channel
<1>1. /\ Spend("admin") /\ undisturbed' = FALSE /\ leader' = EmptyDelayedChannel(leader)
      /\ emptied' = emptied \cup {orig[c] : c \in Stored(leader)}
      /\ UNCHANGED <<now, copies, replica, disk, channel, scan, req, update, drain, finished>>
  BY ZenonT(60) DEF EmptyChannel
<1>2. /\ leader \in Store /\ leader.cnt = Cardinality(Stored(leader)) /\ StoreInv /\ now \in Nat /\ next \in Nat
      /\ \A d \in Copies : leader.val[d] \in {Absent, d}
  BY DelayQueueAssumption DEF DelayInv, TypeOK, CountCovers, StoreInv
<1>3. /\ leader' \in Store /\ StoreInv' /\ leader'.cnt = Cardinality(Stored(leader'))
      /\ Stored(leader') = Stored(leader) \ Stored(leader)
  <2>1. Exact(leader, leader', Stored(leader))
    BY <1>1, <1>2, EmptyExact, Zenon
  <2>2. Stored(leader) \in SUBSET Copies
    BY StoredCopies, Zenon
  <2>3. QED
    BY <1>1, <1>2, <2>1, <2>2, LeaderLoses, ZenonT(60)
<1>4. \A c \in Stored(leader) : orig[c] \in Msgs
  <2>1. \A c \in Stored(leader) : c \in Copies /\ ~(c >= next)
    BY ZenonT(60) DEF Stored, DelayInv, StoreInv
  <2>2. \A c \in Stored(leader) : c \in Copies /\ c < next
    BY <1>2, <2>1 DEF Copies
  <2>3. QED
    BY <2>2, Zenon DEF DelayInv, StoreInv
<1>5. TypeOK'
  <2>1. left' \in [msgs : 0 .. NumMsgs, time : Nat, copies : Nat, updates : Nat, admin : Nat, faults : Nat]
    BY <1>1, SpendType, Zenon DEF DelayInv
  <2>2. emptied' \subseteq Msgs /\ undisturbed' \in BOOLEAN
    <3>1. emptied \subseteq Msgs
      BY DEF DelayInv, TypeOK
    <3>2. QED
      BY <1>1, <1>4, <3>1, ZenonT(60)
  <2>3. QED
    BY <1>1, <1>3, <2>1, <2>2, ZenonT(60) DEF DelayInv, TypeOK
<1>6. RequestInv'
  <2>1. \A m \in Msgs : req[m].at \in {"written", "synced"} => m \in emptied'
    <3>1. \A m \in Msgs : req[m].at \in {"written", "synced"} =>
             m \in emptied \/ (req[m].copy \in Stored(leader) /\ orig[req[m].copy] = m)
      BY Zenon DEF DelayInv, RequestInv, Stored
    <3>2. QED
      BY <1>1, <3>1, Zenon
  <2>2. QED
    BY <1>1, <2>1, Zenon DEF DelayInv, RequestInv, Begun
<1>7. QueueInv' /\ HeldInv'
  BY <1>1, Zenon DEF DelayInv, QueueInv, HeldInv, DueCopy
<1>8. KeptInv'
  <2>1. \A m : Kept(m) => Kept(m)'
    BY <1>1, Zenon DEF Kept
  <2>2. QED
    BY <1>1, <2>1, Zenon DEF DelayInv, KeptInv
<1>9. UpdateInv' /\ PlaceInv'
  BY <1>1, UpdateStays, Zenon DEF PlaceInv
<1>10. CountCovers'
  BY <1>1, <1>3, Zenon DEF DelayInv, CountCovers, Stored
<1>11. QED
  BY <1>3, <1>5, <1>6, <1>7, <1>8, <1>9, <1>10, ZenonT(60) DEF DelayInv

\* The channel is drained, in three steps.
LEMMA DrainStep ==
    ASSUME DelayInv, ~undisturbed', travelling' \subseteq travelling, confirmed' \subseteq confirmed,
           \A m \in Msgs : inFlight'[m] \in {Absent, inFlight[m]}, TypeOK',
           UNCHANGED <<now, copies, leader, replica, disk, scan, req, update, finished, emptied>>
    PROVE  DelayInv'
<1> USE DEF copies, disk
<1>1. StoreInv' /\ RequestInv' /\ QueueInv' /\ UpdateInv' /\ CountCovers'
  BY StoresStay, Zenon DEF DelayInv
<1>2. HeldInv'
  <2>1. \A m \in Msgs : inFlight'[m] \in Copies => inFlight'[m] = inFlight[m]
    BY NotCopies, Zenon
  <2>2. QED
    BY <2>1, Zenon DEF DelayInv, HeldInv, DueCopy
<1>3. KeptInv'
  <2>1. \A m : Kept(m) => Kept(m)'
    BY KeptStays, Zenon
  <2>2. QED
    BY <2>1, Zenon DEF DelayInv, KeptInv
<1>4. QED
  BY <1>1, <1>2, <1>3, Zenon DEF DelayInv, PlaceInv

LEMMA DrainFlightStep ==
    ASSUME DelayInv, NEW clear \in BOOLEAN, DrainFlight(clear)
    PROVE  DelayInv'
<1> USE DEF copies, disk, history
<1>1. /\ drain' = "flight" /\ Spend("admin") /\ undisturbed' = FALSE /\ inFlight' = [m \in Msgs |-> Absent]
      /\ confirmed' = (IF clear THEN Confirmed(confirmed) ELSE confirmed)
      /\ UNCHANGED <<now, copies, leader, replica, disk, unread, travelling, waitingRequeueChanMsgs, deferredFromDelay,
                     delayedConfirmedMsgs, scan, req, update, finished, emptied>>
  BY Zenon DEF DrainFlight
<1>2. confirmed' \subseteq confirmed
  BY <1>1, Zenon DEF Confirmed
<1>3. TypeOK'
  <2>1. left' \in [msgs : 0 .. NumMsgs, time : Nat, copies : Nat, updates : Nat, admin : Nat, faults : Nat]
    BY <1>1, SpendType, ZenonT(60) DEF DelayInv
  <2>2. /\ confirmed' \subseteq Msgs /\ inFlight' \in [Msgs -> {Absent, Original} \cup Copies]
        /\ drain' \in {"idle", "flight", "queued"} /\ undisturbed' \in BOOLEAN
    BY <1>1, <1>2, Zenon DEF DelayInv, TypeOK
  <2>3. QED
    BY <1>1, <2>1, <2>2, ZenonT(60) DEF DelayInv, TypeOK
<1>4. \A m \in Msgs : inFlight'[m] \in {Absent, inFlight[m]}
  BY <1>1
<1>5. QED
  BY <1>1, <1>2, <1>3, <1>4, DrainStep, ZenonT(60)

LEMMA DrainQueuedStep ==
    ASSUME DelayInv, DrainQueued
    PROVE  DelayInv'
<1> USE DEF copies, disk, history
<1>1. /\ drain = "flight" /\ drain' = "queued" /\ travelling' = {i \in travelling : i.at # "queued"}
      /\ UNCHANGED <<now, copies, leader, replica, disk, unread, confirmed, inFlight, waitingRequeueChanMsgs,
                     deferredFromDelay, delayedConfirmedMsgs, scan, req, update, history, left>>
  BY Zenon DEF DrainQueued
<1>2. ~undisturbed'
  BY <1>1, Zenon DEF DelayInv, PlaceInv
<1>3. TypeOK' /\ travelling' \subseteq travelling
  BY <1>1, Zenon DEF DelayInv, TypeOK
<1>4. QED
  BY <1>1, <1>2, <1>3, DrainStep

LEMMA DrainWaitingStep ==
    ASSUME DelayInv, DrainWaiting
    PROVE  DelayInv'
<1> USE DEF copies, disk, history
<1>1. /\ drain = "queued" /\ drain' = "idle" /\ waitingRequeueChanMsgs' = {} /\ deferredFromDelay' = 0
      /\ unread' = 1 .. left.msgs \ Confirmed(confirmed)
      /\ UNCHANGED <<now, copies, leader, replica, disk, travelling, confirmed, inFlight, delayedConfirmedMsgs, scan, req,
                     update, history, left>>
  BY Zenon DEF DrainWaiting
<1>2. ~undisturbed'
  BY <1>1, ZenonT(60) DEF DelayInv, PlaceInv
<1>3. unread' \subseteq Msgs
  <2>1. left.msgs \in 0 .. NumMsgs
    BY Zenon DEF DelayInv, TypeOK
  <2>2. 1 .. left.msgs \subseteq Msgs
    BY <2>1, DelayQueueAssumption DEF Msgs
  <2>3. QED
    BY <1>1, <2>2, Zenon
<1>4. TypeOK'
  <2>1. waitingRequeueChanMsgs' \subseteq Msgs /\ drain' \in {"idle", "flight", "queued"}
    BY <1>1, Zenon
  <2>2. deferredFromDelay' \in Int
    BY <1>1
  <2>3. QED
    BY <1>1, <1>3, <2>1, <2>2, ZenonT(60) DEF DelayInv, TypeOK
<1>5. QED
  BY <1>1, <1>2, <1>4, DrainStep, Zenon

-----------------------------------------------------------------------------
(* What the leader tells the replica.                                      *)

LEMMA StoredOld ==
    ASSUME DelayInv, NEW c \in Stored(leader)
    PROVE  c \in Copies /\ c < next
<1>1. c \in Copies /\ ~(c >= next)
  BY Zenon DEF Stored, DelayInv, StoreInv
<1>2. QED
  BY <1>1, DelayQueueAssumption DEF Copies, DelayInv, TypeOK

\* A step of the report changes nothing else but the replica.
LEMMA ReportStep ==
    ASSUME DelayInv, UpdateInv', replica' \in Store, replica'.cnt >= Cardinality(Stored(replica')),
           update' \in [at : {"idle", "counted", "sent"}, cnt : Nat, key : {Absent} \cup Copies, held : SUBSET Copies],
           left' \in [msgs : 0 .. NumMsgs, time : Nat, copies : Nat, updates : Nat, admin : Nat, faults : Nat],
           UNCHANGED <<now, copies, leader, disk, channel, scan, req, drain, history>>
    PROVE  DelayInv'
<1> USE DEF copies, disk, history
<1>1. TypeOK'
  BY Zenon DEF DelayInv, TypeOK, channel
<1>2. RequestInv' /\ QueueInv'
  BY ZenonT(60) DEF DelayInv, RequestInv, QueueInv, Begun
<1>3. QED
  BY <1>1, <1>2, SideStep, Zenon

LEMMA ReadCountStep ==
    ASSUME DelayInv, ReadCount
    PROVE  DelayInv'
<1>1. /\ Spend("updates")
      /\ update' = [at |-> "counted", cnt |-> leader.cnt, key |-> Absent, held |-> Stored(leader)]
      /\ UNCHANGED <<now, copies, leader, replica, disk, channel, scan, req, drain, history>>
  BY Zenon DEF ReadCount
<1>2. leader.cnt \in Nat /\ leader.cnt = Cardinality(Stored(leader)) /\ Stored(leader) \in SUBSET Copies
  BY StoredCopies, Zenon DEF DelayInv, TypeOK, Store, CountCovers
<1>3. update' \in [at : {"idle", "counted", "sent"}, cnt : Nat, key : {Absent} \cup Copies, held : SUBSET Copies]
  BY <1>1, <1>2, Zenon
<1>4. UpdateInv'
  <2>1. update'.held = Stored(leader) /\ update'.cnt = leader.cnt /\ update'.at = "counted"
    BY <1>1, Zenon
  <2>2. leader.cnt = 0 => Stored(leader) = {}
    BY <1>2, Counts, Zenon
  <2>3. \A c \in update'.held : c < next'
    BY <1>1, <2>1, StoredOld, Zenon DEF copies
  <2>4. QED
    BY <2>1, <2>2, <2>3, Zenon DEF UpdateInv
<1>5. left' \in [msgs : 0 .. NumMsgs, time : Nat, copies : Nat, updates : Nat, admin : Nat, faults : Nat]
  BY <1>1, SpendType, Zenon DEF DelayInv
<1>6. replica' \in Store /\ replica'.cnt >= Cardinality(Stored(replica'))
  BY <1>1, Zenon DEF DelayInv, TypeOK, CountCovers, Stored
<1>7. QED
  BY <1>1, <1>3, <1>4, <1>5, <1>6, ReportStep, Zenon

\* The first key is before everything the store held while the report was made.
LEMMA ReadKeyStep ==
    ASSUME DelayInv, ReadKey
    PROVE  DelayInv'
<1> DEFINE S == Stored(leader)
           key == IF S = {} THEN Absent ELSE Least(S)
<1>1. /\ update.at = "counted" /\ update' = [update EXCEPT !.at = "sent", !.held = @ \cap S, !.key = key]
      /\ UNCHANGED <<now, copies, leader, replica, disk, channel, scan, req, drain, history, left>>
  BY Zenon DEF ReadKey
<1>2. /\ update \in [at : {"idle", "counted", "sent"}, cnt : Nat, key : {Absent} \cup Copies, held : SUBSET Copies]
      /\ ts \in [Copies -> Nat] /\ S \in SUBSET Copies
  BY StoredCopies, Zenon DEF DelayInv, TypeOK
<1>3. S # {} => key \in S /\ \A d \in S \ {key} : EarlierKey(key, ts[d], d)
  BY <1>2, LeastIsFirst, Zenon
<1>4. S = {} => key = Absent
  BY Zenon
<1> HIDE DEF key
<1>5. key \in {Absent} \cup Copies
  BY <1>2, <1>3, <1>4, Zenon
<1>6. /\ update' \in [at : {"idle", "counted", "sent"}, cnt : Nat, key : {Absent} \cup Copies, held : SUBSET Copies]
      /\ update'.at = "sent" /\ update'.held = update.held \cap S /\ update'.key = key /\ update'.cnt = update.cnt
  BY <1>1, <1>2, <1>5, ZenonT(60)
<1>7. UpdateInv'
  <2>1. \A c \in update'.held : c < next'
    BY <1>1, <1>6, Zenon DEF DelayInv, UpdateInv, copies
  <2>2. update'.cnt = 0 => update'.held = {}
    BY <1>1, <1>6, Zenon DEF DelayInv, UpdateInv
  <2>3. key = Absent => update'.held = {}
    BY <1>2, <1>3, <1>6, NotCopies, ZenonT(60)
  <2>4. ASSUME key # Absent PROVE key < next' /\ \A c \in update'.held : ~(ts'[c] < ts'[key] \/ (ts'[c] = ts'[key] /\ c < key))
    <3>1. S # {} /\ key \in S
      BY <1>3, <1>4, <2>4, Zenon
    <3>2. key < next
      BY <3>1, StoredOld, Zenon
    <3>3. \A c \in S : ~EarlierKey(c, ts[key], key)
      BY <1>2, <1>3, <3>1 DEF EarlierKey, Copies
    <3>4. next' = next /\ ts' = ts /\ \A c \in update'.held : c \in S
      BY <1>1, <1>6, Zenon DEF copies
    <3>5. \A c \in update'.held : ~(ts'[c] < ts'[key] \/ (ts'[c] = ts'[key] /\ c < key))
      BY <3>3, <3>4, Zenon DEF EarlierKey
    <3>6. QED
      BY <3>2, <3>4, <3>5, Zenon
  <2>5. QED
    BY <1>6, <2>1, <2>2, <2>3, <2>4 DEF UpdateInv, EarlierKey
<1>8. left' \in [msgs : 0 .. NumMsgs, time : Nat, copies : Nat, updates : Nat, admin : Nat, faults : Nat]
  BY <1>1, Zenon DEF DelayInv, TypeOK
<1>9. replica' \in Store /\ replica'.cnt >= Cardinality(Stored(replica'))
  BY <1>1, Zenon DEF DelayInv, TypeOK, CountCovers, Stored
<1>10. QED
  BY <1>1, <1>6, <1>7, <1>8, <1>9, ReportStep, ZenonT(60)

LEMMA NoUpdateInv ==
    ASSUME update' = NoUpdate
    PROVE  /\ UpdateInv'
           /\ update' \in [at : {"idle", "counted", "sent"}, cnt : Nat, key : {Absent} \cup Copies, held : SUBSET Copies]
BY DEF UpdateInv, NoUpdate

LEMMA LoseUpdateStep ==
    ASSUME DelayInv, LoseUpdate
    PROVE  DelayInv'
<1>1. update' = NoUpdate /\ UNCHANGED <<now, copies, leader, replica, disk, channel, scan, req, drain, history, left>>
  BY Zenon DEF LoseUpdate
<1>2. left' \in [msgs : 0 .. NumMsgs, time : Nat, copies : Nat, updates : Nat, admin : Nat, faults : Nat]
  BY <1>1, Zenon DEF DelayInv, TypeOK
<1>3. replica' \in Store /\ replica'.cnt >= Cardinality(Stored(replica'))
  BY <1>1, Zenon DEF DelayInv, TypeOK, CountCovers, Stored
<1>4. QED
  BY <1>1, <1>2, <1>3, NoUpdateInv, ReportStep, ZenonT(60)

\* The replica deletes nothing that the leader held while it made the report.
LEMMA UpdateStateStep ==
    ASSUME DelayInv, UpdateDelayedQueueState
    PROVE  DelayInv' /\ update.held \cap Stored(replica) \subseteq Stored(replica')
<1>1. /\ update.at = "sent" /\ update' = NoUpdate /\ replica' = UpdateConsumedState(replica, update)
      /\ UNCHANGED <<now, copies, leader, disk, channel, scan, req, drain, history, left>>
  BY Zenon DEF UpdateDelayedQueueState
<1>2. /\ replica \in Store /\ replica.cnt >= Cardinality(Stored(replica)) /\ now \in Nat /\ ts \in [Copies -> Nat]
      /\ update.key \in {Absent} \cup Copies
  BY DEF DelayInv, TypeOK, CountCovers
<1>3. /\ replica' \in Store /\ replica'.cnt >= Cardinality(Stored(replica'))
      /\ update.cnt # 0 => \A c \in Stored(replica) :
            c \in Stored(replica') \/ (update.key # Absent /\ EarlierKey(c, ts[update.key], update.key))
  BY <1>1, <1>2, UpdateStore, Zenon
<1>4. left' \in [msgs : 0 .. NumMsgs, time : Nat, copies : Nat, updates : Nat, admin : Nat, faults : Nat]
  BY <1>1, Zenon DEF DelayInv, TypeOK
<1>5. DelayInv'
  BY <1>1, <1>3, <1>4, NoUpdateInv, ReportStep, ZenonT(60)
<1>6. update.cnt = 0 => update.held = {}
  BY <1>1 DEF DelayInv, UpdateInv
<1>7. update.key # Absent => \A c \in update.held : ~EarlierKey(c, ts[update.key], update.key)
  BY <1>1, Zenon DEF DelayInv, UpdateInv
<1>8. update.held \cap Stored(replica) \subseteq Stored(replica')
  BY <1>3, <1>6, <1>7, Zenon
<1>9. QED
  BY <1>5, <1>8, Zenon

-----------------------------------------------------------------------------
(* The replica leaves and catches up; time passes.                         *)

\* The replica changes, and how far it is; no message is being written.
LEMMA ReplicaStep ==
    ASSUME DelayInv, replica' \in Store, replica'.cnt >= Cardinality(Stored(replica')), inISR' \in BOOLEAN,
           received' \in 0 .. Len(queue), \A m \in Msgs : req[m].at # "written",
           left' \in [msgs : 0 .. NumMsgs, time : Nat, copies : Nat, updates : Nat, admin : Nat, faults : Nat],
           UNCHANGED <<now, copies, leader, queue, channel, scan, req, update, drain, history>>
    PROVE  DelayInv'
<1> USE DEF copies, history
<1>1. TypeOK'
  BY Zenon DEF DelayInv, TypeOK, channel
<1>2. RequestInv' /\ QueueInv'
  BY Zenon DEF DelayInv, RequestInv, QueueInv, Begun
<1>3. UpdateInv'
  BY UpdateStays, Zenon
<1>4. QED
  BY <1>1, <1>2, <1>3, SideStep, ZenonT(60)

LEMMA LeaveStep ==
    ASSUME DelayInv, Leave
    PROVE  DelayInv'
<1>1. /\ inISR' = FALSE /\ Spend("faults") /\ \A m \in Msgs : req[m].at # "written"
      /\ UNCHANGED <<now, copies, leader, replica, queue, received, channel, scan, req, update, drain, history>>
  BY Zenon DEF Leave
<1>2. left' \in [msgs : 0 .. NumMsgs, time : Nat, copies : Nat, updates : Nat, admin : Nat, faults : Nat]
  BY <1>1, SpendType, Zenon DEF DelayInv
<1>3. replica' \in Store /\ replica'.cnt >= Cardinality(Stored(replica')) /\ received' \in 0 .. Len(queue)
  BY <1>1, Zenon DEF DelayInv, TypeOK, CountCovers, Stored
<1>4. inISR' \in BOOLEAN
  BY <1>1, Zenon
<1>5. QED
  BY <1>1, <1>2, <1>3, <1>4, ReplicaStep, Zenon

\* A backup of the leader's store counts right, and so do messages put as raw data.
LEMMA CatchUpStep ==
    ASSUME DelayInv, NEW full \in BOOLEAN, CatchUp(full)
    PROVE  DelayInv'
<1>1. /\ inISR' = TRUE /\ received' = Len(queue) /\ \A m \in Msgs : req[m].at # "written"
      /\ replica' = (IF full THEN pullDelayedQueueFromLeader ELSE PutRawDataOnReplica(replica, Missing))
      /\ UNCHANGED <<now, copies, leader, queue, channel, scan, req, update, drain, history, left>>
  BY DEF CatchUp
<1>2. /\ replica \in Store /\ replica.cnt >= Cardinality(Stored(replica)) /\ ts \in [Copies -> Nat]
      /\ queue \in Seq(Copies) /\ received \in 0 .. Len(queue) /\ leader \in Store
      /\ leader.cnt = Cardinality(Stored(leader))
  BY Zenon DEF DelayInv, TypeOK, CountCovers
<1>3. replica' \in Store /\ replica'.cnt >= Cardinality(Stored(replica'))
  <2>1. CASE full
    <3>1. replica' = [[leader EXCEPT !.oldest = 0] EXCEPT !.buf = replica.buf]
      BY <1>1, <2>1, Zenon DEF pullDelayedQueueFromLeader, RestoreKVStoreFrom, reOpenStore
    <3>2. replica' \in Store /\ replica'.val = leader.val /\ replica'.cnt = leader.cnt
      BY <1>2, <3>1, Zenon DEF Store
    <3>3. Stored(replica') = Stored(leader)
      BY <3>2, Zenon DEF Stored
    <3>4. Cardinality(Stored(leader)) \in Nat
      BY Counts, StoredCopies, Zenon
    <3>5. QED
      BY <1>2, <3>2, <3>3, <3>4
  <2>2. CASE ~full
    <3>1. \A i \in received + 1 .. Len(queue) : i \in 1 .. Len(queue)
      BY <1>2
    <3>2. \A i \in 1 .. Len(queue) : queue[i] \in Copies
      BY <1>2
    <3>3. \A i \in 1 .. Len(queue) : orig[queue[i]] \in Msgs
      BY <3>2, Zenon DEF DelayInv, QueueInv, StoreInv
    <3>4. Missing \in SUBSET Copies /\ \A c \in Missing : orig[c] \in Msgs
      BY <3>1, <3>2, <3>3, Zenon DEF Missing
    <3>5. replica' = PutRawDataOnReplica(replica, Missing)
      BY <1>1, <2>2, Zenon
    <3>6. QED
      BY <1>2, <3>4, <3>5, RawStore, Zenon
  <2>3. QED
    BY <2>1, <2>2, Zenon
<1>4. left' \in [msgs : 0 .. NumMsgs, time : Nat, copies : Nat, updates : Nat, admin : Nat, faults : Nat]
  BY <1>1, ZenonT(60) DEF DelayInv, TypeOK
<1>5. inISR' \in BOOLEAN /\ received' \in 0 .. Len(queue)
  BY <1>1, <1>2
<1>6. QED
  BY <1>1, <1>3, <1>4, <1>5, ReplicaStep, ZenonT(60)

\* What is due stays so, and no message that is being requeued becomes due.
LEMMA TickStep ==
    ASSUME DelayInv, Tick
    PROVE  DelayInv'
<1> USE DEF copies, disk, channel, history
<1>1. /\ now' = now + 1 /\ \A m \in Msgs : req[m].at # "idle" => req[m].ts > now + 1
      /\ UNCHANGED <<copies, leader, replica, disk, channel, scan, req, update, drain, history, left>>
  BY Zenon DEF Tick
<1>2. now \in Nat /\ ts \in [Copies -> Nat]
  BY Zenon DEF DelayInv, TypeOK
<1>3. now' \in Nat
  BY <1>1, <1>2
<1>4. TypeOK'
  BY <1>1, <1>3, ZenonT(60) DEF DelayInv, TypeOK
<1>5. RequestInv'
  BY <1>1, Zenon DEF DelayInv, RequestInv, Begun
<1>6. HeldInv'
  <2>1. \A c \in Copies : DueCopy(c) => DueCopy(c)'
    BY <1>1, <1>2 DEF DueCopy
  <2>2. (\A i \in travelling : i.copy # Original => i.copy \in Copies) /\ scan.found \subseteq Copies
    BY ItemType, Zenon DEF DelayInv, TypeOK
  <2>3. QED
    BY <1>1, <2>1, <2>2, ZenonT(60) DEF DelayInv, HeldInv
<1>7. StoreInv' /\ CountCovers'
  BY <1>1, Zenon DEF DelayInv, StoreInv, CountCovers, Stored
<1>8. KeptInv'
  BY <1>1, Zenon DEF DelayInv, KeptInv, Kept, Stored
<1>9. QueueInv' /\ UpdateInv'
  BY <1>1, UpdateStays, Zenon DEF DelayInv, QueueInv
<1>10. PlaceInv'
  <2>1. Held' = Held
    BY <1>1 DEF Held
  <2>2. OnePlace => OnePlace'
    BY <1>1, Zenon DEF OnePlace, Fresh
  <2>3. QED
    BY <1>1, <2>1, <2>2, ZenonT(60) DEF DelayInv, PlaceInv
<1>11. QED
  BY <1>4, <1>5, <1>6, <1>7, <1>8, <1>9, <1>10, ZenonT(60) DEF DelayInv

-----------------------------------------------------------------------------
(* The invariant.                                                          *)

LEMMA InitInv ==
    ASSUME Init
    PROVE  DelayInv
<1> USE DEF Init
<1>1. NewStore \in Store /\ NewStore.cnt = 0 /\ NewStore.index = {} /\ \A c \in Copies : NewStore.val[c] = Absent
  BY DEF NewStore, Store
<1>2. left \in [msgs : 0 .. NumMsgs, time : Nat, copies : Nat, updates : Nat, admin : Nat, faults : Nat]
  BY DelayQueueAssumption, Zenon
<1>3. TypeOK
  <2>1. now \in Nat /\ next \in 1 .. MaxCopies + 1 /\ received \in 0 .. Len(queue) /\ queue \in Seq(Copies)
    BY DelayQueueAssumption
  <2>2. orig \in [Copies -> {0} \cup Msgs] /\ ts \in [Copies -> Nat] /\ inISR \in BOOLEAN
    BY Zenon
  <2>3. unread \subseteq Msgs
    BY <1>2, DelayQueueAssumption DEF Msgs
  <2>4. /\ travelling \subseteq Travelling /\ confirmed \subseteq Msgs /\ waitingRequeueChanMsgs \subseteq Msgs
        /\ inFlight \in [Msgs -> {Absent, Original} \cup Copies] /\ deferredFromDelay \in Int
        /\ delayedConfirmedMsgs \subseteq Msgs /\ finished \subseteq Msgs /\ emptied \subseteq Msgs
        /\ undisturbed \in BOOLEAN /\ drain \in {"idle", "flight", "queued"}
    OBVIOUS
  <2>5. scan \in [at : {"idle", "peeked", "adding"}, found : SUBSET Copies, oldest : Nat]
    BY Zenon DEF NoScan
  <2>6. req \in [Msgs -> Requester]
    BY Zenon DEF NoRequest, Requester
  <2>7. update \in [at : {"idle", "counted", "sent"}, cnt : Nat, key : {Absent} \cup Copies, held : SUBSET Copies]
    BY Zenon DEF NoUpdate
  <2>8. QED
    BY <1>1, <1>2, <2>1, <2>2, <2>3, <2>4, <2>5, <2>6, <2>7, ZenonT(60) DEF TypeOK
<1>4. StoreInv
  <2>1. \A c \in Copies : ~(c < next)
    BY DEF Copies
  <2>2. QED
    BY <1>1, <2>1 DEF StoreInv
<1>5. RequestInv
  <2>1. \A m \in Msgs : req[m].at = "idle"
    BY Zenon DEF NoRequest
  <2>2. Begun = {}
    BY <2>1, ZenonT(60) DEF Begun
  <2>3. next + Cardinality(Begun) <= MaxCopies + 1
    <3>1. Cardinality(Begun) = 0 /\ next = 1
      BY <2>2, Counts, Zenon
    <3>2. QED
      BY <3>1, DelayQueueAssumption
  <2>4. QED
    BY <2>1, <2>3, Zenon DEF RequestInv
<1>6. QueueInv
  <2>1. \A m \in Msgs : req[m].at = "idle"
    BY DEF NoRequest
  <2>2. QED
    BY <2>1 DEF QueueInv
<1>7. HeldInv
  BY NotCopies, Zenon DEF HeldInv, NoScan
<1>8. KeptInv /\ UpdateInv
  BY Zenon DEF KeptInv, UpdateInv, NoUpdate
<1>9. PlaceInv
  <2>1. Held \cap Copies = {}
    BY NotCopies, Zenon DEF Held
  <2>2. OnePlace
    <3>1. \A m \in Msgs : Fresh(m)
      BY DEF Fresh, NoRequest, Copies
    <3>2. unread \subseteq Msgs
      BY <1>3, Zenon DEF TypeOK
    <3>3. \A m \in unread : inFlight[m] = Absent /\ Fresh(m)
      BY <3>1, <3>2, ZenonT(60)
    <3>4. QED
      BY <3>3, ZenonT(60) DEF OnePlace
  <2>3. QED
    BY <2>1, <2>2, Counts, Zenon DEF PlaceInv
<1>10. CountCovers
  <2>1. Stored(leader) = {} /\ Stored(replica) = {} /\ leader.cnt = 0 /\ replica.cnt = 0
    BY <1>1 DEF Stored
  <2>2. QED
    <3>1. Cardinality(Stored(leader)) = 0 /\ Cardinality(Stored(replica)) = 0
      BY <2>1, Counts, ZenonT(60)
    <3>2. QED
      BY <2>1, <3>1 DEF CountCovers
<1>11. QED
  BY <1>3, <1>4, <1>5, <1>6, <1>7, <1>8, <1>9, <1>10, ZenonT(60) DEF DelayInv

LEMMA DeliverStep ==
    ASSUME DelayInv, Deliver
    PROVE  DelayInv'
<1>1. ASSUME NEW m \in Msgs, Finish(m)
      PROVE  DelayInv'
  <2>1. /\ FinishLocal(m) /\ finished' = finished \cup {m}
        /\ UNCHANGED <<now, copies, replica, disk, unread, travelling, waitingRequeueChanMsgs, scan, req, update, drain,
                       emptied, undisturbed, left>>
    BY <1>1, Zenon DEF Finish
  <2>2. finished \subseteq Msgs /\ req \in [Msgs -> Requester]
    BY Zenon DEF DelayInv, TypeOK
  <2>3. /\ finished \subseteq finished' /\ finished' \subseteq Msgs /\ m \in finished' /\ req' \in [Msgs -> Requester]
        /\ \A n \in Msgs : req'[n] = req[n]
    BY <2>1, <2>2, ZenonT(60)
  <2>4. QED
    BY <2>1, <2>3, FinishStep, Zenon
<1>2. ASSUME NEW i \in travelling, FindDelayed(i)
      PROVE  DelayInv'
  <2>1. /\ i.copy = Original /\ i.msg \in leader.index /\ travelling' = Moved(i, "delayed")
        /\ UNCHANGED <<now, copies, leader, replica, disk, unread, confirmed, inFlight, waitingRequeueChanMsgs,
                       deferredFromDelay, delayedConfirmedMsgs, scan, req, update, drain, history, left>>
    BY <1>2, Zenon DEF FindDelayed, IsChannelMessageDelayed
  <2>2. Kept(i.msg)
    BY <2>1, Zenon DEF DelayInv, StoreInv, Kept
  <2>3. QED
    BY <2>1, <2>2, MoveStep, Zenon
<1>3. ASSUME NEW i \in travelling, ConfirmDelayed(i)
      PROVE  DelayInv'
  <2>1. /\ i.at = "delayed" /\ travelling' = travelling \ {i} /\ confirmed' = confirmed \cup {i.msg}
        /\ waitingRequeueChanMsgs' = waitingRequeueChanMsgs \ {i.msg}
        /\ UNCHANGED <<now, copies, leader, replica, disk, unread, inFlight, deferredFromDelay, delayedConfirmedMsgs, scan,
                       req, update, drain, history, left>>
    BY <1>3, Zenon DEF ConfirmDelayed
  <2>2. Kept(i.msg) /\ i.copy = Original
    BY <2>1, Zenon DEF DelayInv, KeptInv, HeldInv
  <2>3. QED
    BY <2>1, <2>2, DropStep, Zenon
<1>4. ASSUME NEW i \in travelling, DropConfirmed(i)
      PROVE  DelayInv'
  <2>1. /\ i.copy = Original /\ i.msg \in confirmed /\ travelling' = travelling \ {i}
        /\ waitingRequeueChanMsgs' = waitingRequeueChanMsgs \ {i.msg}
        /\ UNCHANGED <<now, copies, leader, replica, disk, unread, confirmed, inFlight, deferredFromDelay,
                       delayedConfirmedMsgs, scan, req, update, drain, history, left>>
    BY <1>4, Zenon DEF DropConfirmed
  <2>2. QED
    BY <2>1, DropStep, Zenon
<1>5. ASSUME NEW i \in travelling, Pass(i)
      PROVE  DelayInv'
  <2>1. /\ travelling' = Moved(i, "passed")
        /\ UNCHANGED <<now, copies, leader, replica, disk, unread, confirmed, inFlight, waitingRequeueChanMsgs,
                       deferredFromDelay, delayedConfirmedMsgs, scan, req, update, drain, history, left>>
    BY <1>5, Zenon DEF Pass
  <2>2. QED
    BY <2>1, MoveStep, Zenon
<1>6. QED
  BY <1>1, <1>2, <1>3, <1>4, <1>5, ReadStep, TimeoutStep, StartStep, ZenonT(60) DEF Deliver

LEMMA RequeueStep ==
    ASSUME DelayInv, Requeue
    PROVE  DelayInv'
<1>1. ASSUME NEW m \in Msgs, FinishRequeued(m)
      PROVE  DelayInv'
  <2>1. /\ req[m].at = "synced" /\ req' = [req EXCEPT ![m] = NoRequest] /\ FinishLocal(m)
        /\ UNCHANGED <<now, copies, replica, disk, unread, travelling, waitingRequeueChanMsgs, scan, update, drain,
                       history, left>>
    BY <1>1, ZenonT(60) DEF FinishRequeued
  <2>2. finished \subseteq Msgs /\ req \in [Msgs -> Requester]
    BY DEF DelayInv, TypeOK
  <2>3. /\ req' \in [Msgs -> Requester]
        /\ \A n \in Msgs : req'[n] = req[n] \/ (req[n].at = "synced" /\ req'[n].at = "idle")
    BY <2>1, <2>2, Zenon DEF NoRequest, Requester
  <2>4. finished' = finished /\ emptied' = emptied /\ undisturbed' = undisturbed
    BY <2>1, Zenon DEF history
  <2>5. finished \subseteq finished' /\ finished' \subseteq Msgs
    BY <2>2, <2>4, Zenon
  <2>6. QED
    BY <2>1, <2>3, <2>4, <2>5, FinishStep, ZenonT(60)
<1>2. ASSUME NEW m \in Msgs, NotInFlight(m)
      PROVE  DelayInv'
  BY <1>2, EndRequestStep, Zenon DEF NotInFlight
<1>3. ASSUME NEW m \in Msgs, RequeueToMemory(m)
      PROVE  DelayInv'
  BY <1>3, EndRequestStep, Zenon DEF RequeueToMemory
<1>4. QED
  BY <1>1, <1>2, <1>3, BeginStep, PutStep, ReplicateStep, ReplicateFailsStep, ZenonT(60) DEF Requeue

LEMMA NextInv ==
    ASSUME DelayInv, [Next]_vars
    PROVE  DelayInv'
<1>1. CASE Scan
  BY <1>1, PeekStep, CacheOldestStep, AddPeekedStep, EndScanStep, ZenonT(60) DEF Scan
<1>2. CASE Admin
  BY <1>2, EmptyChannelStep, DrainFlightStep, DrainQueuedStep, DrainWaitingStep, ZenonT(60) DEF Admin
<1>3. CASE Sync
  BY <1>3, ReadCountStep, ReadKeyStep, UpdateStateStep, LoseUpdateStep, LeaveStep, CatchUpStep, ZenonT(60) DEF Sync
<1>4. CASE UNCHANGED vars
  <2>1. /\ UNCHANGED <<now, copies, leader, replica, disk, channel, scan, req, update, drain, history, left>>
    BY <1>4, Zenon DEF vars
  <2>2. TypeOK'
    BY <2>1, Zenon DEF DelayInv, TypeOK, copies, disk, channel, history
  <2>3. StoreInv' /\ RequestInv' /\ QueueInv' /\ UpdateInv' /\ CountCovers'
    BY <2>1, StoresStay, Zenon DEF DelayInv, copies, disk, history
  <2>4. HeldInv' /\ KeptInv' /\ PlaceInv'
    BY <2>1, ChannelStays, Zenon DEF DelayInv, copies, history
  <2>5. QED
    BY <2>2, <2>3, <2>4, Zenon DEF DelayInv
<1>5. QED
  BY <1>1, <1>2, <1>3, <1>4, DeliverStep, RequeueStep, TickStep, ZenonT(60) DEF Next

\* The inductive invariant of the delayed queue.
THEOREM DelayInvariant == Spec => []DelayInv
<1>1. Init => DelayInv
  BY InitInv, Zenon
<1>2. DelayInv /\ [Next]_vars => DelayInv'
  BY NextInv, Zenon
<1>3. QED
  BY <1>1, <1>2, PTL DEF Spec

\* The state of the threads, the channel and the stores keeps its shape, whatever the
\* sizes.
THEOREM DelayTypeCorrect == Spec => []TypeOK
<1>1. DelayInv => TypeOK
  BY Zenon DEF DelayInv
<1>2. QED
  BY <1>1, DelayInvariant, PTL

\* The counter of the kv store is the number of messages on the leader, and not below
\* it on the replica, after any puts, deletes, rewrites as raw data and restores.
THEOREM CountsRight == Spec => []CountCovers
<1>1. DelayInv => CountCovers
  BY Zenon DEF DelayInv
<1>2. QED
  BY <1>1, DelayInvariant, PTL

\* Requeueing to the end and ShouldWaitDelayed lose no message: what is confirmed has
\* been finished, emptied by the operator, or has a copy in the store of the leader.
THEOREM NothingLost == Spec => []DelayedKept
<1>1. DelayInv => DelayedKept
  BY Zenon DEF DelayInv, KeptInv, Kept, DelayedKept
<1>2. QED
  BY <1>1, DelayInvariant, PTL

\* deferredFromDelay is the number of copies being delivered until the channel is reset.
THEOREM DeferredRight == Spec => []DeferredCounts
<1>1. DelayInv => DeferredCounts
  BY Zenon DEF DelayInv, PlaceInv, DeferredCounts
<1>2. QED
  BY <1>1, DelayInvariant, PTL

\* A late report of the leader deletes on the replica only what was consumed when the
\* report was made.
THEOREM ReportsDeleteConsumed == Spec => ConsumedOnly
<1>1. DelayInv /\ [Next]_vars =>
         [UpdateDelayedQueueState => update.held \cap Stored(replica) \subseteq Stored(replica')]_vars
  BY UpdateStateStep, Zenon
<1>2. QED
  BY <1>1, DelayInvariant, PTL DEF Spec, ConsumedOnly
=============================================================================
