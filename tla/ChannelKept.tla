---------------------------- MODULE ChannelKept ----------------------------
(***************************************************************************)
(* No message of a channel is lost between the queue and the clients, and  *)
(* an ordered channel sends messages in turn, for any number of clients    *)
(* and messages: the steps that keep KeptInv, as long as offset resets aim *)
(* at what the reader knows, and those that keep OrderInv, as long as      *)
(* nothing moves the cursor but the clients.                               *)
(***************************************************************************)
EXTENDS ChannelProofs

\* What NoMessageLost needs besides CursorInv: intervals are whole, nothing is read
\* and not confirmed while the pump drains, the pump holds a message only between
\* its two selects, queued resets can succeed, and a drain of the administrator
\* runs with consuming disabled.
Kept ==
    /\ BothEnds(confirmedMsgs.elems)
    /\ pc \in DrainPcs => readPos = confirmed
    /\ pc \notin {"check", "accepted", "dispatch"} => msg = NoMsg
    /\ \A i \in DOMAIN readerChanged : readerChanged[i] <= queueEnd
    /\ adminPc \in DrainPcs => consumeDisabled

KeptInv == CursorInv /\ Kept /\ NoMessageLost

\* The map knows x to be finished.
Known(ih, x) ==
    \/ x \in Covered(ih)
    \/ x \in DOMAIN ih.historyMsg /\ ih.historyMsg[x] >= x + 1

\* Message x is somewhere on its way.
OnItsWay(x) ==
    \/ inFlight[x] # "absent"
    \/ x \in waitingRequeueMsgs \/ \E i \in DOMAIN requeuedMsgChan : requeuedMsgChan[i] = x
    \/ msg = x \/ lastData = x \/ \E c \in Clients : hand[c] = x

-----------------------------------------------------------------------------
(* Sequences.                                                              *)

\* A bound on the entries of a sequence bounds those of its tail.
LEMMA TailResets ==
    ASSUME NEW S, NEW q \in Seq(S), q # <<>>, NEW n, \A i \in DOMAIN q : q[i] <= n
    PROVE  \A i \in DOMAIN Tail(q) : Tail(q)[i] <= n
OBVIOUS

\* A function on 1 .. n is a sequence.
LEMMA FunctionIsSequence ==
    ASSUME NEW S, NEW n \in Nat, NEW q \in [1 .. n -> S]
    PROVE  q \in Seq(S) /\ Len(q) = n /\ DOMAIN q = 1 .. n
OBVIOUS

\* Appending a sequence keeps every entry of the first and adds those of the second.
LEMMA EntriesOfBoth ==
    \A a, b \in Seq(Msgs) : LET c == a \o b IN
        /\ \A i \in DOMAIN a : i \in DOMAIN c /\ c[i] = a[i]
        /\ \A j \in DOMAIN b : Len(a) + j \in DOMAIN c /\ c[Len(a) + j] = b[j]
<1> TAKE a, b \in Seq(Msgs)
<1>1. /\ Len(a) \in Nat /\ Len(b) \in Nat /\ DOMAIN a = 1 .. Len(a) /\ DOMAIN b = 1 .. Len(b)
      /\ DOMAIN (a \o b) = 1 .. Len(a) + Len(b)
  OBVIOUS
<1>2. \A i \in 1 .. Len(a) : (a \o b)[i] = a[i]
  OBVIOUS
<1>3. \A j \in 1 .. Len(b) : (a \o b)[Len(a) + j] = b[j]
  OBVIOUS
<1>4. \A i \in 1 .. Len(a) : i \in DOMAIN (a \o b)
  BY <1>1
<1>5. \A j \in 1 .. Len(b) : Len(a) + j \in DOMAIN (a \o b)
  BY <1>1
<1>6. QED BY <1>1, <1>2, <1>3, <1>4, <1>5, Zenon

\* Every entry of two sequences put together is an entry of one of them.
LEMMA EntriesFromBoth ==
    \A a, b \in Seq(Msgs) : \A i \in DOMAIN (a \o b) :
        (i \in DOMAIN a /\ (a \o b)[i] = a[i]) \/ \E j \in DOMAIN b : (a \o b)[i] = b[j]
<1> TAKE a, b \in Seq(Msgs)
<1>1. /\ Len(a) \in Nat /\ Len(b) \in Nat /\ DOMAIN a = 1 .. Len(a) /\ DOMAIN b = 1 .. Len(b)
      /\ DOMAIN (a \o b) = 1 .. Len(a) + Len(b)
  OBVIOUS
<1> TAKE i \in DOMAIN (a \o b)
<1>2. CASE i <= Len(a)
  BY <1>1, <1>2
<1>3. CASE ~(i <= Len(a))
  <2>1. i - Len(a) \in DOMAIN b /\ (a \o b)[i] = b[i - Len(a)]
    BY <1>1, <1>3
  <2>2. QED BY <2>1, Zenon
<1>4. QED BY <1>2, <1>3, Zenon

-----------------------------------------------------------------------------
(* The interval map.                                                       *)

\* What an empty map holds after an interval of one message is stored.
LEMMA StoredInEmpty ==
    ASSUME NEW map, DOMAIN map = {}, NEW m \in Nat
    PROVE  /\ DOMAIN Stored(map, <<m, m + 1>>) = {m, m + 1}
           /\ Stored(map, <<m, m + 1>>)[m] = <<m, m + 1>>
BY DEF Stored

\* A map without its keys is empty.
LEMMA WithoutAll == ASSUME NEW map, NEW S, DOMAIN map \subseteq S PROVE DOMAIN Without(map, S) = {}
BY DEF Without

\* Covered, by the intervals that have the offset.
LEMMA CoveredHas ==
    ASSUME NEW ih, Shaped(ih.elems, Positions)
    PROVE  \A p : p \in Covered(ih) <=> p \in Nat /\ Has(ih.elems, p)
<1>1. Positions \subseteq Nat
  BY ConstantsAssumption DEF Positions
<1>2. \A k \in DOMAIN ih.elems : ih.elems[k][1] \in Nat /\ ih.elems[k][2] \in Nat
  BY <1>1, Zenon DEF Shaped
<1>3. QED BY <1>2 DEF Covered, Has

\* IsCompleteOverlap of one message says no more than the map and the history do.
LEMMA OverlapKnown ==
    ASSUME NEW ih, Shaped(ih.elems, Positions), NEW x \in Nat
    PROVE  IsCompleteOverlap(ih, x, x + 1) \/ x \in Covered(ih) <=> Known(ih, x)
<1>1. Positions \subseteq Nat
  BY ConstantsAssumption DEF Positions
<1>2. \A k \in DOMAIN ih.elems : /\ ih.elems[k][1] \in Nat /\ ih.elems[k][2] \in Nat
                                 /\ ih.elems[k][1] < ih.elems[k][2]
                                 /\ k \in {ih.elems[k][1], ih.elems[k][2]}
  BY <1>1, Zenon DEF Shaped
<1>3. CASE x \in DOMAIN ih.elems /\ ih.elems[x][2] >= x + 1
  <2>1. Has(ih.elems, x)
    BY <1>2, <1>3, SMTT(40) DEF Has
  <2>2. QED BY <2>1, CoveredHas, Zenon DEF Known
<1>4. CASE x + 1 \in DOMAIN ih.elems /\ ih.elems[x + 1][1] <= x
  <2>1. Has(ih.elems, x)
    BY <1>2, <1>4 DEF Has
  <2>2. QED BY <2>1, CoveredHas DEF Known
<1>5. QED BY <1>3, <1>4 DEF Known, IsCompleteOverlap

\* Tracked is Known or OnItsWay.
LEMMA TrackedSplit ==
    ASSUME Shaped(confirmedMsgs.elems, Positions), NEW x \in Nat
    PROVE  Tracked(x) <=> Known(confirmedMsgs, x) \/ OnItsWay(x)
<1>1. IsConfirmed(x) \/ x \in Covered(confirmedMsgs) <=> Known(confirmedMsgs, x)
  BY OverlapKnown DEF IsConfirmed
<1>2. QED BY <1>1, Zenon DEF Tracked, OnItsWay

\* ConfirmBackendQueue forgets nothing above the confirmed position, and knows the
\* message it was called for.
LEMMA ConfirmKnows ==
    ASSUME FiniteCounts, CursorInv, BothEnds(confirmedMsgs.elems), NEW m \in Msgs, ConfirmBackendQueue(m)
    PROVE  /\ BothEnds(confirmedMsgs'.elems)
           /\ \A x \in Nat : x >= confirmed' /\ (Known(confirmedMsgs, x) \/ x = m) => Known(confirmedMsgs', x)
<1> DEFINE ih == confirmedMsgs
           added == AddOrMerge(ih, m, m + 1)
           i == MergedInterval(ih, m, m + 1)
<1>1. /\ Positions \in SUBSET Nat /\ m \in Positions /\ m + 1 \in Positions /\ m \in Nat /\ m < m + 1
      /\ confirmed \in Nat /\ Shaped(ih.elems, Positions)
  <2>1. Positions \in SUBSET Nat /\ confirmed \in Nat /\ Shaped(ih.elems, Positions)
    BY Typed DEF TypeFacts
  <2>2. m \in Positions /\ m + 1 \in Positions /\ m \in Nat /\ m < m + 1
    BY ConstantsAssumption DEF Msgs, Positions
  <2>3. QED BY <2>1, <2>2, Zenon
<1>2. /\ Shaped(added.elems, Positions) /\ BothEnds(added.elems)
      /\ i[1] \in DOMAIN added.elems /\ added.elems[i[1]] = i
      /\ i \in Positions \X Positions /\ i[1] <= m /\ m + 1 <= i[2]
      /\ \A p \in Nat : Has(ih.elems, p) \/ (m <= p /\ p < m + 1) => Has(added.elems, p)
  BY <1>1, AddOrMergeBoth, Zenon
<1>3. /\ DOMAIN added.historyMsg = DOMAIN ih.historyMsg \cup {m}
      /\ \A s \in DOMAIN added.historyMsg : added.historyMsg[s] = IF s = m THEN m + 1 ELSE ih.historyMsg[s]
      /\ "elems" \in DOMAIN added
  BY DEF AddOrMerge
<1>4. DeleteInterval(added, i).historyMsg = added.historyMsg
  BY DEF DeleteInterval, AddOrMerge
<1>5. /\ confirmed' = IF Reduces(m) THEN i[2] ELSE confirmed
      /\ confirmedMsgs' = IF m < confirmed THEN ih
                          ELSE IF Reduces(m) THEN DeleteInterval(added, i) ELSE added
  BY DEF ConfirmBackendQueue, ConfirmedMsgsAfter, Merged
<1>6. Reduces(m) => ~(m < confirmed)
  BY <1>1 DEF Reduces
<1> HIDE DEF ih, added, i
<1>7. i[1] \in Nat /\ i[2] \in Nat
  BY <1>1, <1>2, Zenon
<1>8. \A x \in Nat : Known(ih, x) \/ x = m => Known(added, x)
  <2> TAKE x \in Nat
  <2>1. x \in Covered(ih) => x \in Covered(added)
    BY <1>1, <1>2, CoveredHas
  <2>2. x = m => x \in Covered(added)
    BY <1>1, <1>2, CoveredHas
  <2>3. QED BY <2>1, <2>2, <1>3 DEF Known
<1>9. CASE m < confirmed
  <2>1. confirmedMsgs' = ih /\ confirmed' = confirmed
    BY <1>5, <1>6, <1>9, Zenon
  <2>2. QED BY <2>1, <1>1, <1>9 DEF ih
<1>10. CASE ~(m < confirmed) /\ ~Reduces(m)
  <2>1. confirmedMsgs' = added
    BY <1>5, <1>10, Zenon
  <2>2. QED BY <2>1, <1>2, <1>8, Zenon DEF ih
<1>11. CASE ~(m < confirmed) /\ Reduces(m)
  <2>1. confirmedMsgs' = DeleteInterval(added, i) /\ confirmed' = i[2]
    BY <1>5, <1>11, Zenon
  <2>2. /\ Shaped(confirmedMsgs'.elems, Positions) /\ BothEnds(confirmedMsgs'.elems)
        /\ \A p \in Nat : Has(added.elems, p) => Has(confirmedMsgs'.elems, p) \/ (i[1] <= p /\ p < i[2])
    <3> DEFINE rest == DeleteInterval(added, added.elems[i[1]]).elems
    <3>1. /\ Shaped(rest, Positions) /\ BothEnds(rest)
          /\ \A p \in Nat : Has(added.elems, p)
                  => Has(rest, p) \/ (added.elems[i[1]][1] <= p /\ p < added.elems[i[1]][2])
      BY <1>1, <1>2, <1>3, DeleteIntervalBoth, Zenon
    <3>2. rest = confirmedMsgs'.elems
      BY <1>2, <2>1, Zenon
    <3> HIDE DEF rest
    <3>3. QED BY <1>2, <3>1, <3>2, Zenon
  <2>3. \A x \in Nat : x >= i[2] /\ Known(added, x) => Known(confirmedMsgs', x)
    <3> SUFFICES ASSUME NEW x \in Nat, x >= i[2], Known(added, x) PROVE Known(confirmedMsgs', x)
      OBVIOUS
    <3>1. x \in Covered(added) => x \in Covered(confirmedMsgs')
      BY <2>2, <1>2, <1>7, CoveredHas, SMTT(40)
    <3>2. confirmedMsgs'.historyMsg = added.historyMsg
      BY <2>1, <1>4, Zenon
    <3>3. QED BY <3>1, <3>2 DEF Known
  <2>4. QED BY <2>1, <2>2, <2>3, <1>8, ZenonT(60) DEF ih
<1>12. QED BY <1>9, <1>10, <1>11, Zenon

\* Cleaning up to the confirmed position forgets nothing above it.
LEMMA DeleteLowerKnows ==
    ASSUME NEW ih, Shaped(ih.elems, Positions), BothEnds(ih.elems), NEW low \in Nat
    PROVE  /\ BothEnds(DeleteLower(ih, low).elems)
           /\ \A x \in Nat : x >= low /\ Known(ih, x) => Known(DeleteLower(ih, low), x)
<1> DEFINE kept == DeleteLower(ih, low)
<1>1. Positions \in SUBSET Nat
  BY ConstantsAssumption, SMTT(40) DEF Positions
<1>2. /\ Shaped(kept.elems, Positions) /\ BothEnds(kept.elems)
      /\ \A p \in Nat : p >= low /\ Has(ih.elems, p) => Has(kept.elems, p)
  BY <1>1, DeleteLowerBoth, Zenon
<1>3. /\ DOMAIN kept.historyMsg =
            DOMAIN ih.historyMsg \ {s \in DOMAIN ih.historyMsg : ih.historyMsg[s] <= low /\ s < low}
      /\ \A s \in DOMAIN kept.historyMsg : kept.historyMsg[s] = ih.historyMsg[s]
  BY DEF DeleteLower, Without
<1> HIDE DEF kept
<1>4. ASSUME NEW x \in Nat, x >= low, Known(ih, x) PROVE Known(kept, x)
  <2>1. x \in Covered(ih) => x \in Covered(kept)
    BY <1>2, <1>4, CoveredHas, Zenon
  <2>2. x \in DOMAIN ih.historyMsg => x \in DOMAIN kept.historyMsg
    BY <1>3, <1>4, SMTT(40)
  <2>3. QED BY <2>1, <2>2, <1>3, <1>4, Zenon DEF Known
<1>5. QED BY <1>2, <1>4, Zenon DEF kept

\* The maps the administrator and the replication link make are whole too.
LEMMA NewIsWhole == BothEnds(NewIntervalHash.elems)
BY DEF NewIntervalHash, EmptyMap, BothEnds

-----------------------------------------------------------------------------
(* How a step keeps NoMessageLost.                                         *)

\* Nothing is read and not confirmed.
LEMMA NothingRead ==
    ASSUME CursorInv', readPos' = confirmed'
    PROVE  NoMessageLost'
<1>1. confirmed' \in Nat
  BY Typed, TypedAfter DEF TypeFacts
<1>2. QED BY <1>1, SMTT(40) DEF NoMessageLost, Msgs

\* What the map or a process has stays with one of them, or a reset comes.
LEMMA Stays ==
    ASSUME KeptInv, CursorInv', confirmed <= confirmed', readPos' <= readPos,
           ResetPending => ResetPending',
           \A x \in Msgs : x >= confirmed' /\ (Known(confirmedMsgs, x) \/ OnItsWay(x)) =>
                              Known(confirmedMsgs', x) \/ OnItsWay(x)' \/ ResetPending'
    PROVE  NoMessageLost'
<1>1. /\ confirmed \in Nat /\ confirmed' \in Nat /\ readPos \in Nat /\ readPos' \in Nat
      /\ Msgs \subseteq Nat
  BY Typed, TypedAfter, Zenon DEF KeptInv, TypeFacts
<1>2. Shaped(confirmedMsgs.elems, Positions) /\ Shaped(confirmedMsgs.elems, Positions)'
  BY DEF KeptInv, CursorInv, DoneInv, MapInv
<1> SUFFICES ASSUME NEW x \in Msgs, confirmed' <= x, x < readPos', ~ResetPending'
             PROVE  Tracked(x)'
  BY DEF NoMessageLost
<1>3. x \in Nat /\ confirmed <= x /\ x < readPos /\ x >= confirmed'
  BY <1>1
<1>4. Tracked(x)
  BY <1>3 DEF KeptInv, NoMessageLost
<1>5. Known(confirmedMsgs, x) \/ OnItsWay(x)
  BY <1>2, <1>3, <1>4, TrackedSplit, Zenon
<1>6. Known(confirmedMsgs', x) \/ OnItsWay(x)'
  BY <1>3, <1>5, Zenon
<1>7. (IsCompleteOverlap(confirmedMsgs', x, x + 1) \/ x \in Covered(confirmedMsgs')) <=> Known(confirmedMsgs', x)
  BY <1>2, <1>3, OverlapKnown, Zenon
<1>8. QED BY <1>6, <1>7, ZenonT(40) DEF Tracked, OnItsWay, IsConfirmed

\* A step that leaves the pump's requests and the administrator alone.
LEMMA StillPending ==
    ASSUME KeptInv, CursorInv',
           UNCHANGED <<consumeDisabled, needResetReader, adminPc, readerChanged>>, queueEnd <= queueEnd'
    PROVE  ResetPending => ResetPending'
<1>1. queueEnd \in Nat /\ queueEnd' \in Nat /\ \A i \in DOMAIN readerChanged : readerChanged[i] \in Int
  BY Typed, TypedAfter, Zenon DEF KeptInv, TypeFacts
<1>2. QED BY <1>1, SMTT(40) DEF ResetPending

\* A step that moves no message and asks for no reset.
LEMMA NothingMoves ==
    ASSUME KeptInv, CursorInv', queueEnd <= queueEnd',
           UNCHANGED <<readPos, confirmed, confirmedMsgs, inFlight, requeuedMsgChan, waitingRequeueMsgs,
                       hand, msg, lastData, consumeDisabled, needResetReader, adminPc, readerChanged>>
    PROVE  NoMessageLost'
<1>1. ResetPending => ResetPending'
  BY StillPending, Zenon
<1>2. confirmed <= confirmed' /\ readPos' <= readPos
  BY Typed, TypedAfter, Zenon DEF KeptInv, TypeFacts
<1>3. \A x \in Msgs : OnItsWay(x) => OnItsWay(x)'
  BY DEF OnItsWay
<1>4. QED BY <1>1, <1>2, <1>3, Stays, ZenonT(40)

\* Non-blocking sends: resets that can succeed stay so, and a reset is pending after
\* one was sent, whether or not there was room.
LEMMA SentResets ==
    ASSUME KeptInv, NEW rs \in Seq(Resets), \A i \in DOMAIN rs : rs[i] <= queueEnd, SendResets(rs)
    PROVE  /\ \A i \in DOMAIN readerChanged' : readerChanged'[i] <= queueEnd
           /\ readerChanged # <<>> \/ rs # <<>> => readerChanged' # <<>>
<1> DEFINE all == readerChanged \o rs
           n == Lower(ResetCap, Len(all))
<1>1. readerChanged \in Seq(Resets) /\ \A i \in DOMAIN readerChanged : readerChanged[i] <= queueEnd
  BY Typed DEF KeptInv, Kept, TypeFacts
<1>2. all \in Seq(Resets) /\ Len(all) = Len(readerChanged) + Len(rs) /\ Len(all) \in Nat
  BY <1>1, SMTT(40)
<1>3. \A i \in 1 .. Len(all) : all[i] <= queueEnd
  <2> TAKE i \in 1 .. Len(all)
  <2>1. CASE i <= Len(readerChanged)
    BY <1>1, <2>1, SMTT(40)
  <2>2. CASE ~(i <= Len(readerChanged))
    <3>1. all[i] = rs[i - Len(readerChanged)] /\ i - Len(readerChanged) \in 1 .. Len(rs)
      BY <1>1, <1>2, <2>2, SMTT(40)
    <3>2. QED BY <3>1
  <2>3. QED BY <2>1, <2>2, Zenon
<1>4. n \in Nat /\ n <= Len(all) /\ (Len(all) > 0 => n > 0)
  BY <1>2, ConstantsAssumption DEF Lower
<1>5. readerChanged' = SubSeq(all, 1, n)
  BY DEF SendResets
<1> HIDE DEF all, n
<1>6. readerChanged' \in Seq(Resets) /\ Len(readerChanged') = n /\ \A i \in 1 .. n : readerChanged'[i] = all[i]
  BY <1>2, <1>4, <1>5, SMTT(40)
<1>7. \A i \in DOMAIN readerChanged' : readerChanged'[i] <= queueEnd
  BY <1>3, <1>4, <1>6, SMTT(40)
<1>8. readerChanged # <<>> \/ rs # <<>> => readerChanged' # <<>>
  BY <1>1, <1>2, <1>4, <1>6, SMTT(40)
<1>9. QED BY <1>7, <1>8, Zenon

\* Sends on readerChanged leave a reset pending that was.
LEMMA QueuedPending ==
    ASSUME KeptInv, CursorInv', \A i \in DOMAIN readerChanged' : readerChanged'[i] <= queueEnd,
           readerChanged # <<>> => readerChanged' # <<>>,
           UNCHANGED <<queueEnd, consumeDisabled, needResetReader, adminPc>>
    PROVE  ResetPending => ResetPending'
<1>1. readerChanged' # <<>> => 1 \in DOMAIN readerChanged'
  BY Typed, TypedAfter, Zenon DEF TypeFacts
<1>2. readerChanged' # <<>> => ResetPending'
  BY <1>1 DEF ResetPending
<1>3. readerChanged = <<>> => \A i \in DOMAIN readerChanged : FALSE
  OBVIOUS
<1>4. QED BY <1>2, <1>3, Zenon DEF ResetPending

-----------------------------------------------------------------------------
(* The pump.                                                               *)

\* A message out of requeuedMsgChan is in the pump's hands.
LEMMA TakeRequeuedKept ==
    ASSUME KeptInv, CursorInv', PumpTakeRequeued
    PROVE  Kept' /\ NoMessageLost'
<1>1. /\ Selecting /\ requeuedMsgChan # <<>> /\ requeuedMsgChan \in Seq(Msgs)
      /\ msg' = Head(requeuedMsgChan) /\ requeuedMsgChan' = Tail(requeuedMsgChan) /\ pc' = "check"
      /\ UNCHANGED <<queueEnd, readPos, confirmed, confirmedMsgs, inFlight, waitingRequeueMsgs, hand, lastData,
                     consumeDisabled, needResetReader, adminPc, readerChanged>>
  BY Typed, TypedAfter, Zenon DEF PumpTakeRequeued, KeptInv, backend, confirms, signals, modes, session, admin, TypeFacts
<1>2. msg = NoMsg
  BY <1>1 DEF KeptInv, Kept, Selecting
<1>3. Kept'
  BY <1>1, Zenon DEF KeptInv, Kept, DrainPcs
<1>4. queueEnd <= queueEnd' /\ confirmed <= confirmed' /\ readPos' <= readPos
  BY <1>1, Typed, TypedAfter, Zenon DEF KeptInv, TypeFacts
<1>5. ResetPending => ResetPending'
  BY <1>1, <1>4, StillPending
<1>6. \A x \in Msgs : (\E i \in DOMAIN requeuedMsgChan : requeuedMsgChan[i] = x) =>
                        x = Head(requeuedMsgChan) \/ \E i \in DOMAIN Tail(requeuedMsgChan) : Tail(requeuedMsgChan)[i] = x
  <2> SUFFICES ASSUME NEW i \in 1 .. Len(requeuedMsgChan), requeuedMsgChan[i] # Head(requeuedMsgChan)
               PROVE  \E j \in DOMAIN Tail(requeuedMsgChan) : Tail(requeuedMsgChan)[j] = requeuedMsgChan[i]
    BY <1>1
  <2>1. i # 1
    BY <1>1
  <2>2. i - 1 \in 1 .. Len(Tail(requeuedMsgChan)) /\ Tail(requeuedMsgChan)[i - 1] = requeuedMsgChan[i]
    BY <1>1, <2>1
  <2>3. DOMAIN Tail(requeuedMsgChan) = 1 .. Len(Tail(requeuedMsgChan))
    BY <1>1
  <2>4. QED BY <2>2, <2>3, Zenon
<1>7. \A x \in Msgs : OnItsWay(x) => OnItsWay(x)'
  <2> SUFFICES ASSUME NEW x \in Msgs, OnItsWay(x) PROVE OnItsWay(x)'
    OBVIOUS
  <2>1. x # NoMsg
    BY ConstantsAssumption DEF Msgs, NoMsg
  <2>2. QED BY <2>1, <1>1, <1>2, <1>6, ZenonT(40) DEF OnItsWay
<1>8. QED BY <1>1, <1>3, <1>4, <1>5, <1>7, Stays, ZenonT(40)

\* TryReadOne: the message read is read ahead, or nothing is read.
LEMMA ReadKept ==
    ASSUME KeptInv, CursorInv', PumpRead
    PROVE  Kept' /\ NoMessageLost'
<1>1. /\ pc \in {"top", "read"} /\ pc' \in {"selectNil", "selectData", "selectEnd"}
      /\ UNCHANGED <<queueEnd, confirmed, confirmedMsgs, inFlight, requeuedMsgChan, waitingRequeueMsgs, hand, msg,
                     consumeDisabled, needResetReader, adminPc, readerChanged>>
  BY DEF PumpRead, confirms, requeues, signals, modes, session, admin
<1>2. \/ UNCHANGED <<lastData, readPos>>
      \/ lastData = NoMsg /\ lastData' = readPos /\ readPos' = readPos + 1
  BY DEF PumpRead
<1>3. Kept'
  BY <1>1, Zenon DEF KeptInv, Kept, DrainPcs
<1>4. /\ confirmed \in Nat /\ readPos \in Nat /\ queueEnd \in Nat /\ queueEnd' = queueEnd
      /\ Msgs \subseteq Nat /\ NoMsg \notin Nat
  BY <1>1, Typed, TypedAfter, Zenon DEF KeptInv, TypeFacts
<1>5. CASE UNCHANGED <<lastData, readPos>>
  BY <1>1, <1>3, <1>4, <1>5, NothingMoves, SMTT(40)
<1>6. CASE lastData = NoMsg /\ lastData' = readPos /\ readPos' = readPos + 1
  <2>1. ResetPending => ResetPending'
    BY <1>1, <1>4, StillPending, SMTT(40)
  <2> SUFFICES ASSUME NEW x \in Msgs, confirmed' <= x, x < readPos', ~ResetPending'
               PROVE  Tracked(x)'
    BY <1>3 DEF NoMessageLost
  <2>2. x \in Nat /\ confirmed <= x /\ (x < readPos \/ x = readPos)
    BY <1>1, <1>4, <1>6, SMTT(40)
  <2>3. CASE x = readPos
    BY <2>3, <1>6 DEF Tracked
  <2>4. CASE x < readPos
    <3>1. Tracked(x)
      BY <2>1, <2>2, <2>4, Zenon DEF KeptInv, NoMessageLost
    <3>2. x # NoMsg
      BY <2>2, <1>4, Zenon
    <3>3. QED BY <3>1, <3>2, <1>1, <1>6, ZenonT(40) DEF Tracked, IsConfirmed
  <2>5. QED BY <2>2, <2>3, <2>4, Zenon
<1>7. QED BY <1>2, <1>5, <1>6, Zenon

\* A skipped message is confirmed.
LEMMA SkipKept ==
    ASSUME FiniteCounts, KeptInv, CursorInv', PumpSkip
    PROVE  Kept' /\ NoMessageLost'
<1>1. /\ pc = "accepted" /\ pc' = "top" /\ msg \in Msgs /\ msg' = NoMsg
      /\ ConfirmBackendQueue(msg) /\ done' = done \cup {msg}
      /\ UNCHANGED <<queueEnd, readPos, inFlight, requeuedMsgChan, waitingRequeueMsgs, hand, lastData,
                     consumeDisabled, needResetReader, adminPc, readerChanged>>
  BY DEF PumpSkip, KeptInv, CursorInv, DoneInv, HoldInv, modes, session, admin
<1>2. /\ FiniteCounts /\ CursorInv /\ TypeOK /\ DoneInv /\ BothEnds(confirmedMsgs.elems)
  BY DEF KeptInv, Kept, CursorInv
<1>3. confirmed <= confirmed' /\ confirmed' <= readPos
  BY <1>1, <1>2, ConfirmKeeps, Zenon
<1>4. /\ BothEnds(confirmedMsgs'.elems)
      /\ \A x \in Nat : x >= confirmed' /\ (Known(confirmedMsgs, x) \/ x = msg) => Known(confirmedMsgs', x)
  BY <1>1, <1>2, ConfirmKnows, Zenon
<1>5. Kept'
  BY <1>1, <1>4, Zenon DEF KeptInv, Kept, DrainPcs
<1>6. queueEnd <= queueEnd' /\ readPos' <= readPos /\ Msgs \subseteq Nat
  BY <1>1, Typed, TypedAfter, Zenon DEF KeptInv, TypeFacts
<1>7. ResetPending => ResetPending'
  BY <1>1, <1>6, StillPending, Zenon
<1>8. \A x \in Msgs : OnItsWay(x) => x = msg \/ OnItsWay(x)'
  BY <1>1, Zenon DEF OnItsWay
<1>9. \A x \in Msgs : x >= confirmed' /\ (Known(confirmedMsgs, x) \/ OnItsWay(x)) =>
                              Known(confirmedMsgs', x) \/ OnItsWay(x)'
  BY <1>4, <1>6, <1>8, Zenon
<1>10. QED BY <1>3, <1>5, <1>6, <1>7, <1>9, Stays, ZenonT(40)

\* No step of messagePump loses a message.
LEMMA PumpKept ==
    ASSUME FiniteCounts, KeptInv, CursorInv', Pump
    PROVE  Kept' /\ NoMessageLost'
<1> USE DEF backend, confirms, requeues, signals, modes, session, pump, admin
<1>1. /\ queueEnd \in Nat /\ \A i \in DOMAIN readerChanged : readerChanged[i] <= queueEnd
      /\ Kept /\ readerChanged \in Seq(Resets)
  BY Typed, Zenon DEF KeptInv, Kept, TypeFacts
<1>2. queueEnd <= queueEnd
  BY <1>1
<1>3. CASE PumpReset
  <2>1. readPos' = confirmed' /\ pc' = "drainFlight" /\ pc = "top"
        /\ UNCHANGED <<confirmedMsgs, msg, readerChanged, queueEnd, adminPc, consumeDisabled>>
    BY <1>3, Zenon DEF PumpReset
  <2>2. Kept'
    BY <1>1, <2>1, Zenon DEF Kept
  <2>3. QED BY <2>1, <2>2, NothingRead, Zenon
<1>4. CASE PumpDrainFlight \/ PumpDrainConfirmed \/ PumpDrainWaiting
  <2>1. /\ pc \in DrainPcs /\ pc' \in {"drainConfirmed", "drainWaiting", "top", "read"}
        /\ UNCHANGED <<readPos, confirmed, msg, readerChanged, queueEnd, adminPc, consumeDisabled>>
    BY <1>4, Zenon DEF PumpDrainFlight, PumpDrainConfirmed, PumpDrainWaiting, DrainPcs
  <2>2. readPos' = confirmed' /\ msg' = NoMsg
    BY <1>1, <2>1, Zenon DEF Kept, DrainPcs
  <2>3. BothEnds(confirmedMsgs'.elems)
    <3>1. CASE PumpDrainConfirmed
      <4>1. confirmedMsgs' \in {NewIntervalHash, DeleteLower(confirmedMsgs, confirmed)}
        BY <3>1, Zenon DEF PumpDrainConfirmed, DrainConfirmed
      <4>2. Shaped(confirmedMsgs.elems, Positions) /\ BothEnds(confirmedMsgs.elems) /\ confirmed \in Nat
        BY Typed, Zenon DEF KeptInv, Kept, TypeFacts
      <4>3. QED BY <4>1, <4>2, NewIsWhole, DeleteLowerKnows, Zenon
    <3>2. CASE PumpDrainFlight \/ PumpDrainWaiting
      BY <1>1, <3>2, Zenon DEF PumpDrainFlight, PumpDrainWaiting, Kept
    <3>3. QED BY <1>4, <3>1, <3>2, Zenon
  <2>4. Kept'
    BY <1>1, <2>1, <2>2, <2>3 DEF Kept
  <2>5. QED BY <2>2, <2>4, NothingRead, Zenon
<1>5. CASE PumpWait \/ PumpHold \/ PumpTryRead \/ PumpEndUpdated \/ PumpAccept \/ PumpOffer
  <2>1. UNCHANGED <<queueEnd, readPos, confirmed, confirmedMsgs, inFlight, requeuedMsgChan, waitingRequeueMsgs,
                    hand, msg, lastData, consumeDisabled, needResetReader, adminPc, readerChanged>>
    BY <1>5, Zenon DEF PumpWait, PumpHold, PumpTryRead, PumpEndUpdated, PumpAccept, PumpOffer
  <2>2. /\ pc' \in {"selectNil", "hold", "top", "accepted", "dispatch"}
        /\ pc' \in {"accepted", "dispatch"} \/ pc \in {"top", "hold", "selectNil", "selectData", "selectEnd"}
    BY <1>5, Zenon DEF PumpWait, PumpHold, PumpTryRead, PumpEndUpdated, PumpAccept, PumpOffer, Selecting
  <2>3. Kept'
    BY <1>1, <2>1, <2>2, Zenon DEF Kept, DrainPcs
  <2>4. QED BY <1>2, <2>1, <2>3, NothingMoves, Zenon
<1>6. CASE PumpRead
  BY <1>6, ReadKept, Zenon
<1>7. CASE PumpTakeRequeued
  BY <1>7, TakeRequeuedKept, Zenon
<1>8. CASE PumpTakeData
  <2>1. /\ pc = "selectData" /\ pc' = "check" /\ msg' = lastData
        /\ UNCHANGED <<queueEnd, readPos, confirmed, confirmedMsgs, inFlight, requeuedMsgChan, waitingRequeueMsgs,
                       hand, consumeDisabled, needResetReader, adminPc, readerChanged>>
    BY <1>8, Zenon DEF PumpTakeData
  <2>2. msg = NoMsg
    BY <1>1, <2>1, Zenon DEF Kept
  <2>3. Kept'
    BY <1>1, <2>1, Zenon DEF Kept, DrainPcs
  <2>4. ResetPending => ResetPending'
    BY <1>2, <2>1, StillPending, Zenon
  <2>5. \A x \in Msgs : OnItsWay(x) => OnItsWay(x)'
    <3>1. \A x \in Msgs : x # NoMsg
      BY ConstantsAssumption, SMTT(40) DEF Msgs, NoMsg
    <3>2. QED BY <3>1, <2>1, <2>2, Zenon DEF OnItsWay
  <2>6. confirmed <= confirmed' /\ readPos' <= readPos
    BY <2>1, Typed, TypedAfter, Zenon DEF KeptInv, TypeFacts
  <2>7. QED BY <2>1, <2>3, <2>4, <2>5, <2>6, Stays, ZenonT(40)
<1>9. CASE PumpResetRequested
  <2>1. /\ needResetReader' \in {1, 2} /\ pc' = "top" /\ msg' = NoMsg /\ readerChanged # <<>>
        /\ readerChanged' = Tail(readerChanged)
        /\ UNCHANGED <<queueEnd, readPos, confirmed, confirmedMsgs, adminPc, consumeDisabled>>
    BY <1>9, Zenon DEF PumpResetRequested, TakesReset
  <2>2. \A i \in DOMAIN readerChanged' : readerChanged'[i] <= queueEnd
    BY <1>1, <2>1, TailResets, Zenon
  <2>3. Kept'
    BY <1>1, <2>1, <2>2, Zenon DEF Kept, DrainPcs
  <2>4. ResetPending'
    BY <2>1 DEF ResetPending
  <2>5. QED BY <2>3, <2>4, Zenon DEF NoMessageLost
<1>10. CASE SeekDone
  <2>1. /\ readPos' = confirmed' /\ pc' = "drainFlight" /\ msg' = NoMsg /\ readerChanged # <<>>
        /\ readerChanged' = Tail(readerChanged)
        /\ UNCHANGED <<queueEnd, confirmedMsgs, adminPc, consumeDisabled>>
    BY <1>10, Zenon DEF SeekDone, TakesReset
  <2>2. \A i \in DOMAIN readerChanged' : readerChanged'[i] <= queueEnd
    BY <1>1, <2>1, TailResets, Zenon
  <2>3. Kept'
    BY <1>1, <2>1, <2>2, Zenon DEF Kept
  <2>4. QED BY <2>1, <2>3, NothingRead, Zenon
<1>11. CASE SeekFails
  <2>1. readerChanged # <<>> /\ Head(readerChanged) > queueEnd
    BY <1>11, Zenon DEF SeekFails, TakesReset
  <2>2. Head(readerChanged) = readerChanged[1] /\ 1 \in DOMAIN readerChanged /\ readerChanged[1] \in Int
    BY <1>1, <2>1, SMTT(40) DEF Resets, ResetKeep, ResetClear
  <2>3. QED BY <1>1, <2>1, <2>2, SMTT(40)
<1>12. CASE PumpDrop
  <2>1. /\ consumeDisabled /\ pc' = "top" /\ msg' = NoMsg
        /\ UNCHANGED <<queueEnd, readPos, confirmed, confirmedMsgs, adminPc, consumeDisabled, readerChanged>>
    BY <1>12, Zenon DEF PumpDrop
  <2>2. Kept'
    BY <1>1, <2>1, Zenon DEF Kept, DrainPcs
  <2>3. QED BY <2>1, <2>2, Zenon DEF NoMessageLost, ResetPending
<1>13. CASE PumpOutOfOrder
  <2>1. /\ needResetReader' = 2 /\ pc' = "top" /\ msg' = NoMsg
        /\ UNCHANGED <<queueEnd, readPos, confirmed, confirmedMsgs, adminPc, consumeDisabled, readerChanged>>
    BY <1>13, Zenon DEF PumpOutOfOrder
  <2>2. Kept'
    BY <1>1, <2>1, Zenon DEF Kept, DrainPcs
  <2>3. QED BY <2>1, <2>2, SMTT(40) DEF NoMessageLost, ResetPending
<1>14. CASE PumpSkip
  BY <1>14, SkipKept
<1>15. QED
  BY <1>3, <1>4, <1>5, <1>6, <1>7, <1>8, <1>9, <1>10, <1>11, <1>12, <1>13, <1>14, ZenonT(60) DEF Pump, PumpSeek

-----------------------------------------------------------------------------
(* The connections.                                                        *)

\* A message that is confirmed may leave whoever had it.
LEMMA ConfirmKept ==
    ASSUME FiniteCounts, KeptInv, CursorInv', NEW m \in Msgs, ConfirmBackendQueue(m), done' = done \cup {m},
           UNCHANGED <<queueEnd, readPos, pc, msg, consumeDisabled, needResetReader, adminPc, readerChanged>>,
           \A x \in Msgs : OnItsWay(x) => x = m \/ OnItsWay(x)'
    PROVE  Kept' /\ NoMessageLost'
<1>1. /\ FiniteCounts /\ CursorInv /\ TypeOK /\ DoneInv /\ BothEnds(confirmedMsgs.elems) /\ Kept
  BY DEF KeptInv, Kept, CursorInv
<1>2. confirmed <= confirmed' /\ confirmed' <= readPos
  BY <1>1, ConfirmKeeps, Zenon
<1>3. /\ BothEnds(confirmedMsgs'.elems)
      /\ \A x \in Nat : x >= confirmed' /\ (Known(confirmedMsgs, x) \/ x = m) => Known(confirmedMsgs', x)
  BY <1>1, ConfirmKnows, ZenonT(40)
<1>4. queueEnd <= queueEnd' /\ readPos' <= readPos /\ Msgs \subseteq Nat /\ confirmed \in Nat /\ confirmed' \in Nat
      /\ readPos \in Nat
  BY Typed, TypedAfter, Zenon DEF KeptInv, TypeFacts
<1>5. Kept'
  <2>1. pc' \in DrainPcs => readPos' = confirmed'
    BY <1>1, <1>2, <1>4, SMTT(40) DEF Kept
  <2>2. QED BY <1>1, <1>3, <2>1, Zenon DEF Kept
<1>6. ResetPending => ResetPending'
  BY <1>4, StillPending, Zenon
<1>7. \A x \in Msgs : x >= confirmed' /\ (Known(confirmedMsgs, x) \/ OnItsWay(x)) =>
                              Known(confirmedMsgs', x) \/ OnItsWay(x)'
  BY <1>3, <1>4, Zenon
<1>8. QED BY <1>2, <1>4, <1>5, <1>6, <1>7, Stays, ZenonT(40)

\* What doRequeue takes out of flight is in the channel or waits for room in it.
LEMMA RequeueKept ==
    ASSUME KeptInv, CursorInv', NEW m \in Msgs, DoRequeue(m), inFlight' = [inFlight EXCEPT ![m] = "absent"],
           UNCHANGED <<queueEnd, readPos, confirmed, confirmedMsgs, hand, pc, msg, lastData,
                       consumeDisabled, needResetReader, adminPc, readerChanged>>
    PROVE  Kept' /\ NoMessageLost'
<1>1. Kept'
  BY Zenon DEF KeptInv, Kept
<1>2. queueEnd <= queueEnd' /\ readPos' <= readPos /\ confirmed <= confirmed'
  BY Typed, TypedAfter, Zenon DEF KeptInv, TypeFacts
<1>3. ResetPending => ResetPending'
  BY <1>2, StillPending, Zenon
<1>4. requeuedMsgChan \in Seq(Msgs) /\ inFlight \in [Msgs -> Clients \cup {"absent", "deferred"}]
  BY Typed, Zenon DEF KeptInv, TypeFacts
<1>5. /\ waitingRequeueMsgs \subseteq waitingRequeueMsgs'
      /\ \A x \in Msgs : (\E i \in DOMAIN requeuedMsgChan : requeuedMsgChan[i] = x)
                            => \E i \in DOMAIN requeuedMsgChan' : requeuedMsgChan'[i] = x
      /\ m \in waitingRequeueMsgs' \/ \E i \in DOMAIN requeuedMsgChan' : requeuedMsgChan'[i] = m
  <2>1. CASE Len(requeuedMsgChan) < ReqCap
    <3>1. requeuedMsgChan' = Append(requeuedMsgChan, m) /\ UNCHANGED waitingRequeueMsgs
      BY <2>1, Zenon DEF DoRequeue
    <3>2. /\ DOMAIN requeuedMsgChan' = 1 .. Len(requeuedMsgChan) + 1
          /\ requeuedMsgChan'[Len(requeuedMsgChan) + 1] = m
          /\ \A i \in 1 .. Len(requeuedMsgChan) : requeuedMsgChan'[i] = requeuedMsgChan[i]
          /\ DOMAIN requeuedMsgChan = 1 .. Len(requeuedMsgChan) /\ Len(requeuedMsgChan) \in Nat
      BY <3>1, <1>4, SMTT(40)
    <3>3. Len(requeuedMsgChan) + 1 \in DOMAIN requeuedMsgChan' /\ DOMAIN requeuedMsgChan \subseteq DOMAIN requeuedMsgChan'
      <4> HIDE <3>1, <1>5
      <4>1. QED BY <3>2
    <3>4. QED BY <3>1, <3>2, <3>3, Zenon
  <2>2. CASE ~(Len(requeuedMsgChan) < ReqCap)
    BY <2>2 DEF DoRequeue
  <2>3. QED BY <2>1, <2>2, Zenon
<1>6. \A x \in Msgs : OnItsWay(x) => OnItsWay(x)'
  <2> SUFFICES ASSUME NEW x \in Msgs, OnItsWay(x) PROVE OnItsWay(x)'
    BY Zenon
  <2>1. x # m => inFlight'[x] = inFlight[x]
    BY <1>4
  <2>2. QED BY <2>1, <1>5, Zenon DEF OnItsWay
<1>7. QED BY <1>1, <1>2, <1>3, <1>6, Stays, ZenonT(40)

\* FIN, and a message moved to the end of the queue: confirmed as it leaves flight.
LEMMA FinishKept ==
    ASSUME FiniteCounts, KeptInv, CursorInv', NEW m \in Msgs, Finish(m), UNCHANGED adminPc
    PROVE  Kept' /\ NoMessageLost'
<1>1. /\ ConfirmBackendQueue(m) /\ done' = done \cup {m} /\ inFlight' = [inFlight EXCEPT ![m] = "absent"]
      /\ UNCHANGED <<queueEnd, readPos, pc, msg, lastData, consumeDisabled, needResetReader, readerChanged,
                     requeuedMsgChan, waitingRequeueMsgs, hand>>
  BY Zenon DEF Finish, requeues, modes, session, pump
<1>2. inFlight \in [Msgs -> Clients \cup {"absent", "deferred"}]
  BY Typed, Zenon DEF KeptInv, TypeFacts
<1>3. \A x \in Msgs : x # m => inFlight'[x] = inFlight[x]
  BY <1>1, <1>2, Zenon
<1>4. \A x \in Msgs : OnItsWay(x) => x = m \/ OnItsWay(x)'
  BY <1>1, <1>3, Zenon DEF OnItsWay
<1>5. QED BY <1>1, <1>4, ConfirmKept, ZenonT(40)

\* No step of a connection loses a message.
LEMMA ClientKept ==
    ASSUME FiniteCounts, KeptInv, CursorInv', NEW c \in Clients, Client(c)
    PROVE  Kept' /\ NoMessageLost'
<1> USE DEF backend, confirms, requeues, signals, modes, session, pump, admin
<1>1. /\ queueEnd \in Nat /\ readPos \in Nat /\ confirmed \in Nat /\ Kept
      /\ Msgs \subseteq Nat /\ NoMsg \notin Msgs /\ Shaped(confirmedMsgs.elems, Positions)
      /\ hand \in [Clients -> Msgs \cup {NoMsg}]
      /\ inFlight \in [Msgs -> Clients \cup {"absent", "deferred"}]
  BY Typed, Zenon DEF KeptInv, TypeFacts
<1>2. queueEnd <= queueEnd /\ readPos <= readPos /\ confirmed <= confirmed
  BY <1>1
<1>3. CASE Sub(c)
  <2> DEFINE rs == IF OrderedTopic /\ ~requireOrder THEN <<ResetClear>> ELSE <<>>
  <2>1. /\ SendResets(rs)
        /\ UNCHANGED <<queueEnd, readPos, confirmed, confirmedMsgs, inFlight, requeuedMsgChan, waitingRequeueMsgs,
                       hand, msg, lastData, pc, consumeDisabled, needResetReader, adminPc>>
    BY <1>3, Zenon DEF Sub
  <2>2. rs \in Seq(Resets) /\ \A i \in DOMAIN rs : rs[i] <= queueEnd
    BY <1>1, ResetSeqs, SMTT(40) DEF ResetClear
  <2>3. /\ \A i \in DOMAIN readerChanged' : readerChanged'[i] <= queueEnd
        /\ readerChanged # <<>> => readerChanged' # <<>>
    BY <2>1, <2>2, SentResets, ZenonT(40)
  <2>4. Kept'
    BY <1>1, <2>1, <2>3, Zenon DEF Kept
  <2>5. ResetPending => ResetPending'
    BY <2>1, <2>3, QueuedPending, Zenon
  <2>6. \A x \in Msgs : OnItsWay(x) => OnItsWay(x)'
    BY <2>1, Zenon DEF OnItsWay
  <2>7. QED BY <1>2, <2>1, <2>4, <2>5, <2>6, Stays, ZenonT(40)
<1>4. CASE ClientTake(c)
  <2>1. /\ pc = "dispatch" /\ pc' = "top" /\ msg' = NoMsg /\ hand[c] = NoMsg
        /\ hand' = [hand EXCEPT ![c] = msg]
        /\ UNCHANGED <<queueEnd, readPos, confirmed, confirmedMsgs, inFlight, requeuedMsgChan, waitingRequeueMsgs,
                       lastData, consumeDisabled, needResetReader, adminPc, readerChanged>>
    BY <1>4, Zenon DEF ClientTake
  <2>2. Kept'
    BY <1>1, <2>1, Zenon DEF Kept, DrainPcs
  <2>3. ResetPending => ResetPending'
    BY <1>2, <2>1, StillPending, Zenon
  <2>4. hand'[c] = msg /\ \A d \in Clients : d # c => hand'[d] = hand[d]
    BY <1>1, <2>1, Zenon
  <2>5. \A x \in Msgs : OnItsWay(x) => OnItsWay(x)'
    BY <1>1, <2>1, <2>4, ZenonT(40) DEF OnItsWay
  <2>6. QED BY <1>2, <2>1, <2>2, <2>3, <2>5, Stays, ZenonT(40)
<1>5. CASE ClientCheck(c)
  <2>1. /\ UNCHANGED <<queueEnd, readPos, confirmed, confirmedMsgs, inFlight, requeuedMsgChan, waitingRequeueMsgs,
                       lastData, pc, msg, consumeDisabled, needResetReader, adminPc, readerChanged>>
    BY <1>5, Zenon DEF ClientCheck
  <2>2. \/ hand' = hand
        \/ hand[c] # NoMsg /\ IsConfirmed(hand[c]) /\ hand' = [hand EXCEPT ![c] = NoMsg]
    BY <1>5, Zenon DEF ClientCheck
  <2>3. Kept'
    BY <1>1, <2>1, Zenon DEF Kept
  <2>4. ResetPending => ResetPending'
    BY <1>2, <2>1, StillPending, Zenon
  <2>5. \A x \in Msgs : IsConfirmed(x) => Known(confirmedMsgs, x)
    BY <1>1, OverlapKnown, Zenon DEF IsConfirmed
  <2>6. \A x \in Msgs, d \in Clients : hand[d] = x => hand'[d] = x \/ Known(confirmedMsgs, x)
    BY <1>1, <2>2, <2>5, Zenon
  <2>7. \A x \in Msgs : OnItsWay(x) => Known(confirmedMsgs, x) \/ OnItsWay(x)'
    BY <2>1, <2>6, Zenon DEF OnItsWay
  <2>8. confirmedMsgs' = confirmedMsgs
    BY <2>1, Zenon
  <2>9. QED BY <1>2, <2>1, <2>3, <2>4, <2>7, <2>8, Stays, ZenonT(40)
<1>6. CASE ClientSample(c)
  <2>1. /\ hand[c] # NoMsg /\ ConfirmBackendQueue(hand[c]) /\ done' = done \cup {hand[c]}
        /\ hand' = [hand EXCEPT ![c] = NoMsg]
        /\ UNCHANGED <<queueEnd, readPos, inFlight, requeuedMsgChan, waitingRequeueMsgs,
                       lastData, pc, msg, consumeDisabled, needResetReader, adminPc, readerChanged>>
    BY <1>6, Zenon DEF ClientSample
  <2>2. hand[c] \in Msgs /\ \A d \in Clients : d # c => hand'[d] = hand[d]
    BY <1>1, <2>1, Zenon
  <2>3. \A x \in Msgs : OnItsWay(x) => x = hand[c] \/ OnItsWay(x)'
    BY <2>1, <2>2, Zenon DEF OnItsWay
  <2>4. QED BY <2>1, <2>2, <2>3, ConfirmKept, ZenonT(40)
<1>7. CASE ClientPush(c)
  <2>1. /\ UNCHANGED <<queueEnd, readPos, confirmed, confirmedMsgs, requeuedMsgChan, waitingRequeueMsgs,
                       lastData, pc, msg, consumeDisabled, needResetReader, adminPc, readerChanged>>
        /\ hand' = [hand EXCEPT ![c] = NoMsg]
        /\ IF consumeDisabled \/ inFlight[hand[c]] # "absent"
           THEN UNCHANGED inFlight ELSE inFlight' = [inFlight EXCEPT ![hand[c]] = c]
    BY <1>7, Zenon DEF ClientPush
  <2>2. Kept'
    BY <1>1, <2>1, Zenon DEF Kept
  <2>3. ResetPending => ResetPending'
    BY <1>2, <2>1, StillPending, Zenon
  <2>4. \A d \in Clients : d # c => hand'[d] = hand[d]
    BY <1>1, <2>1, Zenon
  <2>5. \A x \in Msgs : inFlight[x] # "absent" => inFlight'[x] # "absent"
    BY <1>1, <2>1, ClientsAssumption, Zenon
  <2>6. \A x \in Msgs : hand[c] = x => inFlight'[x] # "absent" \/ consumeDisabled'
    BY <1>1, <2>1, ClientsAssumption, Zenon
  <2>7. \A x \in Msgs : OnItsWay(x) => OnItsWay(x)' \/ consumeDisabled'
    BY <2>1, <2>4, <2>5, <2>6, ZenonT(40) DEF OnItsWay
  <2>8. consumeDisabled' => ResetPending'
    BY Zenon DEF ResetPending
  <2>9. QED BY <1>2, <2>1, <2>2, <2>3, <2>7, <2>8, Stays, ZenonT(40)
<1>8. CASE Heartbeat(c) \/ Close(c) \/ Stopped(c) \/ RemoveClient(c)
  <2>1. UNCHANGED <<queueEnd, readPos, confirmed, confirmedMsgs, inFlight, requeuedMsgChan, waitingRequeueMsgs,
                    hand, msg, lastData, pc, consumeDisabled, needResetReader, adminPc, readerChanged>>
    BY <1>8 DEF Heartbeat, Close, Stopped, RemoveClient
  <2>2. Kept'
    BY <1>1, <2>1, Zenon DEF Kept
  <2>3. QED BY <1>2, <2>1, <2>2, NothingMoves, ZenonT(60)
<1>9. ASSUME NEW m \in Msgs, Fin(c, m) PROVE Kept' /\ NoMessageLost'
  BY <1>9, FinishKept, Zenon DEF Fin
<1>10. ASSUME NEW m \in Msgs, Requeue(c, m) PROVE Kept' /\ NoMessageLost'
  <2>1. /\ DoRequeue(m) /\ inFlight' = [inFlight EXCEPT ![m] = "absent"]
        /\ UNCHANGED <<queueEnd, readPos, confirmed, confirmedMsgs, hand, pc, msg, lastData,
                       consumeDisabled, needResetReader, adminPc, readerChanged>>
    BY <1>10 DEF Requeue
  <2>2. QED BY <2>1, RequeueKept, ZenonT(40)
<1>11. ASSUME NEW m \in Msgs, ReqDefer(c, m) PROVE Kept' /\ NoMessageLost'
  <2>1. /\ inFlight' = [inFlight EXCEPT ![m] = "deferred"]
        /\ UNCHANGED <<queueEnd, readPos, confirmed, confirmedMsgs, requeuedMsgChan, waitingRequeueMsgs,
                       hand, pc, msg, lastData, consumeDisabled, needResetReader, adminPc, readerChanged>>
    BY <1>11, Zenon DEF ReqDefer
  <2>2. Kept'
    BY <1>1, <2>1, Zenon DEF Kept
  <2>3. ResetPending => ResetPending'
    BY <1>2, <2>1, StillPending, Zenon
  <2>4. \A x \in Msgs : inFlight[x] # "absent" => inFlight'[x] # "absent"
    BY <1>1, <2>1, Zenon
  <2>5. \A x \in Msgs : OnItsWay(x) => OnItsWay(x)'
    BY <2>1, <2>4, Zenon DEF OnItsWay
  <2>6. QED BY <1>2, <2>1, <2>2, <2>3, <2>5, Stays, ZenonT(40)
<1>12. QED
  BY <1>3, <1>4, <1>5, <1>6, <1>7, <1>8, <1>9, <1>10, <1>11, ZenonT(40) DEF Client, Req, RequeueClientMessage

-----------------------------------------------------------------------------
(* The scanner, the administrator and the topic.                           *)

\* What a scan moves from the overflow map into requeuedMsgChan was in the map.
LEMMA ScanMoves ==
    ASSUME FiniteCounts, CursorInv, ScanRequeue, ~consumeDisabled
    PROVE  \E q \in Seq(Msgs) :
               /\ \A i \in DOMAIN q : q[i] \in waitingRequeueMsgs
               /\ requeuedMsgChan' = requeuedMsgChan \o q
               /\ waitingRequeueMsgs' = waitingRequeueMsgs \ {q[i] : i \in DOMAIN q}
<1> DEFINE cnt == Lower(ReqCap - Len(requeuedMsgChan), Cardinality(waitingRequeueMsgs))
<1>1. PICK q \in [1 .. cnt -> waitingRequeueMsgs] :
          /\ requeuedMsgChan' = requeuedMsgChan \o q
          /\ waitingRequeueMsgs' = waitingRequeueMsgs \ {q[i] : i \in 1 .. cnt}
  BY Zenon DEF ScanRequeue
<1>2. requeuedMsgChan \in Seq(Msgs) /\ waitingRequeueMsgs \subseteq Msgs
  BY Typed, Zenon DEF TypeFacts
<1>3. cnt \in Int
  <2>1. Msgs \subseteq Positions
    BY ConstantsAssumption DEF Msgs, Positions
  <2>2. Cardinality(waitingRequeueMsgs) \in Nat
    BY <1>2, <2>1, Zenon DEF FiniteCounts
  <2>3. Len(requeuedMsgChan) \in Nat
    BY <1>2
  <2>4. QED BY <2>2, <2>3, ConstantsAssumption DEF Lower
<1> HIDE DEF cnt
<1>4. PICK n \in Nat : 1 .. cnt = 1 .. n
  <2>1. 1 .. cnt = 1 .. (IF cnt > 0 THEN cnt ELSE 0) /\ (IF cnt > 0 THEN cnt ELSE 0) \in Nat
    BY <1>3
  <2>2. QED BY <2>1, Zenon
<1>5. q \in [1 .. n -> Msgs] /\ q \in [1 .. n -> waitingRequeueMsgs]
  BY <1>1, <1>2, <1>4, Zenon
<1>6. q \in Seq(Msgs) /\ DOMAIN q = 1 .. n
  BY <1>5, FunctionIsSequence, Zenon
<1>7. \A i \in DOMAIN q : q[i] \in waitingRequeueMsgs
  BY <1>5, <1>6, Zenon
<1>8. QED BY <1>1, <1>4, <1>6, <1>7, Zenon

\* Messages moved from the overflow map into requeuedMsgChan.
LEMMA ScanRequeueKept ==
    ASSUME FiniteCounts, KeptInv, CursorInv', ScanRequeue
    PROVE  Kept' /\ NoMessageLost'
<1>1. UNCHANGED <<queueEnd, readPos, confirmed, confirmedMsgs, inFlight, hand, pc, msg, lastData,
                  consumeDisabled, needResetReader, adminPc, readerChanged>>
  BY Zenon DEF ScanRequeue, backend, confirms, signals, modes, session, pump, admin
<1>2. Kept'
  BY <1>1, Zenon DEF KeptInv, Kept
<1>3. queueEnd <= queueEnd' /\ readPos' <= readPos /\ confirmed <= confirmed'
  BY <1>1, Typed, TypedAfter, Zenon DEF KeptInv, TypeFacts
<1>4. ResetPending => ResetPending'
  BY <1>1, <1>3, StillPending, Zenon
<1>5. requeuedMsgChan \in Seq(Msgs) /\ waitingRequeueMsgs \subseteq Msgs
  BY Typed, Zenon DEF KeptInv, TypeFacts
<1>6. \A x \in Msgs : x \in waitingRequeueMsgs \/ (\E i \in DOMAIN requeuedMsgChan : requeuedMsgChan[i] = x)
          => x \in waitingRequeueMsgs' \/ \E i \in DOMAIN requeuedMsgChan' : requeuedMsgChan'[i] = x
  <2>1. CASE consumeDisabled
    BY <2>1, Zenon DEF ScanRequeue, requeues
  <2>2. CASE ~consumeDisabled
    <3>1. PICK q \in Seq(Msgs) :
              /\ requeuedMsgChan' = requeuedMsgChan \o q
              /\ waitingRequeueMsgs' = waitingRequeueMsgs \ {q[i] : i \in DOMAIN q}
      BY <2>2, ScanMoves, Zenon DEF KeptInv
    <3>2. /\ \A i \in DOMAIN requeuedMsgChan :
                 i \in DOMAIN requeuedMsgChan' /\ requeuedMsgChan'[i] = requeuedMsgChan[i]
          /\ \A j \in DOMAIN q : LET i == Len(requeuedMsgChan) + j IN
                 i \in DOMAIN requeuedMsgChan' /\ requeuedMsgChan'[i] = q[j]
      BY <1>5, <3>1, EntriesOfBoth, Zenon
    <3>3. \A x \in waitingRequeueMsgs : x \in waitingRequeueMsgs' \/ \E j \in DOMAIN q : x = q[j]
      BY <3>1, Zenon
    <3>4. QED BY <3>2, <3>3, ZenonT(60)
  <2>3. QED BY <2>1, <2>2, Zenon
<1>7. \A x \in Msgs : OnItsWay(x) => OnItsWay(x)'
  BY <1>1, <1>6, Zenon DEF OnItsWay
<1>8. QED BY <1>1, <1>2, <1>3, <1>4, <1>7, Stays, ZenonT(40)

\* What the end of a scan sends on readerChanged: requests to go back to the confirmed
\* position.
LEMMA ScanResets ==
    ASSUME NEW a \in {<<>>, <<ResetKeep>>}, NEW b \in {<<>>, <<ResetClear>>}
    PROVE  /\ a \in Seq(Resets) /\ b \in Seq(Resets) /\ a \o b \in Seq(Resets)
           /\ \A i \in DOMAIN (a \o b) : (a \o b)[i] \in Int /\ (a \o b)[i] < 0
           /\ a = <<ResetKeep>> => a \o b # <<>>
<1>1. a \in Seq(Resets) /\ b \in Seq(Resets)
  BY ResetSeqs, Zenon
<1>2. \A i \in 1 .. Len(a) : a[i] \in Int /\ a[i] < 0
  BY DEF ResetKeep
<1>3. \A i \in 1 .. Len(b) : b[i] \in Int /\ b[i] < 0
  BY DEF ResetClear
<1>4. a \o b \in Seq(Resets) /\ Len(a \o b) = Len(a) + Len(b)
  BY <1>1
<1>5. \A i \in 1 .. Len(a) + Len(b) : (a \o b)[i] \in Int /\ (a \o b)[i] < 0
  <2> TAKE i \in 1 .. Len(a) + Len(b)
  <2>1. CASE i <= Len(a)
    <3>1. (a \o b)[i] = a[i] /\ i \in 1 .. Len(a)
      BY <1>1, <2>1, SMTT(40)
    <3>2. QED BY <3>1, <1>2, SMTT(40)
  <2>2. CASE ~(i <= Len(a))
    <3>1. (a \o b)[i] = b[i - Len(a)] /\ i - Len(a) \in 1 .. Len(b)
      BY <1>1, <2>2, SMTT(40)
    <3>2. QED BY <3>1, <1>3, Zenon
  <2>3. QED BY <2>1, <2>2
<1>6. a = <<ResetKeep>> => Len(a) = 1
  OBVIOUS
<1>7. a = <<ResetKeep>> => Len(a \o b) > 0
  BY <1>1, <1>4, <1>6, SMTT(40)
<1>8. a = <<ResetKeep>> => a \o b # <<>>
  BY <1>7
<1>9. QED BY <1>1, <1>4, <1>5, <1>8, SMTT(40)

\* The repair at the end of a scan forgets finished messages only with a reset.
LEMMA ScanTailKept ==
    ASSUME KeptInv, CursorInv', ScanTail
    PROVE  Kept' /\ NoMessageLost'
<1> DEFINE kept == DeleteLower(confirmedMsgs, confirmed)
           repair == IF Unbacked(kept) # {} THEN <<ResetKeep>> ELSE <<>>
           rescue == IF Stuck /\ TimeElapsed THEN <<ResetClear>> ELSE <<>>
<1>1. /\ confirmedMsgs' = [kept EXCEPT !.historyMsg = Without(kept.historyMsg, Unbacked(kept))]
      /\ SendResets(repair \o rescue)
      /\ UNCHANGED <<queueEnd, readPos, confirmed, inFlight, hand, pc, msg, lastData, requeuedMsgChan,
                     waitingRequeueMsgs, consumeDisabled, needResetReader, adminPc>>
  BY Zenon DEF ScanTail, backend, requeues, modes, session, pump, admin
<1>2. /\ confirmed \in Nat /\ readPos \in Nat /\ queueEnd \in Nat /\ Kept /\ Msgs \subseteq Nat
      /\ Shaped(confirmedMsgs.elems, Positions) /\ BothEnds(confirmedMsgs.elems)
  BY Typed, Zenon DEF KeptInv, Kept, TypeFacts
<1>3. /\ BothEnds(kept.elems)
      /\ \A x \in Nat : x >= confirmed /\ Known(confirmedMsgs, x) => Known(kept, x)
  BY <1>2, DeleteLowerKnows, Zenon
<1>4. /\ confirmedMsgs'.elems = kept.elems
      /\ Unbacked(kept) = {} => confirmedMsgs'.historyMsg = Without(kept.historyMsg, {})
  BY <1>1, Zenon DEF DeleteLower
<1>5. /\ repair \in Seq(Resets) /\ rescue \in Seq(Resets) /\ repair \o rescue \in Seq(Resets)
      /\ \A i \in DOMAIN (repair \o rescue) : (repair \o rescue)[i] <= queueEnd
      /\ Unbacked(kept) # {} => repair \o rescue # <<>>
  <2>1. repair \in {<<>>, <<ResetKeep>>} /\ rescue \in {<<>>, <<ResetClear>>}
    BY Zenon
  <2>2. Unbacked(kept) # {} => repair = <<ResetKeep>>
    BY Zenon
  <2> HIDE DEF repair, rescue
  <2>3. /\ repair \in Seq(Resets) /\ rescue \in Seq(Resets) /\ repair \o rescue \in Seq(Resets)
        /\ \A i \in DOMAIN (repair \o rescue) : (repair \o rescue)[i] \in Int /\ (repair \o rescue)[i] < 0
        /\ repair = <<ResetKeep>> => repair \o rescue # <<>>
    BY <2>1, ScanResets, Zenon
  <2>4. queueEnd \in Nat
    BY <1>2
  <2>5. \A i \in DOMAIN (repair \o rescue) : (repair \o rescue)[i] <= queueEnd
    <3> DEFINE rs == repair \o rescue
    <3>1. \A i \in DOMAIN rs : rs[i] \in Int /\ rs[i] < 0
      BY <2>3
    <3> HIDE DEF rs
    <3>2. \A i \in DOMAIN rs : rs[i] <= queueEnd
      BY <2>4, <3>1
    <3>3. QED BY <3>2 DEF rs
  <2>6. QED BY <2>2, <2>3, <2>5, Zenon
<1> HIDE DEF kept, repair, rescue
<1>6. /\ \A i \in DOMAIN readerChanged' : readerChanged'[i] <= queueEnd
      /\ readerChanged # <<>> \/ repair \o rescue # <<>> => readerChanged' # <<>>
  BY <1>1, <1>5, SentResets, ZenonT(40)
<1>7. Kept'
  BY <1>1, <1>2, <1>3, <1>4, <1>6, SMTT(40) DEF Kept, BothEnds
<1>8. ResetPending => ResetPending'
  BY <1>1, <1>6, QueuedPending, Zenon
<1>9. readPos' <= readPos /\ confirmed <= confirmed' /\ confirmed' = confirmed
  BY <1>1, <1>2, SMTT(40)
<1>10. CASE Unbacked(kept) # {}
  <2>1. readerChanged' # <<>>
    BY <1>5, <1>6, <1>10, Zenon
  <2>2. 1 \in DOMAIN readerChanged'
    BY <2>1, Typed, TypedAfter, Zenon DEF TypeFacts
  <2>3. ResetPending'
    BY <2>2, <1>1, <1>6, Zenon DEF ResetPending
  <2>4. QED BY <1>7, <2>3, Zenon DEF NoMessageLost
<1>11. CASE Unbacked(kept) = {}
  <2>1. \A x \in Nat : Known(kept, x) => Known(confirmedMsgs', x)
    BY <1>4, <1>11, Zenon DEF Known, Covered, Without
  <2>2. \A x \in Msgs : OnItsWay(x) => OnItsWay(x)'
    BY <1>1, Zenon DEF OnItsWay
  <2>3. \A x \in Msgs : x >= confirmed' /\ (Known(confirmedMsgs, x) \/ OnItsWay(x)) =>
                              Known(confirmedMsgs', x) \/ OnItsWay(x)'
    BY <1>2, <1>3, <1>9, <2>1, <2>2, Zenon
  <2>4. QED BY <1>7, <1>8, <1>9, <2>3, Stays, ZenonT(40)
<1>12. QED BY <1>10, <1>11, Zenon

\* No step of processInFlightQueue loses a message.
LEMMA ScannerKept ==
    ASSUME FiniteCounts, KeptInv, CursorInv', Scanner
    PROVE  Kept' /\ NoMessageLost'
<1>1. ASSUME NEW m \in Msgs, ScanTimeout(m) PROVE Kept' /\ NoMessageLost'
  <2>1. /\ DoRequeue(m) /\ inFlight' = [inFlight EXCEPT ![m] = "absent"]
        /\ UNCHANGED <<queueEnd, readPos, confirmed, confirmedMsgs, hand, pc, msg, lastData,
                       consumeDisabled, needResetReader, adminPc, readerChanged>>
    BY <1>1, Zenon DEF ScanTimeout, backend, confirms, signals, modes, session, pump, admin
  <2>2. QED BY <2>1, RequeueKept, ZenonT(40)
<1>2. QED BY <1>1, ScanRequeueKept, ScanTailKept, Zenon DEF Scanner

\* The cursor of a follower moves as a whole, and the intervals it is sent are whole.
LEMMA FollowKept ==
    ASSUME KeptInv, CursorInv', NEW offset \in 0 .. queueEnd, NEW back \in BOOLEAN, NEW updates \in BOOLEAN,
           NEW list \in IntervalLists, UpdateChannelOffset(offset, back, updates, list)
    PROVE  Kept' /\ NoMessageLost'
<1> DEFINE ih == IF updates THEN UpdateConfirmedInterval(list) ELSE confirmedMsgs
           base == IF HashLen(confirmedMsgs) # 0 THEN NewIntervalHash ELSE confirmedMsgs
<1>1. /\ Shaped(confirmedMsgs.elems, Positions) /\ BothEnds(confirmedMsgs.elems) /\ Kept
      /\ queueEnd \in Positions /\ Positions \in SUBSET Nat /\ 0 .. queueEnd \subseteq Positions
  <2>1. /\ Shaped(confirmedMsgs.elems, Positions) /\ BothEnds(confirmedMsgs.elems) /\ Kept
        /\ queueEnd \in Positions /\ Positions \in SUBSET Nat
    BY Typed, Zenon DEF KeptInv, Kept, TypeFacts
  <2>2. 0 .. queueEnd \subseteq Positions
    BY <2>1, ConstantsAssumption, SMTT(40) DEF Positions
  <2>3. QED BY <2>1, <2>2, Zenon
<1>2. list # <<>> => list[1] \in Positions /\ list[2] \in Positions /\ list[1] < list[2]
  BY <1>1, Zenon DEF IntervalLists
<1>3. Shaped(base.elems, Positions) /\ BothEnds(base.elems)
  BY <1>1, NewIntervalHashEmpty, NewIsWhole, Zenon
<1>4. ih \in {confirmedMsgs, base} \/ (list # <<>> /\ ih = AddOrMerge(base, list[1], list[2]))
  BY Zenon DEF UpdateConfirmedInterval
<1>5. confirmedMsgs' \in {ih, DeleteLower(ih, offset)} /\ consumeDisabled
  BY Zenon DEF UpdateChannelOffset
<1>6. (readPos' = readPos /\ confirmed' = confirmed) \/ (readPos' = offset /\ confirmed' = offset)
  BY Zenon DEF UpdateChannelOffset
<1>7. UNCHANGED <<queueEnd, pc, msg, readerChanged, adminPc, consumeDisabled>>
  BY Zenon DEF UpdateChannelOffset, signals, modes, pump
<1> HIDE DEF ih, base
<1>8. Shaped(ih.elems, Positions) /\ BothEnds(ih.elems)
  <2>1. CASE ih \in {confirmedMsgs, base}
    BY <2>1, <1>1, <1>3, Zenon
  <2>2. CASE list # <<>> /\ ih = AddOrMerge(base, list[1], list[2])
    <3>1. \A a, b \in Positions : a < b =>
              Shaped(AddOrMerge(base, a, b).elems, Positions) /\ BothEnds(AddOrMerge(base, a, b).elems)
      BY <1>1, <1>3, AddOrMergeBoth, Zenon
    <3>2. QED BY <3>1, <2>2, <1>2, ZenonT(40)
  <2>3. QED BY <1>4, <2>1, <2>2, Zenon
<1>9. offset \in Nat
  BY <1>1, Zenon
<1>10. BothEnds(confirmedMsgs'.elems)
  BY <1>5, <1>8, <1>9, DeleteLowerKnows, Zenon
<1>11. Kept'
  BY <1>1, <1>6, <1>7, <1>10, Zenon DEF Kept
<1>12. QED BY <1>5, <1>7, <1>11, Zenon DEF NoMessageLost, ResetPending

\* No administrative call loses a message.
LEMMA AdminKept ==
    ASSUME FiniteCounts, SeekBeyond = 0, KeptInv, CursorInv', Admin
    PROVE  Kept' /\ NoMessageLost'
<1> USE DEF AdminCall, backend, confirms, requeues, signals, modes, session, pump, admin
<1>1. /\ queueEnd \in Nat /\ readPos \in Nat /\ confirmed \in Nat /\ Kept
      /\ Shaped(confirmedMsgs.elems, Positions)
  BY Typed DEF KeptInv, TypeFacts
<1>2. queueEnd <= queueEnd /\ readPos <= readPos /\ confirmed <= confirmed
  BY <1>1
<1>3. ASSUME NEW r \in Resets, r <= queueEnd, SendReset(r),
             UNCHANGED <<queueEnd, readPos, confirmed, confirmedMsgs, pc, msg, consumeDisabled>>,
             adminPc' \in {adminPc, "idle"}
      PROVE  Kept' /\ NoMessageLost'
  <2>1. <<r>> \in Seq(Resets) /\ \A i \in DOMAIN <<r>> : <<r>>[i] <= queueEnd
    BY <1>3
  <2>2. SendResets(<<r>>) /\ <<r>> # <<>>
    BY <1>3 DEF SendReset
  <2>3. (\A i \in DOMAIN readerChanged' : readerChanged'[i] <= queueEnd) /\ readerChanged' # <<>>
    BY <2>1, <2>2, SentResets, ZenonT(40)
  <2>4. Kept'
    BY <1>1, <1>3, <2>3, Zenon DEF Kept, DrainPcs
  <2>5. 1 \in DOMAIN readerChanged'
    BY <2>3, Typed, TypedAfter, Zenon DEF TypeFacts
  <2>6. ResetPending'
    BY <1>3, <2>3, <2>5, Zenon DEF ResetPending
  <2>7. QED BY <2>4, <2>6, Zenon DEF NoMessageLost
<1>4. ASSUME NEW offset \in 0 .. queueEnd + SeekBeyond, SetConsumeOffset(offset)
      PROVE  Kept' /\ NoMessageLost'
  <2>1. offset \in Resets /\ offset <= queueEnd
    BY <1>1, SMTT(40) DEF Resets
  <2>2. /\ SendReset(offset) /\ adminPc' \in {adminPc, "idle"}
        /\ UNCHANGED <<queueEnd, readPos, confirmed, confirmedMsgs, pc, msg, consumeDisabled>>
    BY <1>4, Zenon DEF SetConsumeOffset
  <2>3. QED BY <1>3, <2>1, <2>2, Zenon
<1>5. CASE SetOrdered \/ EnableReset
  <2>1. ResetClear \in Resets /\ ResetKeep \in Resets /\ ResetClear <= queueEnd /\ ResetKeep <= queueEnd
    BY <1>1, SMTT(40) DEF Resets, ResetClear, ResetKeep
  <2>2. /\ SendReset(ResetClear) \/ SendReset(ResetKeep)
        /\ adminPc' \in {adminPc, "idle"}
        /\ UNCHANGED <<queueEnd, readPos, confirmed, confirmedMsgs, pc, msg, consumeDisabled>>
    BY <1>5, Zenon DEF SetOrdered, EnableReset
  <2>3. QED BY <1>3, <2>1, <2>2, Zenon
<1>6. CASE UnsetOrdered \/ DoSkip \/ EnableAgain
  <2>1. UNCHANGED <<queueEnd, readPos, confirmed, confirmedMsgs, inFlight, requeuedMsgChan, waitingRequeueMsgs,
                    hand, msg, lastData, pc, consumeDisabled, needResetReader, adminPc, readerChanged>>
    BY <1>6, Zenon DEF UnsetOrdered, DoSkip, EnableAgain
  <2>2. Kept'
    BY <1>1, <2>1, Zenon DEF Kept
  <2>3. QED BY <1>2, <2>1, <2>2, NothingMoves, Zenon
<1>7. ASSUME NEW m \in Msgs, RequeueToEnd(m) PROVE Kept' /\ NoMessageLost'
  BY <1>7, FinishKept, Zenon DEF RequeueToEnd
<1>8. CASE DisableConsume \/ AdminDrainFlight \/ AdminDrainConfirmed \/ AdminDrainWaiting
  <2>1. /\ UNCHANGED <<queueEnd, readPos, confirmed, readerChanged>>
        /\ (pc' = pc /\ msg' = msg) \/ (pc' = "top" /\ pc = "dispatch" /\ msg' = NoMsg)
    <3>1. ASSUME DisableConsume
          PROVE  /\ UNCHANGED <<queueEnd, readPos, confirmed, readerChanged>>
                 /\ (pc' = pc /\ msg' = msg) \/ (pc' = "top" /\ pc = "dispatch" /\ msg' = NoMsg)
      BY <3>1, Zenon DEF DisableConsume, TakeOffered
    <3>2. ASSUME AdminDrainFlight
          PROVE  /\ UNCHANGED <<queueEnd, readPos, confirmed, readerChanged>>
                 /\ (pc' = pc /\ msg' = msg) \/ (pc' = "top" /\ pc = "dispatch" /\ msg' = NoMsg)
      BY <3>2, Zenon DEF AdminDrainFlight, TakeOffered
    <3>3. ASSUME AdminDrainConfirmed
          PROVE  /\ UNCHANGED <<queueEnd, readPos, confirmed, readerChanged>>
                 /\ (pc' = pc /\ msg' = msg) \/ (pc' = "top" /\ pc = "dispatch" /\ msg' = NoMsg)
      BY <3>3, Zenon DEF AdminDrainConfirmed, TakeOffered
    <3>4. ASSUME AdminDrainWaiting
          PROVE  /\ UNCHANGED <<queueEnd, readPos, confirmed, readerChanged>>
                 /\ (pc' = pc /\ msg' = msg) \/ (pc' = "top" /\ pc = "dispatch" /\ msg' = NoMsg)
      BY <3>4, Zenon DEF AdminDrainWaiting, TakeOffered
    <3>5. QED BY <1>8, <3>1, <3>2, <3>3, <3>4, Zenon
  <2>2. consumeDisabled'
    <3>1. ASSUME DisableConsume PROVE consumeDisabled'
      BY <1>1, <3>1, Zenon DEF DisableConsume, TakeOffered, Kept, DrainPcs
    <3>2. ASSUME AdminDrainFlight PROVE consumeDisabled'
      BY <1>1, <3>2, Zenon DEF AdminDrainFlight, TakeOffered, Kept, DrainPcs
    <3>3. ASSUME AdminDrainConfirmed PROVE consumeDisabled'
      BY <1>1, <3>3, Zenon DEF AdminDrainConfirmed, TakeOffered, Kept, DrainPcs
    <3>4. ASSUME AdminDrainWaiting PROVE consumeDisabled'
      BY <1>1, <3>4, Zenon DEF AdminDrainWaiting, TakeOffered, Kept, DrainPcs
    <3>5. QED BY <1>8, <3>1, <3>2, <3>3, <3>4, Zenon
  <2>3. BothEnds(confirmedMsgs'.elems)
    <3>1. CASE AdminDrainConfirmed
      <4>1. confirmedMsgs' \in {NewIntervalHash, DeleteLower(confirmedMsgs, confirmed)}
        BY <3>1, Zenon DEF AdminDrainConfirmed, DrainConfirmed
      <4>2. BothEnds(confirmedMsgs.elems)
        BY <1>1, Zenon DEF Kept
      <4>3. QED BY <1>1, <4>1, <4>2, NewIsWhole, DeleteLowerKnows, Zenon
    <3>2. CASE DisableConsume \/ AdminDrainFlight \/ AdminDrainWaiting
      <4>1. confirmedMsgs' = confirmedMsgs
        <5>1. ASSUME DisableConsume PROVE confirmedMsgs' = confirmedMsgs
          BY <5>1, Zenon DEF DisableConsume, TakeOffered
        <5>2. ASSUME AdminDrainFlight PROVE confirmedMsgs' = confirmedMsgs
          BY <5>2, Zenon DEF AdminDrainFlight, TakeOffered
        <5>3. ASSUME AdminDrainWaiting PROVE confirmedMsgs' = confirmedMsgs
          BY <5>3, ZenonT(60) DEF AdminDrainWaiting, TakeOffered
        <5>4. QED BY <3>2, <5>1, <5>2, <5>3, Zenon
      <4>2. QED BY <1>1, <4>1, Zenon DEF Kept
    <3>3. QED BY <1>8, <3>1, <3>2, Zenon
  <2>4. Kept'
    BY <1>1, <2>1, <2>2, <2>3, Zenon DEF Kept, DrainPcs
  <2>5. QED BY <2>2, <2>4, Zenon DEF NoMessageLost, ResetPending
<1>9. CASE EnableConsume \/ EnableDrain
  <2>1. /\ UNCHANGED <<queueEnd, readPos, confirmed, confirmedMsgs, readerChanged>>
        /\ (pc' = pc /\ msg' = msg) \/ (pc' = "top" /\ pc = "dispatch" /\ msg' = NoMsg)
        /\ adminPc' \in {"enableDrain", "enableReset"}
    BY <1>9, Zenon DEF EnableConsume, EnableDrain, TakeOffered
  <2>2. Kept'
    BY <1>1, <2>1, Zenon DEF Kept, DrainPcs
  <2>3. QED BY <2>1, <2>2, Zenon DEF NoMessageLost, ResetPending
<1>10. QED
  BY <1>4, <1>5, <1>6, <1>7, <1>8, <1>9, FollowKept, ZenonT(40) DEF Admin

-----------------------------------------------------------------------------
\* Together the conjuncts are inductive.
LEMMA NextKept ==
    ASSUME FiniteCounts, SeekBeyond = 0, KeptInv, [Next]_vars
    PROVE  KeptInv'
<1>1. CursorInv'
  BY NextCursor, Zenon DEF KeptInv
<1>2. CASE UpdateQueueEnd
  <2>1. UNCHANGED <<readPos, confirmed, confirmedMsgs, inFlight, requeuedMsgChan, waitingRequeueMsgs,
                    hand, msg, lastData, pc, consumeDisabled, needResetReader, adminPc, readerChanged>>
    BY <1>2, Zenon DEF UpdateQueueEnd, confirms, requeues, signals, modes, session, pump, admin
  <2>2. queueEnd \in Nat /\ queueEnd' = queueEnd + 1 /\ readerChanged \in Seq(Resets)
    BY <1>2, Typed, TypedAfter, Zenon DEF UpdateQueueEnd, KeptInv, TypeFacts
  <2>3. \A i \in DOMAIN readerChanged : readerChanged[i] <= queueEnd /\ readerChanged[i] \in Int
    BY <2>2 DEF KeptInv, Kept, Resets, ResetKeep, ResetClear
  <2>4. queueEnd <= queueEnd' /\ \A i \in DOMAIN readerChanged : readerChanged[i] <= queueEnd'
    BY <2>2, <2>3, SMTT(40)
  <2>5. Kept'
    BY <2>1, <2>4, Zenon DEF KeptInv, Kept
  <2>6. QED BY <1>1, <2>1, <2>4, <2>5, NothingMoves, Zenon DEF KeptInv
<1>3. CASE Pump
  BY <1>1, <1>3, PumpKept, Zenon DEF KeptInv
<1>4. CASE \E c \in Clients : Client(c)
  BY <1>1, <1>4, ClientKept, Zenon DEF KeptInv
<1>5. CASE Scanner
  BY <1>1, <1>5, ScannerKept DEF KeptInv
<1>6. CASE Admin
  BY <1>1, <1>6, AdminKept, Zenon DEF KeptInv
<1>7. CASE UNCHANGED vars
  <2>1. UNCHANGED <<queueEnd, readPos, confirmed, confirmedMsgs, inFlight, requeuedMsgChan, waitingRequeueMsgs,
                    hand, msg, lastData, pc, consumeDisabled, needResetReader, adminPc, readerChanged>>
    BY <1>7, Zenon DEF vars, backend, confirms, requeues, signals, modes, session, pump, admin
  <2>2. queueEnd <= queueEnd'
    BY <2>1, Typed, TypedAfter, Zenon DEF KeptInv, TypeFacts
  <2>3. Kept'
    BY <2>1, Zenon DEF KeptInv, Kept
  <2>4. QED BY <1>1, <2>1, <2>2, <2>3, NothingMoves, Zenon DEF KeptInv
<1>8. QED BY <1>2, <1>3, <1>4, <1>5, <1>6, <1>7, ZenonT(60) DEF Next

\* The channel as it is opened.
LEMMA InitKept == Init => KeptInv
<1> SUFFICES ASSUME Init PROVE KeptInv
  OBVIOUS
<1>1. CursorInv
  BY InitCursor, Zenon
<1>2. Kept
  BY NewIsWhole DEF Init, Kept, DrainPcs
<1>3. readPos = 0 /\ confirmed = 0
  BY Zenon DEF Init
<1>4. NoMessageLost
  BY <1>3 DEF NoMessageLost, Msgs
<1>5. QED BY <1>1, <1>2, <1>4, Zenon DEF KeptInv

-----------------------------------------------------------------------------
(* Ordered delivery: as long as nothing moves the cursor but the clients,  *)
(* only the message at the confirmed position, or one below it, is sent.   *)


\* No offset reset, change of role or position from a leader, and the channel does not
\* stop being ordered.
Steady == Ops \cap {"offset", "disable", "unorder", "slave"} = {}

\* Before its first client subscribes the channel is not ordered yet.  It has sent
\* nothing, and the only message it may have read is the one at the confirmed position.
NotYetOrdered ==
    /\ readerChanged = <<>> /\ needResetReader = 0 /\ pc \notin DrainPcs
    /\ DOMAIN confirmedMsgs.elems = {}
    /\ \A s \in DOMAIN confirmedMsgs.historyMsg : s < confirmed /\ confirmedMsgs.historyMsg[s] \in 0 .. confirmed
    /\ \A m \in Msgs : inFlight[m] = "absent"
    /\ \A c \in Clients : hand[c] = NoMsg /\ conn[c] = "none"
    /\ requeuedMsgChan = <<>> /\ waitingRequeueMsgs = {} /\ clients = {} /\ checked = {}
    /\ consumeDisabled => pc \notin {"selectData", "check", "accepted", "dispatch"}
    /\ \/ msg = NoMsg /\ lastData = NoMsg /\ readPos = confirmed
       \/ msg = confirmed /\ lastData = NoMsg /\ readPos = confirmed + 1
       \/ msg = NoMsg /\ lastData = confirmed /\ readPos = confirmed + 1

\* What has been offered, taken or sent is not ahead of the confirmed position.
InTurn ==
    /\ pc = "dispatch" => msg <= confirmed
    /\ \A c \in Clients : hand[c] <= confirmed
    /\ \A m \in Msgs : inFlight[m] # "absent" => m <= confirmed

\* Resets only go back to the confirmed position, and the pump holds a message only
\* between its two selects.
Calm ==
    /\ adminPc = "idle" /\ \A i \in DOMAIN readerChanged : readerChanged[i] < 0
    /\ pc \notin {"check", "accepted", "dispatch"} => msg = NoMsg

OrderInv == CursorInv /\ Calm /\ InTurn /\ (~requireOrder => NotYetOrdered)

-----------------------------------------------------------------------------
\* Types used everywhere below.
LEMMA OrderTypes ==
    ASSUME OrderInv
    PROVE  /\ queueEnd \in Nat /\ readPos \in Nat /\ confirmed \in Nat /\ MaxMsgs \in Nat
           /\ Msgs \subseteq Nat /\ NoMsg \notin Msgs /\ NoMsg = -1
           /\ hand \in [Clients -> Msgs \cup {NoMsg}]
           /\ inFlight \in [Msgs -> Clients \cup {"absent", "deferred"}]
           /\ requeuedMsgChan \in Seq(Msgs) /\ readerChanged \in Seq(Resets)
           /\ msg \in Msgs \cup {NoMsg} /\ requireOrder \in BOOLEAN
<1>1. CursorInv /\ TypeFacts
  BY Typed, Zenon DEF OrderInv
<1>2. MaxMsgs \in Nat /\ NoMsg = -1
  BY ConstantsAssumption, Zenon DEF NoMsg
<1>3. requireOrder \in BOOLEAN
  BY <1>1, Zenon DEF CursorInv, TypeOK, ModeTypes
<1>4. QED BY <1>1, <1>2, <1>3, Zenon DEF TypeFacts

\* What is not ahead of a position is not ahead of a later one.
LEMMA StillBehind ==
    ASSUME NEW a \in Nat, NEW b \in Nat, a <= b, NEW x \in Int, x <= a
    PROVE  x <= b
OBVIOUS

\* A position is not "no message".
LEMMA NoneAhead == \A n \in Nat : n # NoMsg
BY DEF NoMsg

\* No message, held anywhere, is ahead of nothing.
LEMMA NoneBehind ==
    /\ \A n \in Nat : NoMsg <= n /\ n <= n
    /\ Msgs \cup {NoMsg} \subseteq Int
BY ConstantsAssumption DEF NoMsg, Msgs

\* Finishing the next message on an empty map moves the position and leaves it empty.
LEMMA ConfirmNext ==
    ASSUME CursorInv, DOMAIN confirmedMsgs.elems = {}, NEW m \in Msgs, m = confirmed, readPos = confirmed + 1,
           ConfirmBackendQueue(m)
    PROVE  /\ confirmed' = m + 1 /\ DOMAIN confirmedMsgs'.elems = {}
           /\ DOMAIN confirmedMsgs'.historyMsg = DOMAIN confirmedMsgs.historyMsg \cup {m}
           /\ \A s \in DOMAIN confirmedMsgs'.historyMsg :
                  confirmedMsgs'.historyMsg[s] = IF s = m THEN m + 1 ELSE confirmedMsgs.historyMsg[s]
<1> DEFINE added == AddOrMerge(confirmedMsgs, m, m + 1)
<1>1. m \in Nat /\ confirmed \in Nat
  BY Typed DEF TypeFacts
<1>2. Merged(m) = <<m, m + 1>>
  <2>1. Absorbed(confirmedMsgs.elems, m) = confirmedMsgs.elems
    BY Zenon DEF Absorbed
  <2>2. \A k : Joined(confirmedMsgs.elems, k, <<m, m + 1>>) = <<m, m + 1>>
    BY Zenon DEF Joined
  <2>3. QED BY <2>1, <2>2, Zenon DEF Merged, MergedInterval
<1>3. Reduces(m) /\ ~(m < confirmed)
  <2>1. ~(m < confirmed) /\ m <= confirmed /\ m + 1 <= readPos /\ confirmed < m + 1
    BY <1>1
  <2>2. Merged(m)[1] = m /\ Merged(m)[2] = m + 1
    BY <1>2
  <2>3. QED BY <2>1, <2>2, Zenon DEF Reduces, ConfirmReadOK
<1>4. confirmed' = m + 1 /\ confirmedMsgs' = DeleteInterval(added, <<m, m + 1>>)
  <2>1. <<m, m + 1>>[2] = m + 1
    OBVIOUS
  <2>2. QED BY <1>2, <1>3, <2>1, Zenon DEF ConfirmBackendQueue, ConfirmedMsgsAfter
<1>5. /\ DOMAIN added.elems = {m, m + 1} /\ added.elems[m] = <<m, m + 1>>
  <2>1. added.elems = Stored(Absorbed(Absorbed(confirmedMsgs.elems, m), m + 1), <<m, m + 1>>)
    BY <1>2 DEF AddOrMerge, Merged, Joined
  <2>2. Absorbed(Absorbed(confirmedMsgs.elems, m), m + 1) = confirmedMsgs.elems
    BY ZenonT(60) DEF Absorbed
  <2> HIDE DEF added
  <2>3. added.elems = Stored(confirmedMsgs.elems, <<m, m + 1>>)
    BY <2>1, <2>2, Zenon
  <2>4. /\ DOMAIN Stored(confirmedMsgs.elems, <<m, m + 1>>) = {m, m + 1}
        /\ Stored(confirmedMsgs.elems, <<m, m + 1>>)[m] = <<m, m + 1>>
    BY <1>1, StoredInEmpty, Zenon
  <2>5. QED BY <2>3, <2>4, Zenon
<1>6. /\ DOMAIN added.historyMsg = DOMAIN confirmedMsgs.historyMsg \cup {m}
      /\ \A s \in DOMAIN added.historyMsg : added.historyMsg[s] = IF s = m THEN m + 1 ELSE confirmedMsgs.historyMsg[s]
      /\ DOMAIN added = {"elems", "historyMsg"}
  BY Zenon DEF AddOrMerge
<1> HIDE DEF added
<1>7. /\ confirmedMsgs'.elems = Without(added.elems, {m, m + 1})
      /\ confirmedMsgs'.historyMsg = added.historyMsg
  BY <1>4, <1>5, <1>6, Zenon DEF DeleteInterval
<1>8. DOMAIN confirmedMsgs'.elems = {}
  BY <1>5, <1>7, WithoutAll, Zenon
<1>9. QED BY <1>4, <1>6, <1>7, <1>8, ZenonT(60)

\* Non-blocking sends of "back to the confirmed position" keep readerChanged to those.
LEMMA SentBackward ==
    ASSUME readerChanged \in Seq(Resets), \A i \in DOMAIN readerChanged : readerChanged[i] < 0,
           NEW rs \in Seq(Resets), \A i \in DOMAIN rs : rs[i] < 0, SendResets(rs)
    PROVE  \A i \in DOMAIN readerChanged' : readerChanged'[i] < 0
<1> DEFINE all == readerChanged \o rs
           n == Lower(ResetCap, Len(all))
<1>1. all \in Seq(Resets) /\ Len(all) = Len(readerChanged) + Len(rs) /\ Len(all) \in Nat
  OBVIOUS
<1>2. \A i \in 1 .. Len(all) : all[i] < 0
  <2> TAKE i \in 1 .. Len(all)
  <2>1. CASE i <= Len(readerChanged)
    BY <2>1
  <2>2. CASE ~(i <= Len(readerChanged))
    <3>1. all[i] = rs[i - Len(readerChanged)] /\ i - Len(readerChanged) \in 1 .. Len(rs)
      BY <1>1, <2>2
    <3>2. QED BY <3>1
  <2>3. QED BY <2>1, <2>2, Zenon
<1>3. n \in Nat /\ n <= Len(all)
  BY <1>1, ConstantsAssumption DEF Lower
<1>4. readerChanged' = SubSeq(all, 1, n)
  BY Zenon DEF SendResets
<1> HIDE DEF all, n
<1>5. readerChanged' \in Seq(Resets) /\ Len(readerChanged') = n /\ \A i \in 1 .. n : readerChanged'[i] = all[i]
  BY <1>1, <1>3, <1>4, SMTT(40)
<1>6. QED BY <1>2, <1>3, <1>5

-----------------------------------------------------------------------------
(* The pump.                                                               *)

\* The pump offers a message only in its turn.
LEMMA PumpOrdered ==
    ASSUME FiniteCounts, OrderInv, CursorInv', Pump
    PROVE  OrderInv'
<1> USE DEF backend, confirms, requeues, signals, modes, session, pump, admin
<1>1. /\ Calm /\ InTurn /\ (~requireOrder => NotYetOrdered)
  BY Zenon DEF OrderInv
<1>2. CASE PumpWait \/ PumpHold \/ PumpTryRead \/ PumpEndUpdated \/ PumpAccept
  <2>1. /\ UNCHANGED <<readPos, confirmed, confirmedMsgs, inFlight, requeuedMsgChan, waitingRequeueMsgs, hand, conn,
                       clients, checked, msg, lastData, needResetReader, adminPc, readerChanged, requireOrder,
                       consumeDisabled>>
        /\ pc' \in {"selectNil", "hold", "top"} \/ (pc' = "accepted" /\ ~consumeDisabled)
        /\ pc' = "accepted" \/ pc \notin {"check", "accepted", "dispatch"}
    BY <1>2 DEF PumpWait, PumpHold, PumpTryRead, PumpEndUpdated, PumpAccept, Selecting
  <2>2. Calm' /\ InTurn'
    BY <1>1, <2>1, Zenon DEF Calm, InTurn
  <2>3. ~requireOrder' => NotYetOrdered'
    BY <1>1, <2>1, Zenon DEF NotYetOrdered, DrainPcs
  <2>4. QED BY <2>2, <2>3, ZenonT(60) DEF OrderInv
<1>3. CASE PumpOffer
  <2>1. /\ UNCHANGED <<readPos, confirmed, confirmedMsgs, inFlight, requeuedMsgChan, waitingRequeueMsgs, hand, conn,
                       clients, checked, msg, lastData, needResetReader, adminPc, readerChanged, requireOrder,
                       consumeDisabled>>
        /\ pc = "accepted" /\ pc' = "dispatch" /\ (requireOrder => msg = confirmed)
    BY <1>3, Zenon DEF PumpOffer, OutOfOrder
  <2>2. msg <= confirmed
    <3>1. msg = confirmed \/ msg = NoMsg
      BY <1>1, <2>1, Zenon DEF NotYetOrdered
    <3>2. QED BY <3>1, OrderTypes, NoneBehind, Zenon
  <2>3. Calm' /\ InTurn'
    BY <1>1, <2>1, <2>2, Zenon DEF Calm, InTurn
  <2>4. ~requireOrder' => NotYetOrdered'
    BY <1>1, <2>1, Zenon DEF NotYetOrdered, DrainPcs
  <2>5. QED BY <2>3, <2>4, Zenon DEF OrderInv
<1>4. CASE PumpRead
  <2>1. /\ UNCHANGED <<confirmed, confirmedMsgs, inFlight, requeuedMsgChan, waitingRequeueMsgs, hand, conn,
                       clients, checked, msg, needResetReader, adminPc, readerChanged, requireOrder, consumeDisabled>>
        /\ pc \in {"top", "read"} /\ pc' \in {"selectNil", "selectData", "selectEnd"}
    BY <1>4, Zenon DEF PumpRead
  <2>2. \/ /\ UNCHANGED <<lastData, readPos>> /\ (consumeDisabled => pc' = "selectNil")
        \/ /\ lastData = NoMsg /\ lastData' = readPos /\ readPos' = readPos + 1 /\ ~consumeDisabled
    BY <1>4, Zenon DEF PumpRead
  <2>3. Calm' /\ InTurn'
    BY <1>1, <2>1, Zenon DEF Calm, InTurn
  <2>4. ASSUME ~requireOrder' PROVE NotYetOrdered'
    <3>1. NotYetOrdered /\ msg = NoMsg
      BY <1>1, <2>1, <2>4, Zenon DEF Calm
    <3>2. CASE lastData = NoMsg /\ lastData' = readPos /\ readPos' = readPos + 1 /\ ~consumeDisabled
      <4>1. readPos = confirmed
        <5>1. lastData # confirmed
          BY <3>2, OrderTypes, NoneAhead, Zenon
        <5>2. QED BY <3>1, <3>2, <5>1, OrderTypes, NoneAhead, ZenonT(60) DEF NotYetOrdered
      <4>2. QED BY <2>1, <3>1, <3>2, <4>1, OrderTypes, ZenonT(60) DEF NotYetOrdered, DrainPcs
    <3>3. CASE UNCHANGED <<lastData, readPos>> /\ (consumeDisabled => pc' = "selectNil")
      BY <2>1, <3>1, <3>3, ZenonT(60) DEF NotYetOrdered, DrainPcs
    <3>4. QED BY <2>2, <3>2, <3>3, Zenon
  <2>5. QED BY <2>3, <2>4, Zenon DEF OrderInv
<1>5. CASE PumpTakeData
  <2>1. /\ UNCHANGED <<readPos, confirmed, confirmedMsgs, inFlight, requeuedMsgChan, waitingRequeueMsgs, hand, conn,
                       clients, checked, needResetReader, adminPc, readerChanged, requireOrder, consumeDisabled>>
        /\ pc = "selectData" /\ pc' = "check" /\ msg' = lastData /\ lastData' = NoMsg
    BY <1>5, Zenon DEF PumpTakeData
  <2>2. lastData \in Msgs /\ msg = NoMsg
    BY <1>1, <2>1, Zenon DEF OrderInv, CursorInv, DoneInv, HoldInv, Calm
  <2>3. Calm' /\ InTurn'
    BY <1>1, <2>1, Zenon DEF Calm, InTurn
  <2>4. ~requireOrder' => NotYetOrdered'
    BY <1>1, <2>1, <2>2, OrderTypes, ZenonT(60) DEF NotYetOrdered, DrainPcs
  <2>5. QED BY <2>3, <2>4, Zenon DEF OrderInv
<1>6. CASE PumpSkip
  <2>1. /\ UNCHANGED <<readPos, inFlight, requeuedMsgChan, waitingRequeueMsgs, hand, conn, clients, checked, lastData,
                       needResetReader, adminPc, readerChanged, requireOrder, consumeDisabled>>
        /\ pc = "accepted" /\ pc' = "top" /\ msg' = NoMsg /\ ConfirmBackendQueue(msg) /\ done' = done \cup {msg}
    BY <1>6, Zenon DEF PumpSkip
  <2>2. msg \in Msgs /\ FiniteCounts /\ TypeOK /\ DoneInv /\ CursorInv
    BY <2>1, Zenon DEF OrderInv, CursorInv, DoneInv, HoldInv
  <2>3. confirmed <= confirmed'
    BY <2>1, <2>2, ConfirmKeeps, Zenon
  <2>4. confirmed' \in Nat
    BY TypedAfter, ZenonT(40) DEF TypeFacts
  <2>5. Calm' /\ InTurn'
    <3>1. Calm' /\ pc' # "dispatch"
      BY <1>1, <2>1, Zenon DEF Calm
    <3>2. \A x \in Int : x <= confirmed => x <= confirmed'
      BY <2>3, <2>4, OrderTypes, StillBehind, Zenon
    <3>3. (\A c \in Clients : hand[c] \in Int) /\ \A m \in Msgs : m \in Int
      BY OrderTypes, NoneBehind, Zenon
    <3>4. QED BY <1>1, <2>1, <3>1, <3>2, <3>3, ZenonT(60) DEF InTurn
  <2>6. ASSUME ~requireOrder' PROVE NotYetOrdered'
    <3>1. NotYetOrdered
      BY <1>1, <2>1, <2>6, Zenon
    <3>2. msg = confirmed /\ lastData = NoMsg /\ readPos = confirmed + 1 /\ DOMAIN confirmedMsgs.elems = {}
      <4>1. msg # NoMsg /\ confirmed # NoMsg
        BY <2>2, OrderTypes, NoneAhead, Zenon
      <4>2. QED BY <3>1, <4>1, Zenon DEF NotYetOrdered
    <3>3. /\ confirmed' = msg + 1 /\ DOMAIN confirmedMsgs'.elems = {}
          /\ DOMAIN confirmedMsgs'.historyMsg = DOMAIN confirmedMsgs.historyMsg \cup {msg}
          /\ \A s \in DOMAIN confirmedMsgs'.historyMsg :
                 confirmedMsgs'.historyMsg[s] = IF s = msg THEN msg + 1 ELSE confirmedMsgs.historyMsg[s]
      BY <2>1, <2>2, <3>2, ConfirmNext, Zenon
    <3>4. /\ DOMAIN confirmedMsgs.historyMsg \subseteq Nat
          /\ \A s \in DOMAIN confirmedMsgs.historyMsg : s < confirmed /\ confirmedMsgs.historyMsg[s] \in 0 .. confirmed
      BY <2>2, <3>1, Typed, ZenonT(60) DEF NotYetOrdered, TypeFacts
    <3>5. \A s \in DOMAIN confirmedMsgs'.historyMsg : s < confirmed' /\ confirmedMsgs'.historyMsg[s] \in 0 .. confirmed'
      <4>1. confirmed \in Nat
        BY OrderTypes, Zenon
      <4> HIDE <3>1, <2>1, <2>2
      <4>2. QED BY <3>2, <3>3, <3>4, <4>1
    <3>6. readPos' = confirmed'
      BY <2>1, <3>2, <3>3, Zenon
    <3>7. QED BY <2>1, <3>1, <3>2, <3>3, <3>5, <3>6, ZenonT(60) DEF NotYetOrdered, DrainPcs
  <2>7. QED BY <2>5, <2>6, Zenon DEF OrderInv
<1>7. CASE PumpDrop
  <2>1. /\ UNCHANGED <<confirmed, inFlight, hand, adminPc, readerChanged, requireOrder>>
        /\ pc = "check" /\ pc' = "top" /\ msg' = NoMsg /\ consumeDisabled
    BY <1>7, Zenon DEF PumpDrop
  <2>2. requireOrder
    BY <1>1, <2>1, Zenon DEF NotYetOrdered
  <2>3. Calm' /\ InTurn'
    BY <1>1, <2>1, Zenon DEF Calm, InTurn
  <2>4. QED BY <2>1, <2>2, <2>3, Zenon DEF OrderInv
<1>8. CASE PumpTakeRequeued \/ PumpReset \/ PumpDrainConfirmed \/ PumpDrainWaiting \/ PumpOutOfOrder
  <2>1. /\ UNCHANGED <<confirmed, inFlight, hand, adminPc, readerChanged, requireOrder>>
        /\ requeuedMsgChan # <<>> \/ needResetReader > 0 \/ pc \in DrainPcs \/ requireOrder
        /\ pc' # "dispatch" /\ (pc' = "check" \/ msg' = NoMsg \/ (msg' = msg /\ pc \notin {"check", "accepted", "dispatch"}))
    BY <1>8, ZenonT(60) DEF PumpTakeRequeued, PumpReset, PumpDrainConfirmed, PumpDrainWaiting, PumpOutOfOrder, OutOfOrder, DrainPcs
  <2>2. requireOrder
    BY <1>1, <2>1, SMTT(40) DEF NotYetOrdered
  <2>3. Calm' /\ InTurn'
    BY <1>1, <2>1, Zenon DEF Calm, InTurn
  <2>4. QED BY <2>1, <2>2, <2>3, Zenon DEF OrderInv
<1>9. CASE PumpDrainFlight
  <2>1. /\ UNCHANGED <<confirmed, hand, adminPc, readerChanged, requireOrder, msg>>
        /\ pc = "drainFlight" /\ pc' = "drainConfirmed" /\ inFlight' = [m \in Msgs |-> "absent"]
    BY <1>9, Zenon DEF PumpDrainFlight, DrainFlight
  <2>2. requireOrder
    BY <1>1, <2>1, Zenon DEF NotYetOrdered, DrainPcs
  <2>3. Calm' /\ InTurn'
    BY <1>1, <2>1, Zenon DEF Calm, InTurn
  <2>4. QED BY <2>1, <2>2, <2>3, Zenon DEF OrderInv
<1>10. CASE PumpResetRequested
  <2>1. /\ UNCHANGED <<confirmed, inFlight, hand, adminPc, requireOrder>>
        /\ readerChanged # <<>> /\ readerChanged' = Tail(readerChanged) /\ msg' = NoMsg /\ pc' = "top"
    BY <1>10, Zenon DEF PumpResetRequested, TakesReset
  <2>2. requireOrder
    BY <1>1, <2>1, Zenon DEF NotYetOrdered
  <2>3. \A i \in DOMAIN readerChanged' : readerChanged'[i] < 0
    <3>1. readerChanged \in Seq(Resets) /\ \A i \in DOMAIN readerChanged : readerChanged[i] < 0
      BY <1>1, OrderTypes, Zenon DEF Calm
    <3>2. QED BY <2>1, <3>1, SMTT(40)
  <2>4. Calm' /\ InTurn'
    BY <1>1, <2>1, <2>3, Zenon DEF Calm, InTurn
  <2>5. QED BY <2>1, <2>2, <2>4, Zenon DEF OrderInv
<1>11. CASE PumpSeek
  <2>1. readerChanged # <<>> /\ (Head(readerChanged) > queueEnd \/ Head(readerChanged) \in 0 .. queueEnd)
    BY <1>11, Zenon DEF PumpSeek, SeekDone, SeekFails, TakesReset
  <2>2. readerChanged \in Seq(Resets) /\ queueEnd \in Nat /\ \A i \in DOMAIN readerChanged : readerChanged[i] < 0
    BY <1>1, OrderTypes, Zenon DEF Calm
  <2>3. Head(readerChanged) = readerChanged[1] /\ 1 \in DOMAIN readerChanged /\ readerChanged[1] \in Resets
    BY <2>1, <2>2
  <2>4. Head(readerChanged) \in Resets /\ Head(readerChanged) < 0
    BY <2>2, <2>3, Zenon
  <2> HIDE <1>11
  <2>5. QED BY <2>1, <2>2, <2>4 DEF Resets, ResetKeep, ResetClear
<1>12. QED
  BY <1>2, <1>3, <1>4, <1>5, <1>6, <1>7, <1>8, <1>9, <1>10, <1>11, ZenonT(60) DEF Pump

-----------------------------------------------------------------------------
(* The connections.                                                        *)

\* FIN keeps every message in turn.
LEMMA FinishOrdered ==
    ASSUME FiniteCounts, OrderInv, CursorInv', NEW m \in Msgs, Finish(m), inFlight[m] # "absent", UNCHANGED adminPc
    PROVE  OrderInv'
<1>1. /\ ConfirmBackendQueue(m) /\ done' = done \cup {m} /\ inFlight' = [inFlight EXCEPT ![m] = "absent"]
      /\ UNCHANGED <<readerChanged, requireOrder, pc, msg, hand>>
  BY Zenon DEF Finish, modes, session, pump
<1>2. FiniteCounts /\ TypeOK /\ DoneInv
  BY Zenon DEF OrderInv, CursorInv
<1>3. confirmed <= confirmed'
  BY <1>1, <1>2, ConfirmKeeps, Zenon
<1>4. confirmed' \in Nat
  BY Typed, TypedAfter, Zenon DEF TypeFacts
<1>5. requireOrder
  BY Zenon DEF OrderInv, NotYetOrdered
<1>6. \A x \in Msgs : inFlight'[x] # "absent" => inFlight[x] # "absent"
  BY <1>1, OrderTypes, Zenon
<1>7. InTurn
  BY Zenon DEF OrderInv
<1>11. \A x \in Int : x <= confirmed => x <= confirmed'
  BY <1>3, <1>4, OrderTypes, StillBehind, Zenon
<1>12. msg \in Int /\ (\A c \in Clients : hand[c] \in Int) /\ \A x \in Msgs : x \in Int
  BY OrderTypes, NoneBehind, Zenon
<1>8. InTurn'
  <2>1. pc' = "dispatch" => msg' <= confirmed'
    BY <1>1, <1>7, <1>11, <1>12, Zenon DEF InTurn
  <2>2. \A c \in Clients : hand'[c] <= confirmed'
    BY <1>1, <1>7, <1>11, <1>12, Zenon DEF InTurn
  <2>3. \A x \in Msgs : inFlight'[x] # "absent" => x <= confirmed'
    BY <1>6, <1>7, <1>11, <1>12, Zenon DEF InTurn
  <2>4. QED BY <2>1, <2>2, <2>3, Zenon DEF InTurn
<1>9. Calm'
  BY <1>1, Zenon DEF OrderInv, Calm
<1>10. QED BY <1>1, <1>5, <1>8, <1>9, Zenon DEF OrderInv

\* A connection takes and sends messages in their turn.
LEMMA ClientOrdered ==
    ASSUME FiniteCounts, OrderedTopic, OrderInv, CursorInv', NEW c \in Clients, Client(c)
    PROVE  OrderInv'
<1> USE DEF backend, confirms, requeues, signals, modes, session, pump, admin
<1>1. /\ Calm /\ InTurn /\ (~requireOrder => NotYetOrdered)
  BY Zenon DEF OrderInv
<1>2. CASE Sub(c)
  <2> DEFINE rs == IF OrderedTopic /\ ~requireOrder THEN <<ResetClear>> ELSE <<>>
  <2>1. /\ SendResets(rs) /\ requireOrder'
        /\ UNCHANGED <<confirmed, inFlight, hand, pc, msg, adminPc>>
    BY <1>2, Zenon DEF Sub
  <2>2. rs \in Seq(Resets) /\ \A i \in DOMAIN rs : rs[i] < 0
    BY ResetSeqs DEF ResetClear
  <2>3. \A i \in DOMAIN readerChanged' : readerChanged'[i] < 0
    BY <1>1, <2>1, <2>2, OrderTypes, SentBackward, ZenonT(60) DEF Calm
  <2>4. Calm' /\ InTurn'
    BY <1>1, <2>1, <2>3, Zenon DEF Calm, InTurn
  <2>5. QED BY <2>1, <2>4, ZenonT(60) DEF OrderInv
<1>3. CASE ClientTake(c)
  <2>1. /\ pc = "dispatch" /\ hand' = [hand EXCEPT ![c] = msg] /\ msg' = NoMsg /\ pc' = "top" /\ conn[c] # "none"
        /\ UNCHANGED <<confirmed, inFlight, requireOrder, adminPc, readerChanged>>
    BY <1>3, Zenon DEF ClientTake
  <2>2. requireOrder
    BY <1>1, <2>1, Zenon DEF NotYetOrdered
  <2>3. \A d \in Clients : hand'[d] = msg \/ hand'[d] = hand[d]
    BY <2>1, OrderTypes, Zenon
  <2>4. Calm' /\ InTurn'
    BY <1>1, <2>1, <2>3, Zenon DEF Calm, InTurn
  <2>5. QED BY <2>1, <2>2, <2>4, Zenon DEF OrderInv
<1>4. CASE ClientCheck(c)
  <2>1. /\ hand[c] # NoMsg
        /\ UNCHANGED <<confirmed, inFlight, requireOrder, adminPc, readerChanged, pc, msg>>
    BY <1>4, Zenon DEF ClientCheck
  <2>2. hand' = hand \/ hand' = [hand EXCEPT ![c] = NoMsg]
    BY <1>4, Zenon DEF ClientCheck
  <2>3. requireOrder
    BY <1>1, <2>1, Zenon DEF NotYetOrdered
  <2>4. \A d \in Clients : hand'[d] <= confirmed
    <3>1. \A d \in Clients : hand'[d] = NoMsg \/ hand'[d] = hand[d]
      BY <2>2, OrderTypes, Zenon
    <3>2. QED BY <1>1, <3>1, OrderTypes, NoneBehind, ZenonT(60) DEF InTurn
  <2>5. Calm' /\ InTurn'
    BY <1>1, <2>1, <2>4, Zenon DEF Calm, InTurn
  <2>6. QED BY <2>1, <2>3, <2>5, Zenon DEF OrderInv
<1>5. CASE ClientSample(c)
  BY <1>5, Zenon DEF ClientSample
<1>6. CASE ClientPush(c)
  <2>1. /\ hand' = [hand EXCEPT ![c] = NoMsg] /\ c \in checked
        /\ inFlight' = inFlight \/ inFlight' = [inFlight EXCEPT ![hand[c]] = c]
        /\ UNCHANGED <<confirmed, requireOrder, adminPc, readerChanged, pc, msg>>
    BY <1>6, Zenon DEF ClientPush
  <2>2. requireOrder
    BY <1>1, <2>1, Zenon DEF NotYetOrdered
  <2>3. \A d \in Clients : hand'[d] = NoMsg \/ hand'[d] = hand[d]
    BY <2>1, OrderTypes, Zenon
  <2>4. \A x \in Msgs : inFlight'[x] = inFlight[x] \/ x = hand[c]
    BY <2>1, OrderTypes, Zenon
  <2>5. Calm' /\ InTurn'
    <3>1. Calm' /\ (pc' = "dispatch" => msg' <= confirmed')
      BY <1>1, <2>1, Zenon DEF Calm, InTurn
    <3>2. \A d \in Clients : hand'[d] <= confirmed'
      BY <1>1, <2>1, <2>3, OrderTypes, NoneBehind, ZenonT(60) DEF InTurn
    <3>3. \A x \in Msgs : inFlight'[x] # "absent" => x <= confirmed'
      BY <1>1, <2>1, <2>4, Zenon DEF InTurn
    <3>4. QED BY <3>1, <3>2, <3>3, ZenonT(60) DEF InTurn
  <2>6. QED BY <2>1, <2>2, <2>5, Zenon DEF OrderInv
<1>7. CASE Heartbeat(c) \/ Close(c) \/ Stopped(c) \/ RemoveClient(c)
  <2>1. /\ conn[c] # "none"
        /\ UNCHANGED <<confirmed, inFlight, hand, requireOrder, adminPc, readerChanged, pc, msg>>
    BY <1>7, Zenon DEF Heartbeat, Close, Stopped, RemoveClient
  <2>2. requireOrder
    BY <1>1, <2>1, Zenon DEF NotYetOrdered
  <2>3. Calm' /\ InTurn'
    BY <1>1, <2>1, Zenon DEF Calm, InTurn
  <2>4. QED BY <2>1, <2>2, <2>3, Zenon DEF OrderInv
<1>8. ASSUME NEW m \in Msgs, Fin(c, m) PROVE OrderInv'
  <2>1. inFlight[m] # "absent" /\ Finish(m) /\ UNCHANGED adminPc
    BY <1>8, ClientsAssumption, Zenon DEF Fin
  <2>2. QED BY <2>1, FinishOrdered, Zenon
<1>9. ASSUME NEW m \in Msgs, Requeue(c, m) \/ ReqDefer(c, m) PROVE OrderInv'
  <2>1. /\ inFlight[m] # "absent"
        /\ inFlight' = [inFlight EXCEPT ![m] = "absent"] \/ inFlight' = [inFlight EXCEPT ![m] = "deferred"]
        /\ UNCHANGED <<confirmed, hand, requireOrder, adminPc, readerChanged, pc, msg>>
    BY <1>9, ClientsAssumption, Zenon DEF Requeue, ReqDefer
  <2>2. requireOrder
    BY <1>1, <2>1, Zenon DEF NotYetOrdered
  <2>3. \A x \in Msgs : inFlight'[x] # "absent" => inFlight[x] # "absent"
    BY <2>1, OrderTypes, Zenon
  <2>4. Calm' /\ InTurn'
    BY <1>1, <2>1, <2>3, Zenon DEF Calm, InTurn
  <2>5. QED BY <2>1, <2>2, <2>4, Zenon DEF OrderInv
<1>10. QED
  BY <1>2, <1>3, <1>4, <1>5, <1>6, <1>7, <1>8, <1>9, ZenonT(40) DEF Client, Req, RequeueClientMessage

-----------------------------------------------------------------------------
(* The scanner and the administrator.                                      *)

\* A scan sends no message and moves no position.
LEMMA ScannerOrdered ==
    ASSUME FiniteCounts, OrderInv, CursorInv', Scanner
    PROVE  OrderInv'
<1> USE DEF backend, confirms, requeues, signals, modes, session, pump, admin
<1>1. /\ Calm /\ InTurn /\ (~requireOrder => NotYetOrdered)
  BY DEF OrderInv
<1>2. ASSUME NEW m \in Msgs, ScanTimeout(m) PROVE OrderInv'
  <2>1. /\ inFlight[m] # "absent" /\ inFlight' = [inFlight EXCEPT ![m] = "absent"]
        /\ UNCHANGED <<confirmed, hand, requireOrder, adminPc, readerChanged, pc, msg>>
    BY <1>2, ZenonT(60) DEF ScanTimeout
  <2>2. requireOrder
    BY <1>1, <2>1, Zenon DEF NotYetOrdered
  <2>3. \A x \in Msgs : inFlight'[x] # "absent" => inFlight[x] # "absent"
    BY <2>1, OrderTypes, Zenon
  <2>4. Calm' /\ InTurn'
    BY <1>1, <2>1, <2>3, Zenon DEF Calm, InTurn
  <2>5. QED BY <2>1, <2>2, <2>4, Zenon DEF OrderInv
<1>3. CASE ScanRequeue
  <2>1. UNCHANGED <<readPos, confirmed, confirmedMsgs, inFlight, hand, conn, clients, checked, pc, msg, lastData,
                    needResetReader, adminPc, readerChanged, requireOrder, consumeDisabled>>
    BY <1>3, Zenon DEF ScanRequeue
  <2>2. Calm' /\ InTurn'
    BY <1>1, <2>1, Zenon DEF Calm, InTurn
  <2>3. ASSUME ~requireOrder' PROVE NotYetOrdered'
    <3>1. NotYetOrdered
      BY <1>1, <2>1, <2>3, Zenon
    <3>2. requeuedMsgChan = <<>> /\ waitingRequeueMsgs = {}
      BY <3>1, Zenon DEF NotYetOrdered
    <3>3. CASE consumeDisabled
      <4>1. UNCHANGED <<requeuedMsgChan, waitingRequeueMsgs>>
        BY <1>3, <3>3, Zenon DEF ScanRequeue
      <4>2. QED BY <2>1, <3>1, <4>1, Zenon DEF NotYetOrdered
    <3>4. CASE ~consumeDisabled
      <4> DEFINE cnt == Lower(ReqCap - Len(requeuedMsgChan), Cardinality(waitingRequeueMsgs))
      <4>1. PICK q \in [1 .. cnt -> waitingRequeueMsgs] :
                /\ requeuedMsgChan' = requeuedMsgChan \o q
                /\ waitingRequeueMsgs' = waitingRequeueMsgs \ {q[i] : i \in 1 .. cnt}
        BY <1>3, <3>4, Zenon DEF ScanRequeue
      <4>2. cnt = 0
        <5>1. Cardinality(waitingRequeueMsgs) = 0
          BY <3>2, Zenon DEF FiniteCounts
        <5>2. Len(requeuedMsgChan) = 0
          BY <3>2, Zenon
        <5>3. QED BY <5>1, <5>2, ConstantsAssumption, SMTT(40) DEF Lower
      <4> HIDE DEF cnt
      <4>3. q \in [1 .. 0 -> waitingRequeueMsgs]
        BY <4>1, <4>2, Zenon
      <4>4. q = <<>>
        BY <4>3
      <4>5. requeuedMsgChan' = <<>> /\ waitingRequeueMsgs' = {}
        <5>1. requeuedMsgChan' = <<>> \o <<>>
          BY <3>2, <4>1, <4>4, Zenon
        <5>2. waitingRequeueMsgs' = {}
          BY <3>2, <4>1, Zenon
        <5> HIDE <4>1, <3>2
        <5>3. QED BY <5>1, <5>2
      <4>6. QED BY <2>1, <3>1, <4>5, Zenon DEF NotYetOrdered
    <3>5. QED BY <3>3, <3>4, Zenon
  <2>4. QED BY <2>2, <2>3 DEF OrderInv
<1>4. CASE ScanTail
  <2> DEFINE kept == DeleteLower(confirmedMsgs, confirmed)
             repair == IF Unbacked(kept) # {} THEN <<ResetKeep>> ELSE <<>>
             rescue == IF Stuck /\ TimeElapsed THEN <<ResetClear>> ELSE <<>>
  <2>1. /\ confirmedMsgs' = [kept EXCEPT !.historyMsg = Without(kept.historyMsg, Unbacked(kept))]
        /\ SendResets(repair \o rescue)
        /\ UNCHANGED <<readPos, confirmed, inFlight, hand, conn, clients, checked, pc, msg, lastData, requeuedMsgChan,
                       waitingRequeueMsgs, consumeDisabled, needResetReader, adminPc, requireOrder>>
    BY <1>4, Zenon DEF ScanTail
  <2>2. repair \in {<<>>, <<ResetKeep>>} /\ rescue \in {<<>>, <<ResetClear>>}
    OBVIOUS
  <2>3. \A i \in DOMAIN readerChanged' : readerChanged'[i] < 0
    <3> HIDE DEF repair, rescue
    <3>1. repair \o rescue \in Seq(Resets) /\ \A i \in DOMAIN (repair \o rescue) : (repair \o rescue)[i] < 0
      BY <2>2, ScanResets, ZenonT(60)
    <3>2. QED BY <1>1, <2>1, <3>1, OrderTypes, SentBackward, ZenonT(40) DEF Calm
  <2>4. Calm' /\ InTurn'
    BY <1>1, <2>1, <2>3, Zenon DEF Calm, InTurn
  <2>5. ASSUME ~requireOrder' PROVE NotYetOrdered'
    <3>1. NotYetOrdered
      BY <1>1, <2>1, <2>5, ZenonT(60)
    <3>2. DOMAIN kept.elems = {} /\ DOMAIN kept.historyMsg = {}
      BY <3>1, SMTT(40) DEF NotYetOrdered, DeleteLower, Without
    <3>3. DOMAIN confirmedMsgs'.elems = {} /\ DOMAIN confirmedMsgs'.historyMsg = {} /\ Unbacked(kept) = {}
      BY <2>1, <3>2, ZenonT(40) DEF DeleteLower, Without, Unbacked
    <3>4. ~Stuck
      BY <3>1, Zenon DEF NotYetOrdered, Stuck
    <3>5. readerChanged' = <<>>
      <4>1. repair = <<>> /\ rescue = <<>> /\ readerChanged = <<>>
        BY <3>1, <3>3, <3>4, Zenon DEF NotYetOrdered
      <4>2. Lower(ResetCap, 0) = 0
        BY ConstantsAssumption DEF Lower
      <4> HIDE DEF repair, rescue
      <4>3. readerChanged \o (repair \o rescue) = <<>>
        BY <4>1
      <4>4. readerChanged' = SubSeq(<<>>, 1, 0)
        BY <2>1, <4>2, <4>3, Zenon DEF SendResets
      <4>5. QED BY <4>4, SMTT(40)
    <3> HIDE DEF kept, repair, rescue
    <3>6. QED BY <2>1, <3>1, <3>3, <3>5, Zenon DEF NotYetOrdered
  <2>6. QED BY <2>4, <2>5 DEF OrderInv
<1>5. QED BY <1>2, <1>3, <1>4, Zenon DEF Scanner

\* The calls a Steady instance makes leave the messages in turn.
LEMMA AdminOrdered ==
    ASSUME FiniteCounts, Steady, OrderInv, CursorInv', Admin
    PROVE  OrderInv'
<1> USE DEF backend, confirms, requeues, signals, modes, session, pump, admin
<1>1. /\ Calm /\ InTurn /\ (~requireOrder => NotYetOrdered) /\ adminPc = "idle"
  BY Zenon DEF OrderInv, Calm
<1>2. CASE SetOrdered
  <2>1. /\ SendResets(<<ResetClear>>) /\ requireOrder'
        /\ UNCHANGED <<confirmed, inFlight, hand, pc, msg, adminPc>>
    BY <1>2, Zenon DEF SetOrdered, SendReset
  <2>2. <<ResetClear>> \in Seq(Resets) /\ \A i \in DOMAIN <<ResetClear>> : <<ResetClear>>[i] < 0
    BY ResetSeqs DEF ResetClear
  <2>3. \A i \in DOMAIN readerChanged' : readerChanged'[i] < 0
    BY <1>1, <2>1, <2>2, OrderTypes, SentBackward, ZenonT(40) DEF Calm
  <2>4. Calm' /\ InTurn'
    BY <1>1, <2>1, <2>3, Zenon DEF Calm, InTurn
  <2>5. QED BY <2>1, <2>4, Zenon DEF OrderInv
<1>3. CASE DoSkip \/ EnableAgain
  <2>1. UNCHANGED <<readPos, confirmed, confirmedMsgs, inFlight, requeuedMsgChan, waitingRequeueMsgs, hand, conn,
                    clients, checked, pc, msg, lastData, needResetReader, adminPc, readerChanged, requireOrder,
                    consumeDisabled>>
    BY <1>3, Zenon DEF DoSkip, EnableAgain
  <2>2. Calm' /\ InTurn'
    BY <1>1, <2>1, ZenonT(60) DEF Calm, InTurn
  <2>3. ~requireOrder' => NotYetOrdered'
    BY <1>1, <2>1, Zenon DEF NotYetOrdered
  <2>4. QED BY <2>2, <2>3, Zenon DEF OrderInv
<1>4. ASSUME NEW m \in Msgs, RequeueToEnd(m) PROVE OrderInv'
  <2>1. inFlight[m] # "absent" /\ Finish(m) /\ UNCHANGED adminPc
    BY <1>4, Zenon DEF RequeueToEnd
  <2>2. QED BY <2>1, FinishOrdered, Zenon
<1>5. /\ \A offset : ~SetConsumeOffset(offset)
      /\ ~UnsetOrdered /\ ~DisableConsume /\ ~EnableConsume
      /\ ~AdminDrainFlight /\ ~AdminDrainConfirmed /\ ~AdminDrainWaiting /\ ~EnableDrain /\ ~EnableReset
      /\ \A offset, back, updates, list : ~UpdateChannelOffset(offset, back, updates, list)
  <2>1. \A offset : ~SetConsumeOffset(offset)
    BY <1>1, Zenon DEF Steady, SetConsumeOffset, AdminCall
  <2>2. ~UnsetOrdered
    BY <1>1, Zenon DEF Steady, UnsetOrdered, AdminCall
  <2>3. ~DisableConsume
    BY <1>1, Zenon DEF Steady, DisableConsume, AdminCall
  <2>4. ~EnableConsume
    BY <1>1, Zenon DEF Steady, EnableConsume, AdminCall
  <2>5. ~AdminDrainFlight /\ ~AdminDrainConfirmed
    BY <1>1, Zenon DEF AdminDrainFlight, AdminDrainConfirmed
  <2>6. ~AdminDrainWaiting
    BY <1>1, Zenon DEF AdminDrainWaiting
  <2>7. ~EnableDrain /\ ~EnableReset
    BY <1>1, Zenon DEF EnableDrain, EnableReset
  <2>8. \A offset, back, updates, list : ~UpdateChannelOffset(offset, back, updates, list)
    BY <1>1, SMTT(40) DEF Steady, UpdateChannelOffset, AdminCall
  <2>9. QED BY <2>1, <2>2, <2>3, <2>4, <2>5, <2>6, <2>7, <2>8, ZenonT(60)
<1>6. QED BY <1>2, <1>3, <1>4, <1>5, Zenon DEF Admin

-----------------------------------------------------------------------------
\* Together the conjuncts are inductive.
LEMMA NextOrdered ==
    ASSUME FiniteCounts, OrderedTopic, Steady, OrderInv, [Next]_vars
    PROVE  OrderInv'
<1>1. CursorInv'
  BY NextCursor, Zenon DEF OrderInv
<1>2. CASE UpdateQueueEnd \/ UNCHANGED vars
  <2>1. UNCHANGED <<readPos, confirmed, confirmedMsgs, inFlight, requeuedMsgChan, waitingRequeueMsgs, hand, conn,
                    clients, checked, pc, msg, lastData, needResetReader, adminPc, readerChanged, requireOrder,
                    consumeDisabled>>
    BY <1>2, ZenonT(60) DEF UpdateQueueEnd, vars, backend, confirms, requeues, signals, modes, session, pump, admin
  <2>2. Calm' /\ InTurn' /\ (~requireOrder' => NotYetOrdered')
    BY <2>1 DEF OrderInv, Calm, InTurn, NotYetOrdered
  <2>3. QED BY <1>1, <2>2, Zenon DEF OrderInv
<1>3. QED BY <1>1, <1>2, PumpOrdered, ClientOrdered, ScannerOrdered, AdminOrdered, ZenonT(60) DEF Next

\* The channel as it is opened.
LEMMA InitOrdered == Init => OrderInv
<1> SUFFICES ASSUME Init PROVE OrderInv
  OBVIOUS
<1>1. CursorInv
  BY InitCursor, Zenon
<1>2. readPos = 0 /\ confirmed = 0 /\ DOMAIN confirmedMsgs.elems = {} /\ DOMAIN confirmedMsgs.historyMsg = {}
  BY NewIntervalHashEmpty, Zenon DEF Init
<1>3. NotYetOrdered
  BY <1>2, Zenon DEF NotYetOrdered, Init, DrainPcs
<1>4. Calm /\ InTurn
  BY <1>2 DEF Calm, InTurn, Init, NoMsg
<1>5. QED BY <1>1, <1>3, <1>4, Zenon DEF OrderInv

-----------------------------------------------------------------------------
(* The channel implements ChannelCursor: the consume position moves like   *)
(* the abstract cursor.                                                    *)

\* The abstract cursor only finishes messages that were published, so the channel
\* must only ever handle such messages.
Published == \A m \in Msgs : OnItsWay(m) => m < queueEnd

RefineInv == CursorInv /\ Published

\* A step that handles no message it did not have, unless it was published.
NothingNew == \A x \in Msgs : OnItsWay(x)' => OnItsWay(x) \/ x < queueEnd

\* A step seen by the abstract cursor.
CursorStep == [Cursor!CursorNext]_(Cursor!cursorVars)

-----------------------------------------------------------------------------
(* The steps of the abstract cursor.                                       *)

\* A step that leaves the cursor alone.
LEMMA CursorStutters ==
    ASSUME UNCHANGED <<queueEnd, confirmed, done>>
    PROVE  CursorStep
BY DEF CursorStep, Cursor!cursorVars

\* ConfirmBackendQueue for a message that was published.
LEMMA ConfirmRefines ==
    ASSUME FiniteCounts, RefineInv, CursorInv', NEW m \in Msgs, OnItsWay(m), ConfirmBackendQueue(m), done' = done \cup {m},
           UNCHANGED <<queueEnd, readPos>>
    PROVE  CursorStep
<1>1. FiniteCounts /\ TypeOK /\ DoneInv
  BY DEF RefineInv, CursorInv
<1>2. confirmed <= confirmed' /\ confirmed' <= readPos /\ ConfirmedOnlyDone'
  BY <1>1, ConfirmKeeps, Zenon
<1>3. /\ confirmed \in Nat /\ confirmed' \in Nat /\ readPos \in Nat /\ queueEnd \in Nat /\ MaxMsgs \in Nat
      /\ readPos <= queueEnd /\ queueEnd <= MaxMsgs
  <2>1. /\ confirmed \in Nat /\ readPos \in Nat /\ queueEnd \in Nat /\ readPos <= queueEnd
        /\ queueEnd \in Positions
    BY Typed, ZenonT(40) DEF RefineInv, TypeFacts
  <2>2. confirmed' \in Nat
    BY TypedAfter, ZenonT(40) DEF TypeFacts
  <2>3. QED BY <2>1, <2>2, ConstantsAssumption DEF Positions
<1>4. m \in 0 .. queueEnd - 1
  BY <1>3 DEF RefineInv, Published, Msgs
<1>5. \A x \in 0 .. confirmed' - 1 : x \in done'
  <2>1. \A x \in 0 .. MaxMsgs - 1 : x < confirmed' => x \in done'
    BY <1>2, Zenon DEF ConfirmedOnlyDone, Msgs
  <2>2. \A a \in Nat : a <= MaxMsgs => \A x \in 0 .. a - 1 : x \in 0 .. MaxMsgs - 1 /\ x < a
    BY <1>3
  <2>3. confirmed' <= MaxMsgs
    BY <1>2, <1>3
  <2>4. QED BY <1>3, <2>1, <2>2, <2>3, Zenon
<1>6. confirmed' \in confirmed .. queueEnd
  BY <1>2, <1>3
<1>7. Cursor!FinishOne(m)
  BY <1>5, <1>6, Zenon DEF Cursor!FinishOne, Cursor!Prefix
<1>8. QED BY <1>4, <1>7, Zenon DEF CursorStep, Cursor!CursorNext

-----------------------------------------------------------------------------
(* The pump.                                                               *)

\* The pump: a reset it carries out is the cursor's Seek, a message it skips is finished,
\* and its other steps leave the cursor.
LEMMA PumpRefines ==
    ASSUME FiniteCounts, RefineInv, CursorInv', Pump
    PROVE  NothingNew /\ CursorStep /\ queueEnd' = queueEnd
<1> USE DEF backend, confirms, requeues, signals, modes, session, pump, admin
<1>1. /\ requeuedMsgChan \in Seq(Msgs) /\ NoMsg \notin Msgs /\ readerChanged \in Seq(Resets)
      /\ queueEnd \in Nat /\ Msgs \subseteq Nat /\ DoneInv
  BY Typed, ZenonT(40) DEF RefineInv, CursorInv, TypeFacts
<1>2. CASE PumpReset \/ PumpWait \/ PumpHold \/ PumpTryRead \/ PumpEndUpdated \/ PumpAccept \/ PumpOffer
           \/ PumpDrainConfirmed
  <2>1. UNCHANGED <<queueEnd, confirmed, done, inFlight, requeuedMsgChan, waitingRequeueMsgs, hand, msg, lastData>>
    BY <1>2, Zenon DEF PumpReset, PumpWait, PumpHold, PumpTryRead, PumpEndUpdated, PumpAccept, PumpOffer, PumpDrainConfirmed
  <2>2. QED BY <2>1, CursorStutters, Zenon DEF NothingNew, OnItsWay
<1>3. CASE PumpDrainFlight
  <2>1. /\ inFlight' = [x \in Msgs |-> "absent"]
        /\ UNCHANGED <<queueEnd, confirmed, done, requeuedMsgChan, waitingRequeueMsgs, hand, msg, lastData>>
    BY <1>3, Zenon DEF PumpDrainFlight, DrainFlight
  <2>2. \A x \in Msgs : inFlight'[x] = "absent"
    BY <2>1, Zenon
  <2>3. QED BY <2>1, <2>2, CursorStutters, Zenon DEF NothingNew, OnItsWay
<1>4. CASE PumpDrainWaiting
  <2>1. /\ requeuedMsgChan' = <<>> /\ waitingRequeueMsgs' = {} /\ lastData' = NoMsg
        /\ UNCHANGED <<queueEnd, confirmed, done, inFlight, hand, msg>>
    BY <1>4, Zenon DEF PumpDrainWaiting, DrainWaiting
  <2>2. \A i \in DOMAIN requeuedMsgChan' : FALSE
    BY <2>1
  <2>3. QED BY <1>1, <2>1, <2>2, CursorStutters, ZenonT(40) DEF NothingNew, OnItsWay
<1>5. CASE PumpRead
  <2>1. /\ UNCHANGED <<queueEnd, confirmed, done, inFlight, requeuedMsgChan, waitingRequeueMsgs, hand, msg>>
        /\ lastData' = lastData \/ (lastData' = readPos /\ readPos < queueEnd)
    BY <1>5, Zenon DEF PumpRead
  <2>2. QED BY <2>1, CursorStutters, ZenonT(40) DEF NothingNew, OnItsWay
<1>6. CASE PumpTakeRequeued
  <2>1. /\ requeuedMsgChan # <<>> /\ msg' = Head(requeuedMsgChan) /\ requeuedMsgChan' = Tail(requeuedMsgChan)
        /\ UNCHANGED <<queueEnd, confirmed, done, inFlight, waitingRequeueMsgs, hand, lastData>>
    BY <1>6, Zenon DEF PumpTakeRequeued
  <2>2. \E i \in DOMAIN requeuedMsgChan : requeuedMsgChan[i] = msg'
    <3>1. 1 \in DOMAIN requeuedMsgChan /\ requeuedMsgChan[1] = msg'
      BY <1>1, <2>1, SMTT(40)
    <3>2. QED BY <3>1, Zenon
  <2>3. \A i \in DOMAIN requeuedMsgChan' : \E j \in DOMAIN requeuedMsgChan : requeuedMsgChan[j] = requeuedMsgChan'[i]
    <3> TAKE i \in DOMAIN requeuedMsgChan'
    <3>1. i + 1 \in DOMAIN requeuedMsgChan /\ requeuedMsgChan[i + 1] = requeuedMsgChan'[i]
      BY <1>1, <2>1, SMTT(40)
    <3>2. QED BY <3>1, Zenon
  <2>4. QED BY <2>1, <2>2, <2>3, CursorStutters, ZenonT(40) DEF NothingNew, OnItsWay
<1>7. CASE PumpTakeData
  <2>1. /\ msg' = lastData /\ lastData' = NoMsg
        /\ UNCHANGED <<queueEnd, confirmed, done, inFlight, requeuedMsgChan, waitingRequeueMsgs, hand>>
    BY <1>7, Zenon DEF PumpTakeData
  <2>2. QED BY <1>1, <2>1, CursorStutters, ZenonT(40) DEF NothingNew, OnItsWay
<1>8. CASE PumpResetRequested \/ SeekFails \/ PumpDrop \/ PumpOutOfOrder
  <2>1. /\ msg' = NoMsg
        /\ UNCHANGED <<queueEnd, confirmed, done, inFlight, requeuedMsgChan, waitingRequeueMsgs, hand, lastData>>
    BY <1>8, Zenon DEF PumpResetRequested, SeekFails, PumpDrop, PumpOutOfOrder
  <2>2. QED BY <1>1, <2>1, CursorStutters, ZenonT(40) DEF NothingNew, OnItsWay
<1>9. CASE SeekDone
  <2>1. /\ msg' = NoMsg /\ Head(readerChanged) \in 0 .. queueEnd
        /\ confirmed' = Head(readerChanged) /\ done' = 0 .. Head(readerChanged) - 1
        /\ UNCHANGED <<queueEnd, inFlight, requeuedMsgChan, waitingRequeueMsgs, hand, lastData>>
    BY <1>9, Zenon DEF SeekDone
  <2>2. Cursor!Seek(Head(readerChanged))
    BY <2>1, Zenon DEF Cursor!Seek
  <2>3. CursorStep
    BY <2>1, <2>2, ZenonT(40) DEF CursorStep, Cursor!CursorNext
  <2>4. QED BY <1>1, <2>1, <2>3, ZenonT(40) DEF NothingNew, OnItsWay
<1>10. CASE PumpSkip
  <2>1. /\ msg \in Msgs /\ msg' = NoMsg /\ ConfirmBackendQueue(msg) /\ done' = done \cup {msg}
        /\ UNCHANGED <<queueEnd, readPos, inFlight, requeuedMsgChan, waitingRequeueMsgs, hand, lastData>>
    BY <1>1, <1>10, Zenon DEF PumpSkip, DoneInv, HoldInv
  <2>2. OnItsWay(msg)
    BY DEF OnItsWay
  <2>3. CursorStep
    BY <2>1, <2>2, ConfirmRefines, ZenonT(40)
  <2>4. QED BY <1>1, <2>1, <2>3, Zenon DEF NothingNew, OnItsWay
<1>11. QED
  BY <1>2, <1>3, <1>4, <1>5, <1>6, <1>7, <1>8, <1>9, <1>10, SMTT(40) DEF Pump, PumpSeek

-----------------------------------------------------------------------------
(* The connections and the scanner.                                        *)

\* doRequeue puts the message it is given where messages wait, and no other.
LEMMA RequeueOnly ==
    ASSUME CursorInv, NEW m \in Msgs, DoRequeue(m)
    PROVE  \A x \in Msgs : x \in waitingRequeueMsgs' \/ (\E i \in DOMAIN requeuedMsgChan' : requeuedMsgChan'[i] = x)
             => x = m \/ x \in waitingRequeueMsgs \/ \E i \in DOMAIN requeuedMsgChan : requeuedMsgChan[i] = x
<1>1. requeuedMsgChan \in Seq(Msgs)
  BY Typed, Zenon DEF TypeFacts
<1>2. CASE Len(requeuedMsgChan) < ReqCap
  <2>1. requeuedMsgChan' = Append(requeuedMsgChan, m) /\ UNCHANGED waitingRequeueMsgs
    BY <1>2, Zenon DEF DoRequeue
  <2>2. \A i \in DOMAIN requeuedMsgChan' : \/ requeuedMsgChan'[i] = m
                                           \/ i \in DOMAIN requeuedMsgChan /\ requeuedMsgChan'[i] = requeuedMsgChan[i]
    BY <1>1, <2>1, SMTT(40)
  <2>3. QED BY <2>1, <2>2, Zenon
<1>3. CASE ~(Len(requeuedMsgChan) < ReqCap)
  BY <1>3, Zenon DEF DoRequeue
<1>4. QED BY <1>2, <1>3, Zenon

\* FIN: the message was in flight.
LEMMA FinishRefines ==
    ASSUME FiniteCounts, RefineInv, CursorInv', NEW m \in Msgs, Finish(m), inFlight[m] # "absent"
    PROVE  NothingNew /\ CursorStep /\ queueEnd' = queueEnd
<1>1. /\ ConfirmBackendQueue(m) /\ done' = done \cup {m} /\ inFlight' = [inFlight EXCEPT ![m] = "absent"]
      /\ UNCHANGED <<queueEnd, readPos, msg, lastData, requeuedMsgChan, waitingRequeueMsgs, hand>>
  BY Zenon DEF Finish, requeues, session, pump
<1>2. \A x \in Msgs : inFlight'[x] # "absent" => inFlight[x] # "absent"
  BY <1>1, Typed, TypedAfter, ZenonT(60) DEF RefineInv, TypeFacts
<1>3. OnItsWay(m)
  BY DEF OnItsWay
<1>4. CursorStep
  BY <1>1, <1>3, ConfirmRefines, Zenon
<1>5. QED BY <1>1, <1>2, <1>4, Zenon DEF NothingNew, OnItsWay

\* A message taken out of flight by doRequeue.
LEMMA RequeueRefines ==
    ASSUME RefineInv, NEW m \in Msgs, DoRequeue(m), inFlight[m] # "absent",
           inFlight' = [inFlight EXCEPT ![m] = "absent"],
           UNCHANGED <<queueEnd, confirmed, done, hand, msg, lastData>>
    PROVE  NothingNew /\ CursorStep /\ queueEnd' = queueEnd
<1>1. \A x \in Msgs : inFlight'[x] # "absent" => inFlight[x] # "absent"
  BY Typed, TypedAfter, Zenon DEF RefineInv, TypeFacts
<1>2. \A x \in Msgs : x \in waitingRequeueMsgs' \/ (\E i \in DOMAIN requeuedMsgChan' : requeuedMsgChan'[i] = x)
          => x = m \/ x \in waitingRequeueMsgs \/ \E i \in DOMAIN requeuedMsgChan : requeuedMsgChan[i] = x
  BY RequeueOnly, Zenon DEF RefineInv
<1>3. QED BY <1>1, <1>2, CursorStutters, ZenonT(40) DEF NothingNew, OnItsWay

\* A client: what it finishes, or sampling drops for it, is the cursor's FinishOne; the
\* rest leaves the cursor.
LEMMA ClientRefines ==
    ASSUME FiniteCounts, RefineInv, CursorInv', NEW c \in Clients, Client(c)
    PROVE  NothingNew /\ CursorStep /\ queueEnd' = queueEnd
<1> USE DEF backend, confirms, requeues, signals, modes, session, pump, admin
<1>1. /\ NoMsg \notin Msgs /\ hand \in [Clients -> Msgs \cup {NoMsg}]
      /\ inFlight \in [Msgs -> Clients \cup {"absent", "deferred"}]
  BY Typed, Zenon DEF RefineInv, TypeFacts
<1>2. CASE Sub(c) \/ Heartbeat(c) \/ Close(c) \/ Stopped(c) \/ RemoveClient(c)
  <2>1. UNCHANGED <<queueEnd, confirmed, done, inFlight, requeuedMsgChan, waitingRequeueMsgs, hand, msg, lastData>>
    BY <1>2, Zenon DEF Sub, Heartbeat, Close, Stopped, RemoveClient
  <2>2. QED BY <2>1, CursorStutters, ZenonT(40) DEF NothingNew, OnItsWay
<1>3. CASE ClientTake(c)
  <2>1. /\ hand' = [hand EXCEPT ![c] = msg] /\ msg' = NoMsg
        /\ UNCHANGED <<queueEnd, confirmed, done, inFlight, requeuedMsgChan, waitingRequeueMsgs, lastData>>
    BY <1>3, Zenon DEF ClientTake
  <2>2. \A d \in Clients : hand'[d] = msg \/ hand'[d] = hand[d]
    BY <1>1, <2>1, Zenon
  <2>3. QED BY <1>1, <2>1, <2>2, CursorStutters, ZenonT(40) DEF NothingNew, OnItsWay
<1>4. CASE ClientCheck(c)
  <2>1. UNCHANGED <<queueEnd, confirmed, done, inFlight, requeuedMsgChan, waitingRequeueMsgs, msg, lastData>>
    BY <1>4, Zenon DEF ClientCheck
  <2>2. hand' = hand \/ hand' = [hand EXCEPT ![c] = NoMsg]
    BY <1>4, Zenon DEF ClientCheck
  <2>3. \A d \in Clients : hand'[d] = NoMsg \/ hand'[d] = hand[d]
    BY <1>1, <2>2, Zenon
  <2>4. QED BY <1>1, <2>1, <2>3, CursorStutters, ZenonT(40) DEF NothingNew, OnItsWay
<1>5. CASE ClientSample(c)
  <2>1. /\ hand[c] # NoMsg /\ ConfirmBackendQueue(hand[c]) /\ done' = done \cup {hand[c]}
        /\ hand' = [hand EXCEPT ![c] = NoMsg]
        /\ UNCHANGED <<queueEnd, readPos, inFlight, requeuedMsgChan, waitingRequeueMsgs, msg, lastData>>
    BY <1>5, Zenon DEF ClientSample
  <2>2. hand[c] \in Msgs /\ OnItsWay(hand[c])
    BY <1>1, <2>1, Zenon DEF OnItsWay
  <2>3. CursorStep
    BY <2>1, <2>2, ConfirmRefines, ZenonT(40)
  <2>4. \A d \in Clients : hand'[d] = NoMsg \/ hand'[d] = hand[d]
    BY <1>1, <2>1, Zenon
  <2>5. QED BY <1>1, <2>1, <2>3, <2>4, ZenonT(40) DEF NothingNew, OnItsWay
<1>6. CASE ClientPush(c)
  <2>1. /\ hand' = [hand EXCEPT ![c] = NoMsg]
        /\ inFlight' = inFlight \/ inFlight' = [inFlight EXCEPT ![hand[c]] = c]
        /\ UNCHANGED <<queueEnd, confirmed, done, requeuedMsgChan, waitingRequeueMsgs, msg, lastData>>
    BY <1>6, Zenon DEF ClientPush
  <2>2. \A d \in Clients : hand'[d] = NoMsg \/ hand'[d] = hand[d]
    BY <1>1, <2>1, Zenon
  <2>3. \A x \in Msgs : inFlight'[x] = inFlight[x] \/ x = hand[c]
    BY <1>1, <2>1, Zenon
  <2>4. QED BY <1>1, <2>1, <2>2, <2>3, CursorStutters, ZenonT(40) DEF NothingNew, OnItsWay
<1>7. ASSUME NEW m \in Msgs, Fin(c, m) PROVE NothingNew /\ CursorStep /\ queueEnd' = queueEnd
  <2>1. inFlight[m] # "absent" /\ Finish(m)
    BY <1>7, ClientsAssumption, Zenon DEF Fin
  <2>2. QED BY <2>1, FinishRefines, Zenon
<1>8. ASSUME NEW m \in Msgs, Requeue(c, m) PROVE NothingNew /\ CursorStep /\ queueEnd' = queueEnd
  <2>1. /\ DoRequeue(m) /\ inFlight[m] # "absent" /\ inFlight' = [inFlight EXCEPT ![m] = "absent"]
        /\ UNCHANGED <<queueEnd, confirmed, done, hand, msg, lastData>>
    BY <1>8, ClientsAssumption, Zenon DEF Requeue
  <2>2. QED BY <2>1, RequeueRefines, ZenonT(40)
<1>9. ASSUME NEW m \in Msgs, ReqDefer(c, m) PROVE NothingNew /\ CursorStep /\ queueEnd' = queueEnd
  <2>1. /\ inFlight[m] # "absent" /\ inFlight' = [inFlight EXCEPT ![m] = "deferred"]
        /\ UNCHANGED <<queueEnd, confirmed, done, requeuedMsgChan, waitingRequeueMsgs, hand, msg, lastData>>
    BY <1>9, ClientsAssumption, Zenon DEF ReqDefer
  <2>2. \A x \in Msgs : inFlight'[x] # "absent" => inFlight[x] # "absent"
    BY <1>1, <2>1, Zenon
  <2>3. QED BY <2>1, <2>2, CursorStutters, Zenon DEF NothingNew, OnItsWay
<1>10. QED
  BY <1>2, <1>3, <1>4, <1>5, <1>6, <1>7, <1>8, <1>9, ZenonT(40) DEF Client, Req, RequeueClientMessage

\* The scan loop moves messages about and leaves the cursor.
LEMMA ScannerRefines ==
    ASSUME FiniteCounts, RefineInv, Scanner
    PROVE  NothingNew /\ CursorStep /\ queueEnd' = queueEnd
<1> USE DEF backend, confirms, requeues, signals, modes, session, pump, admin
<1>1. ASSUME NEW m \in Msgs, ScanTimeout(m) PROVE NothingNew /\ CursorStep /\ queueEnd' = queueEnd
  <2>1. /\ DoRequeue(m) /\ inFlight[m] # "absent" /\ inFlight' = [inFlight EXCEPT ![m] = "absent"]
        /\ UNCHANGED <<queueEnd, confirmed, done, hand, msg, lastData>>
    BY <1>1, Zenon DEF ScanTimeout
  <2>2. QED BY <2>1, RequeueRefines, ZenonT(40)
<1>2. CASE ScanRequeue
  <2>1. UNCHANGED <<queueEnd, confirmed, done, inFlight, hand, msg, lastData>>
    BY <1>2, Zenon DEF ScanRequeue
  <2>2. requeuedMsgChan \in Seq(Msgs) /\ waitingRequeueMsgs \subseteq Msgs
    BY Typed, Zenon DEF RefineInv, TypeFacts
  <2>3. CASE consumeDisabled
    <3>1. UNCHANGED <<requeuedMsgChan, waitingRequeueMsgs>>
      BY <1>2, <2>3, Zenon DEF ScanRequeue
    <3>2. QED BY <2>1, <3>1, CursorStutters, ZenonT(40) DEF NothingNew, OnItsWay
  <2>4. CASE ~consumeDisabled
    <3>1. PICK q \in Seq(Msgs) :
              /\ \A i \in DOMAIN q : q[i] \in waitingRequeueMsgs
              /\ requeuedMsgChan' = requeuedMsgChan \o q
              /\ waitingRequeueMsgs' = waitingRequeueMsgs \ {q[i] : i \in DOMAIN q}
      BY <1>2, <2>4, ScanMoves, Zenon DEF RefineInv
    <3>4. \A i \in DOMAIN requeuedMsgChan' :
              \/ requeuedMsgChan'[i] \in waitingRequeueMsgs
              \/ i \in DOMAIN requeuedMsgChan /\ requeuedMsgChan'[i] = requeuedMsgChan[i]
      BY <2>2, <3>1, EntriesFromBoth, ZenonT(60)
    <3>5. waitingRequeueMsgs' \subseteq waitingRequeueMsgs
      BY <3>1, Zenon
    <3>6. QED BY <2>1, <3>4, <3>5, CursorStutters, ZenonT(40) DEF NothingNew, OnItsWay
  <2>5. QED BY <2>3, <2>4, Zenon
<1>3. CASE ScanTail
  <2>1. UNCHANGED <<queueEnd, confirmed, done, inFlight, requeuedMsgChan, waitingRequeueMsgs, hand, msg, lastData>>
    BY <1>3 DEF ScanTail
  <2>2. QED BY <2>1, CursorStutters, Zenon DEF NothingNew, OnItsWay
<1>4. QED BY <1>1, <1>2, <1>3, Zenon DEF Scanner

-----------------------------------------------------------------------------
(* The administrator and the replication link.                             *)

\* A position sent by the leader is the cursor's Follow, a message put to the end of the
\* queue is finished, and the other operations leave the cursor.
LEMMA AdminRefines ==
    ASSUME FiniteCounts, RefineInv, CursorInv', Admin
    PROVE  NothingNew /\ CursorStep /\ queueEnd' = queueEnd
<1> USE DEF AdminCall, backend, confirms, requeues, signals, modes, session, pump, admin
<1>1. /\ NoMsg \notin Msgs /\ requeuedMsgChan \in Seq(Msgs) /\ queueEnd \in Nat
  BY Typed, Zenon DEF RefineInv, TypeFacts
<1>2. CASE \/ \E offset \in 0 .. queueEnd + SeekBeyond : SetConsumeOffset(offset)
           \/ SetOrdered \/ UnsetOrdered \/ DoSkip \/ DisableConsume \/ AdminDrainConfirmed
           \/ EnableConsume \/ EnableReset \/ EnableAgain
  <2>1. UNCHANGED <<queueEnd, confirmed, done, inFlight, requeuedMsgChan, waitingRequeueMsgs, hand, msg, lastData>>
    BY <1>2, Zenon DEF SetConsumeOffset, SetOrdered, UnsetOrdered, DoSkip, DisableConsume, AdminDrainConfirmed,
                EnableConsume, EnableReset, EnableAgain
  <2>2. QED BY <2>1, CursorStutters, Zenon DEF NothingNew, OnItsWay
<1>3. ASSUME NEW m \in Msgs, RequeueToEnd(m) PROVE NothingNew /\ CursorStep /\ queueEnd' = queueEnd
  BY <1>3, FinishRefines, ZenonT(60) DEF RequeueToEnd
<1>4. CASE AdminDrainFlight
  <2>1. /\ inFlight' = [x \in Msgs |-> "absent"]
        /\ UNCHANGED <<queueEnd, confirmed, done, requeuedMsgChan, waitingRequeueMsgs, hand, msg, lastData>>
    BY <1>4, Zenon DEF AdminDrainFlight, DrainFlight
  <2>2. \A x \in Msgs : inFlight'[x] = "absent"
    BY <2>1
  <2>3. QED BY <2>1, <2>2, CursorStutters, Zenon DEF NothingNew, OnItsWay
<1>5. CASE AdminDrainWaiting \/ EnableDrain
  <2>1. /\ requeuedMsgChan' = <<>> /\ (waitingRequeueMsgs' = {} \/ waitingRequeueMsgs' = waitingRequeueMsgs)
        /\ msg' = NoMsg \/ msg' = msg
        /\ UNCHANGED <<queueEnd, confirmed, done, inFlight, hand, lastData>>
    <3>1. TakeOffered => /\ msg' = NoMsg \/ msg' = msg
                         /\ UNCHANGED <<queueEnd, confirmed, done, inFlight, hand, lastData>>
      BY Zenon DEF TakeOffered
    <3>2. AdminDrainWaiting => TakeOffered /\ requeuedMsgChan' = <<>> /\ waitingRequeueMsgs' = {}
      BY ZenonT(40) DEF AdminDrainWaiting, DrainWaiting
    <3>3. EnableDrain => TakeOffered /\ requeuedMsgChan' = <<>> /\ waitingRequeueMsgs' = waitingRequeueMsgs
      BY Zenon DEF EnableDrain
    <3>4. QED BY <1>5, <3>1, <3>2, <3>3, ZenonT(40)
  <2>2. (\A i \in DOMAIN requeuedMsgChan' : FALSE) /\ waitingRequeueMsgs' \subseteq waitingRequeueMsgs
    BY <2>1
  <2>3. QED BY <1>1, <2>1, <2>2, CursorStutters, ZenonT(40) DEF NothingNew, OnItsWay
<1>6. ASSUME NEW offset \in 0 .. queueEnd, NEW back \in BOOLEAN, NEW updates \in BOOLEAN,
             NEW list \in IntervalLists, UpdateChannelOffset(offset, back, updates, list)
      PROVE  NothingNew /\ CursorStep /\ queueEnd' = queueEnd
  <2> DEFINE also == IF updates /\ list # <<>> THEN list[1] .. list[2] - 1 ELSE {}
  <2>1. /\ done' = done \cup (0 .. offset - 1) \cup also
        /\ confirmed' = offset \/ confirmed' = confirmed
        /\ UNCHANGED <<queueEnd, inFlight, requeuedMsgChan, waitingRequeueMsgs, hand, msg, lastData>>
    BY <1>6, Zenon DEF UpdateChannelOffset
  <2>2. also \in SUBSET (0 .. queueEnd - 1)
    <3>1. list # <<>> => list[1] \in 0 .. queueEnd /\ list[2] \in 0 .. queueEnd
      BY <1>6, Zenon DEF IntervalLists
    <3>2. \A a, b \in 0 .. queueEnd : a .. b - 1 \subseteq 0 .. queueEnd - 1
      BY <1>1, SMTT(40)
    <3>3. QED BY <3>1, <3>2, Zenon
  <2> HIDE DEF also
  <2>3. Cursor!Follow(offset, also)
    BY <2>1, Zenon DEF Cursor!Follow
  <2>4. CursorStep
    BY <1>6, <2>2, <2>3, ZenonT(40) DEF CursorStep, Cursor!CursorNext
  <2>5. QED BY <2>1, <2>4, ZenonT(40) DEF NothingNew, OnItsWay
<1>7. QED BY <1>2, <1>3, <1>4, <1>5, <1>6, ZenonT(40) DEF Admin

-----------------------------------------------------------------------------
\* Every step of the channel keeps the invariant and is a step of the cursor.
LEMMA NextRefines ==
    ASSUME FiniteCounts, RefineInv, [Next]_vars
    PROVE  RefineInv' /\ CursorStep
<1>1. CursorInv'
  BY NextCursor, Zenon DEF RefineInv
<1>2. queueEnd \in Nat /\ queueEnd' \in Nat /\ Msgs \subseteq Nat
  BY <1>1, Typed, TypedAfter, Zenon DEF RefineInv, TypeFacts
<1>3. CASE UpdateQueueEnd
  <2>1. /\ queueEnd < MaxMsgs /\ queueEnd' = queueEnd + 1
        /\ UNCHANGED <<confirmed, done, inFlight, requeuedMsgChan, waitingRequeueMsgs, hand, msg, lastData>>
    BY <1>3, Zenon DEF UpdateQueueEnd, confirms, requeues, modes, session, pump, admin
  <2>2. \A x \in Msgs : OnItsWay(x)' => OnItsWay(x)
    BY <2>1, Zenon DEF OnItsWay
  <2>3. Published'
    BY <1>2, <2>1, <2>2, SMTT(40) DEF RefineInv, Published
  <2>4. Cursor!Publish
    BY <2>1, Zenon DEF Cursor!Publish
  <2>5. QED BY <1>1, <2>3, <2>4, Zenon DEF RefineInv, CursorStep, Cursor!CursorNext
<1>4. CASE Pump \/ (\E c \in Clients : Client(c)) \/ Scanner \/ Admin \/ UNCHANGED vars
  <2>1. NothingNew /\ CursorStep /\ queueEnd' = queueEnd
    <3>1. CASE UNCHANGED vars
      <4>1. UNCHANGED <<queueEnd, confirmed, done, inFlight, requeuedMsgChan, waitingRequeueMsgs, hand, msg, lastData>>
        BY <3>1, Zenon DEF vars, backend, requeues, session, pump
      <4>2. QED BY <4>1, CursorStutters, ZenonT(40) DEF NothingNew, OnItsWay
    <3>2. QED BY <1>1, <1>4, <3>1, PumpRefines, ClientRefines, ScannerRefines, AdminRefines, ZenonT(40)
  <2>2. Published'
    BY <2>1, Zenon DEF RefineInv, Published, NothingNew
  <2>3. QED BY <1>1, <2>1, <2>2, Zenon DEF RefineInv
<1>5. QED BY <1>3, <1>4, Zenon DEF Next

\* The channel opens with the cursor at its start and nothing at hand.
LEMMA InitRefines == Init => RefineInv /\ Cursor!CursorInit
<1> SUFFICES ASSUME Init PROVE RefineInv /\ Cursor!CursorInit
  OBVIOUS
<1>1. CursorInv
  BY InitCursor, Zenon
<1>2. \A x \in Msgs : ~OnItsWay(x)
  <2>1. /\ \A x \in Msgs : inFlight[x] = "absent" /\ x # NoMsg
        /\ \A i \in DOMAIN requeuedMsgChan : FALSE
        /\ \A c \in Clients : hand[c] = NoMsg
        /\ msg = NoMsg /\ lastData = NoMsg /\ waitingRequeueMsgs = {}
    BY ConstantsAssumption, SMTT(40) DEF Init, Msgs, NoMsg
  <2>2. QED BY <2>1, Zenon DEF OnItsWay
<1>3. queueEnd \in 0 .. MaxMsgs /\ confirmed = 0 /\ done = {}
  BY ConstantsAssumption, Zenon DEF Init
<1>4. QED BY <1>1, <1>2, <1>3, Zenon DEF RefineInv, Published, Cursor!CursorInit
=============================================================================
