--------------------------- MODULE ChannelProofs ---------------------------
(***************************************************************************)
(* The position of a channel never passes a message that is not done, for  *)
(* any number of clients and messages and any size of the window and the   *)
(* internal channels: CursorInv is an inductive invariant of Channel.      *)
(***************************************************************************)
EXTENDS Channel, IntervalHashProofs

-----------------------------------------------------------------------------
(* The shared operations.                                                  *)

\* A set of positions can be counted (CountsAreFinite in ChannelTheorems).
FiniteCounts ==
    /\ \A S \in SUBSET Positions : Cardinality(S) \in Nat
    /\ Cardinality({}) = 0

\* Len of the interval map is a natural number.
LEMMA HashLenType ==
    ASSUME FiniteCounts, NEW ih, DOMAIN ih.elems \subseteq Positions
    PROVE  HashLen(ih) \in Nat
<1>1. Cardinality(DOMAIN ih.elems) \in Nat
  BY Zenon DEF FiniteCounts
<1>2. QED BY <1>1 DEF HashLen

\* The resets the code sends are sequences of resets.
LEMMA ResetSeqs ==
    /\ <<>> \in Seq(Resets) /\ <<ResetKeep>> \in Seq(Resets) /\ <<ResetClear>> \in Seq(Resets)
    /\ \A offset \in Nat : <<offset>> \in Seq(Resets)
BY DEF Resets

\* The non-blocking send keeps a prefix of what was asked for.
LEMMA SendResetsType ==
    ASSUME readerChanged \in Seq(Resets), NEW rs \in Seq(Resets), SendResets(rs)
    PROVE  readerChanged' \in Seq(Resets)
<1> DEFINE all == readerChanged \o rs
<1>1. all \in Seq(Resets)
  OBVIOUS
<1>2. ResetCap \in Nat /\ Len(all) \in Nat
  BY <1>1, ConstantsAssumption
<1>3. Lower(ResetCap, Len(all)) \in Int /\ Lower(ResetCap, Len(all)) <= Len(all)
  BY <1>2 DEF Lower
<1>4. \A i \in 1 .. Lower(ResetCap, Len(all)) : all[i] \in Resets
  BY <1>1, <1>2, <1>3
<1>5. QED BY <1>3, <1>4 DEF SendResets

\* doRequeue puts messages, and nothing else, in its queue and its two maps.
LEMMA DoRequeueType ==
    ASSUME TypeOK, NEW m \in Msgs, DoRequeue(m)
    PROVE  /\ requeuedMsgChan' \in Seq(Msgs)
           /\ waitingRequeueChanMsgs' \subseteq Msgs /\ waitingRequeueMsgs' \subseteq Msgs
<1>1. CASE Len(requeuedMsgChan) < ReqCap
  BY <1>1 DEF TypeOK, RequeueTypes, DoRequeue
<1>2. CASE ~(Len(requeuedMsgChan) < ReqCap)
  BY <1>2 DEF TypeOK, RequeueTypes, DoRequeue
<1>3. QED BY <1>1, <1>2

\* Covered, offset by offset.
LEMMA CoveredWithin ==
    ASSUME NEW ih, Shaped(ih.elems, Positions), NEW S
    PROVE  Covered(ih) \subseteq S <=> Within(ih.elems, S)
<1>1. Positions \subseteq Nat
  BY ConstantsAssumption DEF Positions
<1>2. \A k \in DOMAIN ih.elems : ih.elems[k][1] \in Nat /\ ih.elems[k][2] \in Nat
  BY <1>1, Zenon DEF Shaped
<1>3. \A p : p \in Covered(ih) <=>
            \E k \in DOMAIN ih.elems : p \in Nat /\ ih.elems[k][1] <= p /\ p < ih.elems[k][2]
  BY <1>2 DEF Covered
<1>4. QED BY <1>3 DEF Within

\* A map from which keys were removed.
LEMMA SmallerHash ==
    ASSUME NEW ih, NEW small, Shaped(ih.elems, Positions),
           DOMAIN small.elems \subseteq DOMAIN ih.elems,
           \A k \in DOMAIN small.elems : small.elems[k] = ih.elems[k]
    PROVE  Shaped(small.elems, Positions) /\ Covered(small) \subseteq Covered(ih)
<1>1. Within(ih.elems, Covered(ih))
  BY CoveredWithin
<1>2. Shaped(small.elems, Positions) /\ Within(small.elems, Covered(ih))
  BY <1>1, ShrunkMap
<1>3. QED BY <1>2, CoveredWithin

\* DrainConfirmed and the scanner's cleaning only forget.
LEMMA DeleteLowerForgets ==
    ASSUME NEW ih, Shaped(ih.elems, Positions), NEW low
    PROVE  LET kept == DeleteLower(ih, low)
           IN  /\ Shaped(kept.elems, Positions) /\ Covered(kept) \subseteq Covered(ih)
               /\ DOMAIN kept.elems \subseteq DOMAIN ih.elems
               /\ DOMAIN kept.historyMsg \subseteq DOMAIN ih.historyMsg
<1> DEFINE kept == DeleteLower(ih, low)
<1>1. /\ DOMAIN kept.elems \subseteq DOMAIN ih.elems
      /\ \A k \in DOMAIN kept.elems : kept.elems[k] = ih.elems[k]
      /\ DOMAIN kept.historyMsg \subseteq DOMAIN ih.historyMsg
  BY DEF DeleteLower, Without
<1> HIDE DEF kept
<1>2. QED BY <1>1, SmallerHash, ZenonT(40) DEF kept

\* The map of a fresh or cleared channel covers nothing.
LEMMA NewIntervalHashEmpty ==
    /\ DOMAIN NewIntervalHash.elems = {} /\ DOMAIN NewIntervalHash.historyMsg = {}
    /\ Shaped(NewIntervalHash.elems, Positions) /\ Covered(NewIntervalHash) = {}
BY DEF NewIntervalHash, EmptyMap, Shaped, Covered

\* A map shaped over the positions has its keys there.
LEMMA ShapedKeys ==
    ASSUME NEW map, Shaped(map, Positions)
    PROVE  DOMAIN map \subseteq Positions
BY DEF Shaped

\* Adding [s, e) to the map keeps its types, and neither the map nor the merged
\* interval covers more than [s, e) and what was covered before.
LEMMA AddOrMergeKeeps ==
    ASSUME NEW ih, Shaped(ih.elems, Positions), DOMAIN ih.historyMsg \subseteq Positions,
           NEW s \in Positions, NEW e \in Positions, s < e
    PROVE  LET added == AddOrMerge(ih, s, e)
               i     == MergedInterval(ih, s, e)
               S     == Covered(ih) \cup (s .. e - 1)
           IN  /\ Shaped(added.elems, Positions) /\ DOMAIN added.historyMsg \subseteq Positions
               /\ Covered(added) \subseteq S
               /\ i \in Positions \X Positions /\ i[1] <= s /\ e <= i[2]
               /\ \A p \in Nat : i[1] <= p /\ p < i[2] => p \in S
<1> DEFINE S == Covered(ih) \cup (s .. e - 1)
           added == AddOrMerge(ih, s, e)
           i == MergedInterval(ih, s, e)
<1>1. Positions \in SUBSET Nat /\ s \in Nat /\ e \in Nat
  BY ConstantsAssumption DEF Positions
<1>2. Within(ih.elems, Covered(ih))
  BY CoveredWithin
<1>3. Within(ih.elems, S)
  BY <1>2 DEF Within
<1>4. \A p \in Nat : s <= p /\ p < e => p \in S
  BY <1>1
<1>5. DOMAIN added.historyMsg \subseteq Positions
  BY DEF AddOrMerge
<1> HIDE DEF S, added, i
<1>6. Shaped(added.elems, Positions) /\ Within(added.elems, S)
  BY <1>1, <1>3, <1>4, AddOrMergeWithin, SMTT(40) DEF added
<1>7. Covered(added) \subseteq S
  BY <1>6, CoveredWithin
<1>8. /\ i \in Positions \X Positions /\ i[1] <= s /\ e <= i[2]
      /\ \A p \in Nat : i[1] <= p /\ p < i[2] => p \in S
  BY <1>1, <1>3, <1>4, MergedWithin, SMTT(40) DEF i
<1>9. QED BY <1>5, <1>6, <1>7, <1>8 DEF S, added, i

\* The heart of the matter.  ConfirmBackendQueue of a message that is done keeps
\* the invariant: where the map covers finished messages only, so does the merged
\* interval, and the position may follow it; after an offset reset the map may
\* cover anything, but then ConfirmRead refuses to move.
LEMMA ConfirmKeeps ==
    ASSUME FiniteCounts, TypeOK, DoneInv, NEW m \in Msgs, ConfirmBackendQueue(m), done' = done \cup {m}
    PROVE  /\ confirmed' \in Positions /\ confirmed <= confirmed' /\ confirmed' <= readPos
           /\ DOMAIN confirmedMsgs'.elems \subseteq Positions
           /\ DOMAIN confirmedMsgs'.historyMsg \subseteq Positions
           /\ waitingConfirm' \in Nat /\ done' \subseteq Nat
           /\ ConfirmedOnlyDone' /\ Shaped(confirmedMsgs'.elems, Positions)
           /\ IF SeekUnderWay THEN confirmed' = confirmed ELSE Covered(confirmedMsgs') \subseteq done'
<1> DEFINE added == AddOrMerge(confirmedMsgs, m, m + 1)
           i == MergedInterval(confirmedMsgs, m, m + 1)
           S == Covered(confirmedMsgs) \cup {m}
<1>1. /\ MaxMsgs \in Nat /\ m \in Nat /\ m < MaxMsgs /\ m \in Positions /\ m + 1 \in Positions
      /\ m < m + 1 /\ Positions \subseteq Nat /\ m .. (m + 1) - 1 = {m}
  BY ConstantsAssumption DEF Msgs, Positions
<1>2. /\ confirmed \in Nat /\ readPos \in Nat /\ confirmed <= readPos /\ done \subseteq Nat
      /\ confirmed \in Positions /\ readPos \in Positions /\ waitingConfirm \in Nat
      /\ Shaped(confirmedMsgs.elems, Positions) /\ DOMAIN confirmedMsgs.historyMsg \subseteq Positions
  BY <1>1 DEF TypeOK, CursorTypes, ConfirmTypes, DoneInv, MapInv
<1>3. /\ Shaped(added.elems, Positions) /\ DOMAIN added.historyMsg \subseteq Positions
      /\ Covered(added) \subseteq S
  BY <1>1, <1>2, AddOrMergeKeeps, SMTT(40)
<1>4. /\ i \in Positions \X Positions /\ i[1] <= m /\ m + 1 <= i[2]
      /\ \A p \in Nat : i[1] <= p /\ p < i[2] => p \in S
  BY <1>1, <1>2, AddOrMergeKeeps
<1>5. i[1] \in Nat /\ i[2] \in Nat /\ i[2] \in Positions
  BY <1>1, <1>4, Zenon
<1>6. Reduces(m) <=> (m >= confirmed /\ i[1] <= confirmed /\ i[2] <= readPos)
  BY DEF Reduces, Merged, ConfirmReadOK
<1>7. confirmedMsgs' \in {confirmedMsgs, added, DeleteInterval(added, i)}
  BY DEF ConfirmBackendQueue, ConfirmedMsgsAfter, Merged
<1>8. confirmed' = IF Reduces(m) THEN i[2] ELSE confirmed
  BY DEF ConfirmBackendQueue, Merged
<1>9. \/ confirmedMsgs' = ConfirmedMsgsAfter(m) /\ waitingConfirm' = HashLen(confirmedMsgs')
      \/ waitingConfirm' = waitingConfirm
  BY Zenon DEF ConfirmBackendQueue
<1>10. /\ DOMAIN DeleteInterval(added, i).elems \subseteq DOMAIN added.elems
       /\ \A k \in DOMAIN DeleteInterval(added, i).elems : DeleteInterval(added, i).elems[k] = added.elems[k]
       /\ DeleteInterval(added, i).historyMsg = added.historyMsg
  BY DEF DeleteInterval, Without, AddOrMerge
<1> HIDE DEF added, i, S
<1>11. /\ Shaped(DeleteInterval(added, i).elems, Positions)
       /\ Covered(DeleteInterval(added, i)) \subseteq Covered(added)
  BY <1>3, <1>10, SmallerHash, SMTT(40)
<1>12. /\ Shaped(confirmedMsgs'.elems, Positions) /\ DOMAIN confirmedMsgs'.historyMsg \subseteq Positions
       /\ Covered(confirmedMsgs') \subseteq S
  BY <1>2, <1>3, <1>7, <1>10, <1>11, SMTT(40) DEF S
<1>13. DOMAIN confirmedMsgs'.elems \subseteq Positions
  BY <1>12, ShapedKeys
<1>14. waitingConfirm' \in Nat
  BY <1>2, <1>9, <1>13, HashLenType, SMTT(40)
<1>15. confirmed' \in Positions /\ confirmed <= confirmed' /\ confirmed' <= readPos
  BY <1>1, <1>2, <1>4, <1>5, <1>6, <1>8, SMTT(40)
<1>16. CASE SeekUnderWay
  <2>1. readPos = confirmed
    BY <1>16 DEF DoneInv, MapInv
  <2>2. confirmed' = confirmed
    BY <2>1, <1>1, <1>2, <1>4, <1>5, <1>6, <1>8, SMTT(40)
  <2>3. ConfirmedOnlyDone'
    BY <2>2 DEF DoneInv, ConfirmedOnlyDone
  <2>4. QED BY <2>2, <2>3, <1>1, <1>2, <1>12, <1>13, <1>14, <1>15, <1>16, SMTT(40)
<1>17. CASE ~SeekUnderWay
  <2>1. S \subseteq done'
    BY <1>17 DEF DoneInv, MapInv, S
  <2>2. ASSUME NEW p \in Msgs, p < confirmed' PROVE p \in done'
    <3>1. p \in Nat /\ (p < confirmed => p \in done)
      BY <1>1 DEF DoneInv, ConfirmedOnlyDone, Msgs
    <3>2. CASE p < confirmed
      BY <3>1, <3>2
    <3>3. CASE ~(p < confirmed)
      <4>1. Reduces(m) /\ confirmed' = i[2]
        BY <2>2, <3>3, <1>8, SMTT(40)
      <4>2. i[1] <= p /\ p < i[2]
        BY <4>1, <1>2, <1>5, <1>6, <2>2, <3>1, <3>3, SMTT(40)
      <4>3. QED BY <4>2, <3>1, <1>4, <2>1
    <3>4. QED BY <3>2, <3>3
  <2>3. ConfirmedOnlyDone'
    BY <2>2 DEF ConfirmedOnlyDone
  <2>4. QED BY <2>1, <2>3, <1>1, <1>2, <1>12, <1>13, <1>14, <1>15, <1>17, ZenonT(40)
<1>18. QED BY <1>16, <1>17

\* DrainConfirmed only forgets, and forgets everything if told to.
LEMMA DrainConfirmedForgets ==
    ASSUME FiniteCounts, TypeOK, DoneInv, NEW clear, DrainConfirmed(clear)
    PROVE  /\ Shaped(confirmedMsgs'.elems, Positions) /\ DOMAIN confirmedMsgs'.elems \subseteq Positions
           /\ DOMAIN confirmedMsgs'.historyMsg \subseteq Positions /\ waitingConfirm' \in Nat
           /\ Covered(confirmedMsgs') \subseteq Covered(confirmedMsgs)
           /\ clear => Covered(confirmedMsgs') = {}
<1>1. Shaped(confirmedMsgs.elems, Positions) /\ DOMAIN confirmedMsgs.historyMsg \subseteq Positions
  BY DEF TypeOK, ConfirmTypes, DoneInv, MapInv
<1>2. waitingConfirm' = HashLen(confirmedMsgs')
  BY DEF DrainConfirmed
<1>3. /\ Shaped(confirmedMsgs'.elems, Positions)
      /\ DOMAIN confirmedMsgs'.historyMsg \subseteq Positions
      /\ Covered(confirmedMsgs') \subseteq Covered(confirmedMsgs)
      /\ clear => Covered(confirmedMsgs') = {}
  <2>1. CASE clear
    BY <2>1, NewIntervalHashEmpty DEF DrainConfirmed
  <2>2. CASE ~clear
    <3>1. confirmedMsgs' = DeleteLower(confirmedMsgs, confirmed)
      BY <2>2 DEF DrainConfirmed
    <3>2. QED BY <3>1, <2>2, <1>1, DeleteLowerForgets
  <2>3. QED BY <2>1, <2>2
<1>4. DOMAIN confirmedMsgs'.elems \subseteq Positions
  BY <1>3, ShapedKeys, SMTT(40)
<1>5. QED BY <1>2, <1>3, <1>4, HashLenType, SMTT(40)

-----------------------------------------------------------------------------
(* The invariant group by group: a step disturbs few of them.              *)

\* What a step leaves alone keeps its part of the invariant.
LEMMA PartsStay ==
    ASSUME CursorInv
    PROVE  /\ UNCHANGED backend => CursorTypes'
           /\ UNCHANGED confirms => ConfirmTypes'
           /\ UNCHANGED inFlight => FlightTypes'
           /\ UNCHANGED requeues => RequeueTypes'
           /\ UNCHANGED signals => SignalTypes'
           /\ UNCHANGED modes => ModeTypes'
           /\ UNCHANGED session => SessionTypes'
           /\ UNCHANGED pump => PumpTypes' /\ HoldInv' /\ (SeekUnderWay' <=> SeekUnderWay)
           /\ UNCHANGED scanPc => ScanTypes'
           /\ UNCHANGED admin => AdminTypes'
           /\ UNCHANGED done => done' \subseteq Nat
           /\ UNCHANGED <<backend, done>> => ConfirmedOnlyDone'
           /\ UNCHANGED <<backend, confirms, done>> /\ (SeekUnderWay' <=> SeekUnderWay) => MapInv'
<1>1. /\ CursorTypes /\ ConfirmTypes /\ FlightTypes /\ RequeueTypes /\ SignalTypes /\ ModeTypes
      /\ SessionTypes /\ PumpTypes /\ ScanTypes /\ AdminTypes /\ done \subseteq Nat
      /\ ConfirmedOnlyDone /\ MapInv /\ HoldInv
  BY Zenon DEF CursorInv, TypeOK, DoneInv
<1>2. UNCHANGED backend => CursorTypes'
  BY <1>1, Zenon DEF CursorTypes, backend
<1>3. UNCHANGED confirms => ConfirmTypes'
  BY <1>1, Zenon DEF ConfirmTypes, confirms
<1>4. UNCHANGED inFlight => FlightTypes'
  BY <1>1, Zenon DEF FlightTypes
<1>5. UNCHANGED requeues => RequeueTypes'
  BY <1>1, Zenon DEF RequeueTypes, requeues
<1>6. UNCHANGED signals => SignalTypes'
  BY <1>1, Zenon DEF SignalTypes, signals
<1>7. UNCHANGED modes => ModeTypes'
  BY <1>1, Zenon DEF ModeTypes, modes
<1>8. UNCHANGED session => SessionTypes'
  BY <1>1, Zenon DEF SessionTypes, session
<1>9. UNCHANGED pump => PumpTypes' /\ HoldInv' /\ (SeekUnderWay' <=> SeekUnderWay)
  <2>1. UNCHANGED pump => PumpTypes'
    BY <1>1, Zenon DEF PumpTypes, pump
  <2>2. UNCHANGED pump => HoldInv'
    BY <1>1, Zenon DEF HoldInv, pump
  <2>3. UNCHANGED pump => (SeekUnderWay' <=> SeekUnderWay)
    BY Zenon DEF SeekUnderWay, pump
  <2>4. QED BY <2>1, <2>2, <2>3, Zenon
<1>10. UNCHANGED scanPc => ScanTypes'
  BY <1>1, Zenon DEF ScanTypes
<1>11. UNCHANGED admin => AdminTypes'
  BY <1>1, Zenon DEF AdminTypes, admin
<1>12. UNCHANGED done => done' \subseteq Nat
  BY <1>1, Zenon
<1>13. UNCHANGED <<backend, done>> => ConfirmedOnlyDone'
  BY <1>1, Zenon DEF ConfirmedOnlyDone, backend
<1>14. UNCHANGED <<backend, confirms, done>> /\ (SeekUnderWay' <=> SeekUnderWay) => MapInv'
  BY <1>1, Zenon DEF MapInv, backend, confirms
<1>15. QED
  BY <1>2, <1>3, <1>4, <1>5, <1>6, <1>7, <1>8, <1>9, <1>10, <1>11, <1>12, <1>13, <1>14, Zenon

\* The parts make up the invariant.
LEMMA PartsMake ==
    ASSUME CursorTypes', ConfirmTypes', FlightTypes', RequeueTypes', SignalTypes', ModeTypes',
           SessionTypes', PumpTypes', ScanTypes', AdminTypes', done' \subseteq Nat,
           ConfirmedOnlyDone', MapInv', HoldInv'
    PROVE  CursorInv'
BY Zenon DEF CursorInv, TypeOK, DoneInv

\* A step that leaves the cursor, the map and the pump alone is judged by the rest.
LEMMA Aside ==
    ASSUME CursorInv, UNCHANGED <<backend, confirms, pump, done>>,
           FlightTypes', RequeueTypes', SignalTypes', ModeTypes', SessionTypes', ScanTypes', AdminTypes'
    PROVE  CursorInv'
<1>1. UNCHANGED backend /\ UNCHANGED confirms /\ UNCHANGED pump /\ UNCHANGED done
  OBVIOUS
<1>2. /\ CursorTypes' /\ ConfirmTypes' /\ done' \subseteq Nat /\ PumpTypes' /\ HoldInv'
      /\ ConfirmedOnlyDone' /\ MapInv'
  BY <1>1, PartsStay, Zenon
<1>3. QED BY <1>2, PartsMake, Zenon

\* So is a step of the pump outside a drain that leaves the cursor and the map alone.
LEMMA PumpAside ==
    ASSUME CursorInv, UNCHANGED <<backend, confirms, inFlight, modes, session, scanPc, admin, done>>,
           pc \notin DrainPcs, pc' \notin DrainPcs, PumpTypes', HoldInv', RequeueTypes', SignalTypes'
    PROVE  CursorInv'
<1>1. /\ UNCHANGED backend /\ UNCHANGED confirms /\ UNCHANGED inFlight /\ UNCHANGED modes
      /\ UNCHANGED session /\ UNCHANGED scanPc /\ UNCHANGED admin /\ UNCHANGED done
  OBVIOUS
<1>2. SeekUnderWay' <=> SeekUnderWay
  BY Zenon DEF SeekUnderWay, DrainPcs
<1>3. /\ CursorTypes' /\ ConfirmTypes' /\ FlightTypes' /\ ModeTypes' /\ SessionTypes' /\ ScanTypes'
      /\ AdminTypes' /\ done' \subseteq Nat /\ ConfirmedOnlyDone' /\ MapInv'
  BY <1>1, <1>2, PartsStay, Zenon
<1>4. QED BY <1>3, PartsMake, Zenon

\* ConfirmBackendQueue, part by part.
LEMMA ConfirmParts ==
    ASSUME FiniteCounts, CursorInv, NEW m \in Msgs, ConfirmBackendQueue(m), done' = done \cup {m},
           UNCHANGED <<queueEnd, readPos>>, SeekUnderWay' <=> SeekUnderWay
    PROVE  CursorTypes' /\ ConfirmTypes' /\ done' \subseteq Nat /\ ConfirmedOnlyDone' /\ MapInv'
<1>1. TypeOK /\ DoneInv /\ CursorTypes /\ MapInv
  BY Zenon DEF CursorInv, TypeOK, DoneInv
<1>2. /\ confirmed' \in Positions /\ confirmed <= confirmed' /\ confirmed' <= readPos
      /\ DOMAIN confirmedMsgs'.elems \subseteq Positions
      /\ DOMAIN confirmedMsgs'.historyMsg \subseteq Positions
      /\ waitingConfirm' \in Nat /\ done' \subseteq Nat
      /\ ConfirmedOnlyDone' /\ Shaped(confirmedMsgs'.elems, Positions)
      /\ IF SeekUnderWay THEN confirmed' = confirmed ELSE Covered(confirmedMsgs') \subseteq done'
  BY <1>1, ConfirmKeeps, Zenon
<1>3. CursorTypes'
  BY <1>1, <1>2, Zenon DEF CursorTypes
<1>4. ConfirmTypes'
  BY <1>2, Zenon DEF ConfirmTypes
<1>5. MapInv'
  BY <1>1, <1>2, Zenon DEF MapInv
<1>6. QED BY <1>2, <1>3, <1>4, <1>5, Zenon

\* The map shrinks: DrainConfirmed, or the scanner's cleaning.
LEMMA ShrinkParts ==
    ASSUME CursorInv, UNCHANGED <<backend, done>>, SeekUnderWay' <=> SeekUnderWay,
           Shaped(confirmedMsgs'.elems, Positions),
           Covered(confirmedMsgs') \subseteq Covered(confirmedMsgs)
    PROVE  MapInv'
<1>1. MapInv
  BY Zenon DEF CursorInv, DoneInv
<1>2. UNCHANGED readPos /\ UNCHANGED confirmed /\ UNCHANGED done
  BY Zenon DEF backend
<1>3. QED BY <1>1, <1>2, Zenon DEF MapInv

\* The head of readerChanged is a reset, and so is what is left.
LEMMA TakeResetType ==
    ASSUME CursorInv, TakesReset
    PROVE  Head(readerChanged) \in Resets /\ Tail(readerChanged) \in Seq(Resets)
<1>1. readerChanged # <<>> /\ readerChanged \in Seq(Resets)
  BY Zenon DEF TakesReset, CursorInv, TypeOK, SignalTypes
<1>2. QED BY <1>1

\* A reset is sent.
LEMMA SendParts ==
    ASSUME CursorInv, NEW rs \in Seq(Resets), SendResets(rs),
           tryReadBackend' \in BOOLEAN, UNCHANGED <<endUpdatedChan, needNotifyRead>>
    PROVE  SignalTypes'
<1>1. SignalTypes
  BY Zenon DEF CursorInv, TypeOK
<1>2. readerChanged \in Seq(Resets)
  BY <1>1, Zenon DEF SignalTypes
<1>3. readerChanged' \in Seq(Resets)
  BY <1>2, SendResetsType, Zenon
<1>4. QED BY <1>1, <1>3, Zenon DEF SignalTypes

\* Only the wake-up of the reader is touched.
LEMMA WakeParts ==
    ASSUME CursorInv, tryReadBackend' \in BOOLEAN, UNCHANGED <<endUpdatedChan, needNotifyRead, readerChanged>>
    PROVE  SignalTypes'
<1>1. SignalTypes
  BY Zenon DEF CursorInv, TypeOK
<1>2. QED BY <1>1, Zenon DEF SignalTypes

\* The values needResetReader may take.
LEMMA ResetLevels == 0 \in 0 .. 2 /\ 1 \in 0 .. 2 /\ 2 \in 0 .. 2
OBVIOUS

-----------------------------------------------------------------------------
(* One step of each process.                                               *)

\* A step of the pump at the head of its loop, or inside a drain.
LEMMA PumpDrainStep ==
    ASSUME FiniteCounts, CursorInv, PumpReset \/ PumpDrainFlight \/ PumpDrainConfirmed \/ PumpDrainWaiting
    PROVE  CursorInv'
<1>1. /\ CursorTypes /\ ConfirmTypes /\ RequeueTypes /\ SignalTypes /\ PumpTypes /\ ConfirmedOnlyDone
      /\ MapInv /\ HoldInv /\ TypeOK /\ DoneInv
  BY Zenon DEF CursorInv, TypeOK, DoneInv
<1>2. CASE PumpReset
  <2>1. /\ pc = "top" /\ pc' = "drainFlight" /\ readPos' = confirmed /\ needResetReader' = 0
        /\ readBackendWait' = FALSE /\ UNCHANGED <<queueEnd, confirmed, msg, lastData>>
        /\ UNCHANGED confirms /\ UNCHANGED inFlight /\ UNCHANGED requeues /\ UNCHANGED signals
        /\ UNCHANGED modes /\ UNCHANGED session /\ UNCHANGED scanPc /\ UNCHANGED admin /\ UNCHANGED done
    BY <1>2, Zenon DEF PumpReset
  <2>2. pumpDrain' \in {"clear", "keep"}
    BY <1>2, Zenon DEF PumpReset
  <2>3. PumpTypes' /\ HoldInv'
    BY <1>1, <2>1, <2>2, ResetLevels, Zenon DEF PumpTypes, HoldInv, DrainPcs
  <2>4. CursorTypes'
    <3>1. confirmed \in Nat /\ queueEnd \in Nat /\ readPos \in Nat
      BY <1>1, ConstantsAssumption DEF CursorTypes, Positions
    <3>2. confirmed <= confirmed /\ confirmed <= queueEnd
      BY <1>1, <3>1 DEF CursorTypes
    <3>3. QED BY <1>1, <2>1, <3>2, Zenon DEF CursorTypes
  <2>5. ConfirmedOnlyDone'
    BY <1>1, <2>1, Zenon DEF ConfirmedOnlyDone
  <2>6. MapInv'
    BY <1>1, <2>1, <2>2, Zenon DEF MapInv, SeekUnderWay, confirms
  <2>7. /\ ConfirmTypes' /\ FlightTypes' /\ RequeueTypes' /\ SignalTypes' /\ ModeTypes' /\ SessionTypes'
        /\ ScanTypes' /\ AdminTypes' /\ done' \subseteq Nat
    BY <2>1, PartsStay, Zenon
  <2>8. QED BY <2>3, <2>4, <2>5, <2>6, <2>7, PartsMake, Zenon
<1>3. CASE PumpDrainFlight
  <2>1. /\ pc = "drainFlight" /\ pc' = "drainConfirmed" /\ inFlight' = [m \in Msgs |-> "absent"]
        /\ UNCHANGED <<msg, lastData, readBackendWait, needResetReader, pumpDrain>>
        /\ UNCHANGED backend /\ UNCHANGED confirms /\ UNCHANGED requeues /\ UNCHANGED signals
        /\ UNCHANGED modes /\ UNCHANGED session /\ UNCHANGED scanPc /\ UNCHANGED admin /\ UNCHANGED done
    BY <1>3, Zenon DEF PumpDrainFlight, DrainFlight
  <2>2. PumpTypes' /\ HoldInv' /\ (SeekUnderWay' <=> SeekUnderWay)
    BY <1>1, <2>1, Zenon DEF PumpTypes, HoldInv, DrainPcs, SeekUnderWay
  <2>3. FlightTypes'
    BY <2>1, Zenon DEF FlightTypes
  <2>4. /\ CursorTypes' /\ ConfirmTypes' /\ RequeueTypes' /\ SignalTypes' /\ ModeTypes' /\ SessionTypes'
        /\ ScanTypes' /\ AdminTypes' /\ done' \subseteq Nat /\ ConfirmedOnlyDone' /\ MapInv'
    BY <2>1, <2>2, PartsStay, Zenon
  <2>5. QED BY <2>2, <2>3, <2>4, PartsMake, Zenon
<1>4. CASE PumpDrainConfirmed
  <2>1. /\ DrainConfirmed(pumpDrain # "keep") /\ pc = "drainConfirmed" /\ pc' = "drainWaiting"
        /\ UNCHANGED <<msg, lastData, readBackendWait, needResetReader, pumpDrain>>
        /\ UNCHANGED backend /\ UNCHANGED inFlight /\ UNCHANGED requeues /\ UNCHANGED signals
        /\ UNCHANGED modes /\ UNCHANGED session /\ UNCHANGED scanPc /\ UNCHANGED admin /\ UNCHANGED done
    BY <1>4, Zenon DEF PumpDrainConfirmed
  <2>2. /\ Shaped(confirmedMsgs'.elems, Positions) /\ DOMAIN confirmedMsgs'.elems \subseteq Positions
        /\ DOMAIN confirmedMsgs'.historyMsg \subseteq Positions /\ waitingConfirm' \in Nat
        /\ Covered(confirmedMsgs') \subseteq Covered(confirmedMsgs)
        /\ pumpDrain # "keep" => Covered(confirmedMsgs') = {}
    BY <1>1, <2>1, DrainConfirmedForgets, Zenon
  <2>3. PumpTypes' /\ HoldInv' /\ ~SeekUnderWay'
    BY <1>1, <2>1, Zenon DEF PumpTypes, HoldInv, DrainPcs, SeekUnderWay
  <2>4. ConfirmTypes'
    BY <2>2, Zenon DEF ConfirmTypes
  <2>5. MapInv'
    <3>1. Covered(confirmedMsgs') \subseteq done
      <4>1. CASE pumpDrain = "seek"
        BY <4>1, <2>2, Zenon
      <4>2. CASE pumpDrain # "seek"
        BY <4>2, <1>1, <2>2, Zenon DEF MapInv, SeekUnderWay
      <4>3. QED BY <4>1, <4>2, Zenon
    <3>2. QED BY <3>1, <2>1, <2>2, <2>3, Zenon DEF MapInv
  <2>6. /\ CursorTypes' /\ FlightTypes' /\ RequeueTypes' /\ SignalTypes' /\ ModeTypes' /\ SessionTypes'
        /\ ScanTypes' /\ AdminTypes' /\ done' \subseteq Nat /\ ConfirmedOnlyDone'
    BY <2>1, PartsStay, Zenon
  <2>7. QED BY <2>3, <2>4, <2>5, <2>6, PartsMake, Zenon
<1>5. CASE PumpDrainWaiting
  <2>1. /\ pc = "drainWaiting" /\ pc' \in {"top", "read"} /\ lastData' = NoMsg /\ pumpDrain' = "none"
        /\ requeuedMsgChan' = <<>> /\ waitingRequeueMsgs' = {} /\ waitingRequeueChanMsgs' = {}
        /\ UNCHANGED <<msg, readBackendWait, needResetReader>>
        /\ UNCHANGED backend /\ UNCHANGED confirms /\ UNCHANGED inFlight /\ UNCHANGED signals
        /\ UNCHANGED modes /\ UNCHANGED session /\ UNCHANGED scanPc /\ UNCHANGED admin /\ UNCHANGED done
    BY <1>5, Zenon DEF PumpDrainWaiting, DrainWaiting
  <2>2. PumpTypes' /\ HoldInv' /\ (SeekUnderWay' <=> SeekUnderWay)
    BY <1>1, <2>1, Zenon DEF PumpTypes, HoldInv, SeekUnderWay
  <2>3. RequeueTypes'
    BY <2>1 DEF RequeueTypes
  <2>4. /\ CursorTypes' /\ ConfirmTypes' /\ FlightTypes' /\ SignalTypes' /\ ModeTypes' /\ SessionTypes'
        /\ ScanTypes' /\ AdminTypes' /\ done' \subseteq Nat /\ ConfirmedOnlyDone' /\ MapInv'
    BY <2>1, <2>2, PartsStay, Zenon
  <2>5. QED BY <2>2, <2>3, <2>4, PartsMake, Zenon
<1>6. QED BY <1>2, <1>3, <1>4, <1>5, Zenon

\* TryReadOne: the position read moves up by the message that is read ahead.
LEMMA PumpReadStep ==
    ASSUME CursorInv, PumpRead
    PROVE  CursorInv'
<1>1. CursorTypes /\ PumpTypes /\ ConfirmedOnlyDone /\ MapInv /\ HoldInv
  BY Zenon DEF CursorInv, TypeOK, DoneInv
<1>2. /\ pc \in {"read", "top"} /\ pc' \in {"selectNil", "selectData", "selectEnd"}
      /\ UNCHANGED <<queueEnd, confirmed, msg, readBackendWait, needResetReader, pumpDrain>>
      /\ UNCHANGED confirms /\ UNCHANGED inFlight /\ UNCHANGED requeues /\ UNCHANGED signals
      /\ UNCHANGED modes /\ UNCHANGED session /\ UNCHANGED scanPc /\ UNCHANGED admin /\ UNCHANGED done
  BY Zenon DEF PumpRead
<1>3. /\ \/ UNCHANGED <<lastData, readPos>>
         \/ readPos < queueEnd /\ lastData' = readPos /\ readPos' = readPos + 1
      /\ pc' = "selectData" => lastData' # NoMsg
  <2>1. NoMsg # readPos
    BY <1>1, ConstantsAssumption DEF CursorTypes, Positions, NoMsg
  <2>2. \/ UNCHANGED <<lastData, readPos>>
        \/ readPos < queueEnd /\ lastData' = readPos /\ readPos' = readPos + 1
    BY Zenon DEF PumpRead
  <2>3. pc' = "selectData" => lastData' # NoMsg
    BY <2>1 DEF PumpRead
  <2>4. QED BY <2>2, <2>3, Zenon
<1>4. /\ readPos' \in Positions /\ confirmed <= readPos' /\ readPos' <= queueEnd
      /\ lastData' \in Msgs \cup {NoMsg}
  <2>1. CASE UNCHANGED <<lastData, readPos>>
    BY <2>1, <1>1, Zenon DEF CursorTypes, PumpTypes
  <2>2. CASE readPos < queueEnd /\ lastData' = readPos /\ readPos' = readPos + 1
    BY <2>2, <1>1, ConstantsAssumption DEF CursorTypes, Positions, Msgs
  <2>3. QED BY <1>3, <2>1, <2>2, Zenon
<1>5. CursorTypes'
  BY <1>1, <1>2, <1>4, Zenon DEF CursorTypes
<1>6. PumpTypes' /\ HoldInv'
  BY <1>1, <1>2, <1>3, <1>4, Zenon DEF PumpTypes, HoldInv
<1>7. ConfirmedOnlyDone' /\ MapInv'
  BY <1>1, <1>2, Zenon DEF ConfirmedOnlyDone, MapInv, SeekUnderWay, confirms
<1>8. /\ ConfirmTypes' /\ FlightTypes' /\ RequeueTypes' /\ SignalTypes' /\ ModeTypes' /\ SessionTypes'
      /\ ScanTypes' /\ AdminTypes' /\ done' \subseteq Nat
  BY <1>2, PartsStay, Zenon
<1>9. QED BY <1>5, <1>6, <1>7, <1>8, PartsMake, Zenon

\* ResetReadToOffset: the cursor jumps, and until the drain the map means nothing.
LEMMA SeekDoneStep ==
    ASSUME CursorInv, SeekDone
    PROVE  CursorInv'
<1> DEFINE offset == Head(readerChanged)
<1>1. CursorTypes /\ SignalTypes /\ PumpTypes /\ MapInv
  BY Zenon DEF CursorInv, TypeOK, DoneInv
<1>2. /\ offset \in 0 .. queueEnd /\ readPos' = offset /\ confirmed' = offset
      /\ done' = 0 .. offset - 1 /\ UNCHANGED queueEnd
      /\ pc' = "drainFlight" /\ pumpDrain' = "seek" /\ msg' = NoMsg /\ readBackendWait' = FALSE
      /\ readerChanged' = Tail(readerChanged) /\ TakesReset
      /\ UNCHANGED <<tryReadBackend, endUpdatedChan, needNotifyRead, lastData, needResetReader>>
      /\ UNCHANGED confirms /\ UNCHANGED inFlight /\ UNCHANGED requeues /\ UNCHANGED modes
      /\ UNCHANGED session /\ UNCHANGED scanPc /\ UNCHANGED admin
  BY Zenon DEF SeekDone
<1>3. Tail(readerChanged) \in Seq(Resets)
  BY <1>2, TakeResetType, Zenon
<1> HIDE DEF offset
<1>4. SignalTypes'
  BY <1>1, <1>2, <1>3, Zenon DEF SignalTypes
<1>5. PumpTypes' /\ HoldInv'
  BY <1>1, <1>2, Zenon DEF PumpTypes, HoldInv, DrainPcs
<1>6. CursorTypes'
  BY <1>1, <1>2, ConstantsAssumption DEF CursorTypes, Positions
<1>7. offset \in Nat
  BY <1>1, <1>2, ConstantsAssumption DEF CursorTypes, Positions
<1>8. done' \subseteq Nat /\ ConfirmedOnlyDone'
  BY <1>2, <1>7 DEF ConfirmedOnlyDone, Msgs
<1>9. MapInv'
  BY <1>1, <1>2, Zenon DEF MapInv, SeekUnderWay, confirms
<1>10. /\ ConfirmTypes' /\ FlightTypes' /\ RequeueTypes' /\ ModeTypes' /\ SessionTypes' /\ ScanTypes'
       /\ AdminTypes'
  BY <1>2, PartsStay, Zenon
<1>11. QED BY <1>4, <1>5, <1>6, <1>8, <1>9, <1>10, PartsMake, Zenon

\* A skipped message is confirmed unsent.
LEMMA PumpSkipStep ==
    ASSUME FiniteCounts, CursorInv, PumpSkip
    PROVE  CursorInv'
<1>1. RequeueTypes /\ PumpTypes /\ HoldInv
  BY Zenon DEF CursorInv, TypeOK, DoneInv
<1>2. /\ pc = "accepted" /\ pc' = "top" /\ msg' = NoMsg
      /\ ConfirmBackendQueue(msg) /\ done' = done \cup {msg}
      /\ waitingRequeueChanMsgs' = waitingRequeueChanMsgs \ {msg}
      /\ UNCHANGED <<queueEnd, readPos>> /\ UNCHANGED <<requeuedMsgChan, waitingRequeueMsgs>>
      /\ UNCHANGED <<endUpdatedChan, needNotifyRead, readerChanged>>
      /\ UNCHANGED <<lastData, readBackendWait, needResetReader, pumpDrain>>
      /\ UNCHANGED inFlight /\ UNCHANGED modes /\ UNCHANGED session /\ UNCHANGED scanPc /\ UNCHANGED admin
  BY Zenon DEF PumpSkip
<1>3. tryReadBackend' \in BOOLEAN
  BY Zenon DEF PumpSkip
<1>4. msg \in Msgs /\ (SeekUnderWay' <=> SeekUnderWay)
  BY <1>1, <1>2, Zenon DEF HoldInv, SeekUnderWay
<1>5. CursorTypes' /\ ConfirmTypes' /\ done' \subseteq Nat /\ ConfirmedOnlyDone' /\ MapInv'
  BY <1>2, <1>4, ConfirmParts, Zenon
<1>6. PumpTypes' /\ HoldInv'
  BY <1>1, <1>2, Zenon DEF PumpTypes, HoldInv
<1>7. RequeueTypes'
  BY <1>1, <1>2, Zenon DEF RequeueTypes
<1>8. SignalTypes'
  BY <1>2, <1>3, WakeParts, Zenon
<1>9. FlightTypes' /\ ModeTypes' /\ SessionTypes' /\ ScanTypes' /\ AdminTypes'
  BY <1>2, PartsStay, Zenon
<1>10. QED BY <1>5, <1>6, <1>7, <1>8, <1>9, PartsMake, Zenon

\* No step of messagePump breaks the invariant.
LEMMA PumpStep ==
    ASSUME FiniteCounts, CursorInv, Pump
    PROVE  CursorInv'
<1>1. RequeueTypes /\ SignalTypes /\ PumpTypes /\ HoldInv
  BY Zenon DEF CursorInv, TypeOK, DoneInv
<1>2. CASE PumpReset \/ PumpDrainFlight \/ PumpDrainConfirmed \/ PumpDrainWaiting
  BY <1>2, PumpDrainStep, Zenon
<1>3. CASE PumpRead
  BY <1>3, PumpReadStep, Zenon
<1>4. CASE SeekDone
  BY <1>4, SeekDoneStep, Zenon
<1>5. CASE PumpSkip
  BY <1>5, PumpSkipStep, Zenon
<1>6. CASE PumpWait
  <2>1. /\ pc = "top" /\ pc' \in {"selectNil", "hold"}
        /\ UNCHANGED <<msg, lastData, readBackendWait, needResetReader, pumpDrain>>
        /\ UNCHANGED signals /\ UNCHANGED requeues
        /\ UNCHANGED <<backend, confirms, inFlight, modes, session, scanPc, admin, done>>
    BY <1>6, Zenon DEF PumpWait
  <2>2. PumpTypes' /\ HoldInv'
    BY <1>1, <2>1, Zenon DEF PumpTypes, HoldInv
  <2>3. SignalTypes' /\ RequeueTypes'
    BY <1>1, <2>1, PartsStay, Zenon
  <2>4. pc \notin DrainPcs /\ pc' \notin DrainPcs
    BY <2>1, Zenon DEF DrainPcs
  <2>5. QED BY <2>1, <2>2, <2>3, <2>4, PumpAside, Zenon
<1>7. CASE PumpHold
  <2>1. /\ pc = "hold" /\ pc' = "selectNil"
        /\ UNCHANGED <<msg, lastData, readBackendWait, needResetReader, pumpDrain>>
        /\ needNotifyRead' \in BOOLEAN /\ UNCHANGED <<tryReadBackend, endUpdatedChan, readerChanged>> /\ UNCHANGED requeues
        /\ UNCHANGED <<backend, confirms, inFlight, modes, session, scanPc, admin, done>>
    BY <1>7, Zenon DEF PumpHold
  <2>2. PumpTypes' /\ HoldInv'
    BY <1>1, <2>1, Zenon DEF PumpTypes, HoldInv
  <2>3. SignalTypes' /\ RequeueTypes'
    BY <1>1, <2>1, PartsStay, Zenon DEF SignalTypes
  <2>4. pc \notin DrainPcs /\ pc' \notin DrainPcs
    BY <2>1, Zenon DEF DrainPcs
  <2>5. QED BY <2>1, <2>2, <2>3, <2>4, PumpAside, Zenon
<1>8. CASE PumpTakeData
  <2>1. /\ pc = "selectData" /\ pc' = "check" /\ msg' = lastData /\ lastData' = NoMsg
        /\ UNCHANGED <<readBackendWait, needResetReader, pumpDrain>>
        /\ UNCHANGED signals /\ UNCHANGED requeues
        /\ UNCHANGED <<backend, confirms, inFlight, modes, session, scanPc, admin, done>>
    BY <1>8, Zenon DEF PumpTakeData
  <2>2. PumpTypes' /\ HoldInv'
    BY <1>1, <2>1, Zenon DEF PumpTypes, HoldInv
  <2>3. SignalTypes' /\ RequeueTypes'
    BY <1>1, <2>1, PartsStay, Zenon
  <2>4. pc \notin DrainPcs /\ pc' \notin DrainPcs
    BY <2>1, Zenon DEF DrainPcs
  <2>5. QED BY <2>1, <2>2, <2>3, <2>4, PumpAside, Zenon
<1>9. CASE PumpTryRead
  <2>1. /\ pc \in {"selectNil", "selectData", "selectEnd"} /\ pc' = "top" /\ readBackendWait' = FALSE
        /\ UNCHANGED <<msg, lastData, needResetReader, pumpDrain>>
        /\ tryReadBackend' = FALSE /\ needNotifyRead' = FALSE /\ UNCHANGED <<endUpdatedChan, readerChanged>> /\ UNCHANGED requeues
        /\ UNCHANGED <<backend, confirms, inFlight, modes, session, scanPc, admin, done>>
    BY <1>9, Zenon DEF PumpTryRead, Selecting
  <2>2. PumpTypes' /\ HoldInv'
    BY <1>1, <2>1, Zenon DEF PumpTypes, HoldInv
  <2>3. SignalTypes' /\ RequeueTypes'
    BY <1>1, <2>1, PartsStay, Zenon DEF SignalTypes
  <2>4. pc \notin DrainPcs /\ pc' \notin DrainPcs
    BY <2>1, Zenon DEF DrainPcs
  <2>5. QED BY <2>1, <2>2, <2>3, <2>4, PumpAside, Zenon
<1>10. CASE PumpEndUpdated
  <2>1. /\ pc = "selectEnd" /\ pc' = "top"
        /\ UNCHANGED <<msg, lastData, readBackendWait, needResetReader, pumpDrain>>
        /\ endUpdatedChan' = FALSE /\ UNCHANGED <<tryReadBackend, needNotifyRead, readerChanged>> /\ UNCHANGED requeues
        /\ UNCHANGED <<backend, confirms, inFlight, modes, session, scanPc, admin, done>>
    BY <1>10, Zenon DEF PumpEndUpdated
  <2>2. PumpTypes' /\ HoldInv'
    BY <1>1, <2>1, Zenon DEF PumpTypes, HoldInv
  <2>3. SignalTypes' /\ RequeueTypes'
    BY <1>1, <2>1, PartsStay, Zenon DEF SignalTypes
  <2>4. pc \notin DrainPcs /\ pc' \notin DrainPcs
    BY <2>1, Zenon DEF DrainPcs
  <2>5. QED BY <2>1, <2>2, <2>3, <2>4, PumpAside, Zenon
<1>11. CASE PumpDrop
  <2>1. /\ pc = "check" /\ pc' = "top" /\ msg' = NoMsg
        /\ UNCHANGED <<lastData, readBackendWait, needResetReader, pumpDrain>>
        /\ UNCHANGED signals /\ UNCHANGED requeues
        /\ UNCHANGED <<backend, confirms, inFlight, modes, session, scanPc, admin, done>>
    BY <1>11, Zenon DEF PumpDrop
  <2>2. PumpTypes' /\ HoldInv'
    BY <1>1, <2>1, Zenon DEF PumpTypes, HoldInv
  <2>3. SignalTypes' /\ RequeueTypes'
    BY <1>1, <2>1, PartsStay, Zenon
  <2>4. pc \notin DrainPcs /\ pc' \notin DrainPcs
    BY <2>1, Zenon DEF DrainPcs
  <2>5. QED BY <2>1, <2>2, <2>3, <2>4, PumpAside, Zenon
<1>12. CASE PumpAccept
  <2>1. /\ pc = "check" /\ pc' = "accepted"
        /\ UNCHANGED <<msg, lastData, readBackendWait, needResetReader, pumpDrain>>
        /\ UNCHANGED signals /\ UNCHANGED requeues
        /\ UNCHANGED <<backend, confirms, inFlight, modes, session, scanPc, admin, done>>
    BY <1>12, Zenon DEF PumpAccept
  <2>2. PumpTypes' /\ HoldInv'
    BY <1>1, <2>1, Zenon DEF PumpTypes, HoldInv
  <2>3. SignalTypes' /\ RequeueTypes'
    BY <1>1, <2>1, PartsStay, Zenon
  <2>4. pc \notin DrainPcs /\ pc' \notin DrainPcs
    BY <2>1, Zenon DEF DrainPcs
  <2>5. QED BY <2>1, <2>2, <2>3, <2>4, PumpAside, Zenon
<1>13. CASE PumpOutOfOrder
  <2>1. /\ pc = "accepted" /\ pc' = "top" /\ msg' = NoMsg /\ needResetReader' = 2
        /\ UNCHANGED <<lastData, readBackendWait, pumpDrain>>
        /\ UNCHANGED signals /\ UNCHANGED requeues
        /\ UNCHANGED <<backend, confirms, inFlight, modes, session, scanPc, admin, done>>
    BY <1>13, Zenon DEF PumpOutOfOrder
  <2>2. PumpTypes' /\ HoldInv'
    BY <1>1, <2>1, ResetLevels, Zenon DEF PumpTypes, HoldInv
  <2>3. SignalTypes' /\ RequeueTypes'
    BY <1>1, <2>1, PartsStay, Zenon
  <2>4. pc \notin DrainPcs /\ pc' \notin DrainPcs
    BY <2>1, Zenon DEF DrainPcs
  <2>5. QED BY <2>1, <2>2, <2>3, <2>4, PumpAside, Zenon
<1>14. CASE PumpOffer
  <2>1. /\ pc = "accepted" /\ pc' = "dispatch" /\ readBackendWait' \in BOOLEAN
        /\ UNCHANGED <<msg, lastData, needResetReader, pumpDrain>>
        /\ needNotifyRead' \in BOOLEAN /\ UNCHANGED <<tryReadBackend, endUpdatedChan, readerChanged>> /\ UNCHANGED requeues
        /\ UNCHANGED <<backend, confirms, inFlight, modes, session, scanPc, admin, done>>
    BY <1>14, Zenon DEF PumpOffer
  <2>2. PumpTypes' /\ HoldInv'
    BY <1>1, <2>1, Zenon DEF PumpTypes, HoldInv
  <2>3. SignalTypes' /\ RequeueTypes'
    BY <1>1, <2>1, PartsStay, Zenon DEF SignalTypes
  <2>4. pc \notin DrainPcs /\ pc' \notin DrainPcs
    BY <2>1, Zenon DEF DrainPcs
  <2>5. QED BY <2>1, <2>2, <2>3, <2>4, PumpAside, Zenon
<1>15. CASE PumpTakeRequeued
  <2>1. /\ pc \in {"selectNil", "selectData", "selectEnd"} /\ requeuedMsgChan # <<>>
        /\ pc' = "check" /\ msg' = Head(requeuedMsgChan) /\ requeuedMsgChan' = Tail(requeuedMsgChan)
        /\ UNCHANGED <<lastData, readBackendWait, needResetReader, pumpDrain>>
        /\ UNCHANGED <<waitingRequeueChanMsgs, waitingRequeueMsgs>> /\ UNCHANGED signals
        /\ UNCHANGED <<backend, confirms, inFlight, modes, session, scanPc, admin, done>>
    BY <1>15, Zenon DEF PumpTakeRequeued, Selecting
  <2>2. Head(requeuedMsgChan) \in Msgs /\ Tail(requeuedMsgChan) \in Seq(Msgs)
    <3>1. requeuedMsgChan \in Seq(Msgs) /\ requeuedMsgChan # <<>>
      BY <1>1, <2>1, Zenon DEF RequeueTypes
    <3>2. QED BY <3>1
  <2>3. PumpTypes' /\ HoldInv'
    BY <1>1, <2>1, <2>2, Zenon DEF PumpTypes, HoldInv
  <2>4. RequeueTypes'
    BY <1>1, <2>1, <2>2, Zenon DEF RequeueTypes
  <2>5. SignalTypes'
    BY <2>1, PartsStay, Zenon
  <2>6. pc \notin DrainPcs /\ pc' \notin DrainPcs
    BY <2>1, Zenon DEF DrainPcs
  <2>7. QED BY <2>1, <2>3, <2>4, <2>5, <2>6, PumpAside, Zenon
<1>16. CASE PumpResetRequested
  <2>1. /\ TakesReset /\ pc' = "top" /\ msg' = NoMsg /\ readerChanged' = Tail(readerChanged)
        /\ needResetReader' \in {1, 2} /\ UNCHANGED <<lastData, readBackendWait, pumpDrain>>
        /\ UNCHANGED <<tryReadBackend, endUpdatedChan, needNotifyRead>> /\ UNCHANGED requeues
        /\ UNCHANGED <<backend, confirms, inFlight, modes, session, scanPc, admin, done>>
    BY <1>16, Zenon DEF PumpResetRequested
  <2>2. Tail(readerChanged) \in Seq(Resets)
    BY <2>1, TakeResetType, Zenon
  <2>3. PumpTypes' /\ HoldInv'
    BY <1>1, <2>1, ResetLevels, Zenon DEF PumpTypes, HoldInv
  <2>4. SignalTypes' /\ RequeueTypes'
    BY <1>1, <2>1, <2>2, PartsStay, Zenon DEF SignalTypes
  <2>5. pc \notin DrainPcs /\ pc' \notin DrainPcs
    BY <2>1, Zenon DEF TakesReset, Selecting, DrainPcs
  <2>6. QED BY <2>1, <2>3, <2>4, <2>5, PumpAside, Zenon
<1>17. CASE SeekFails
  <2>1. /\ TakesReset /\ pc' = "top" /\ msg' = NoMsg /\ readerChanged' = Tail(readerChanged)
        /\ readBackendWait' = FALSE /\ UNCHANGED <<lastData, needResetReader, pumpDrain>>
        /\ UNCHANGED <<tryReadBackend, endUpdatedChan, needNotifyRead>> /\ UNCHANGED requeues
        /\ UNCHANGED <<backend, confirms, inFlight, modes, session, scanPc, admin, done>>
    BY <1>17, Zenon DEF SeekFails
  <2>2. Tail(readerChanged) \in Seq(Resets)
    BY <2>1, TakeResetType, Zenon
  <2>3. PumpTypes' /\ HoldInv'
    BY <1>1, <2>1, Zenon DEF PumpTypes, HoldInv
  <2>4. SignalTypes' /\ RequeueTypes'
    BY <1>1, <2>1, <2>2, PartsStay, Zenon DEF SignalTypes
  <2>5. pc \notin DrainPcs /\ pc' \notin DrainPcs
    BY <2>1, Zenon DEF TakesReset, Selecting, DrainPcs
  <2>6. QED BY <2>1, <2>3, <2>4, <2>5, PumpAside, Zenon
<1>18. QED
  BY <1>2, <1>3, <1>4, <1>5, <1>6, <1>7, <1>8, <1>9, <1>10, <1>11, <1>12, <1>13,
     <1>14, <1>15, <1>16, <1>17, Zenon DEF Pump, PumpSeek

-----------------------------------------------------------------------------
(* The steps of a connection, of the scanner, of an administrative call and *)
(* of the replication link.                                                *)

\* A message leaves the flight and is confirmed (FIN and RequeueToEnd).
LEMMA FinishStep ==
    ASSUME FiniteCounts, CursorInv, NEW m \in Msgs, Finish(m), AdminTypes'
    PROVE  CursorInv'
<1>1. /\ inFlight' = [inFlight EXCEPT ![m] = "absent"]
      /\ ConfirmBackendQueue(m) /\ done' = done \cup {m}
      /\ UNCHANGED <<queueEnd, readPos>> /\ UNCHANGED <<endUpdatedChan, needNotifyRead, readerChanged>>
      /\ UNCHANGED requeues /\ UNCHANGED modes /\ UNCHANGED session /\ UNCHANGED pump /\ UNCHANGED scanPc
  BY Zenon DEF Finish
<1>2. tryReadBackend' \in BOOLEAN
  BY Zenon DEF Finish
<1>3. FlightTypes'
  <2>1. inFlight \in [Msgs -> Clients \cup {"absent", "deferred"}]
    BY Zenon DEF CursorInv, TypeOK, FlightTypes
  <2>2. QED BY <1>1, <2>1 DEF FlightTypes
<1>4. /\ PumpTypes' /\ HoldInv' /\ (SeekUnderWay' <=> SeekUnderWay)
      /\ RequeueTypes' /\ ModeTypes' /\ SessionTypes' /\ ScanTypes'
  BY <1>1, PartsStay, Zenon
<1>5. CursorTypes' /\ ConfirmTypes' /\ done' \subseteq Nat /\ ConfirmedOnlyDone' /\ MapInv'
  BY <1>1, <1>4, ConfirmParts, Zenon
<1>6. SignalTypes'
  BY <1>1, <1>2, WakeParts, Zenon
<1>7. QED BY <1>3, <1>4, <1>5, <1>6, PartsMake, Zenon

\* A message leaves the flight and is queued again (REQ, a closed connection, the
\* scanner).
LEMMA RequeueParts ==
    ASSUME CursorInv, NEW m \in Msgs, inFlight' = [inFlight EXCEPT ![m] = "absent"], DoRequeue(m)
    PROVE  FlightTypes' /\ RequeueTypes'
<1>1. TypeOK /\ inFlight \in [Msgs -> Clients \cup {"absent", "deferred"}]
  BY Zenon DEF CursorInv, TypeOK, FlightTypes
<1>2. FlightTypes'
  BY <1>1 DEF FlightTypes
<1>3. RequeueTypes'
  BY <1>1, DoRequeueType, Zenon DEF RequeueTypes
<1>4. QED BY <1>2, <1>3

LEMMA RequeueStep ==
    ASSUME CursorInv, NEW c \in Clients, NEW m \in Msgs, Requeue(c, m)
    PROVE  CursorInv'
<1>1. /\ inFlight' = [inFlight EXCEPT ![m] = "absent"] /\ DoRequeue(m)
      /\ UNCHANGED <<backend, confirms, pump, done>> /\ UNCHANGED signals /\ UNCHANGED modes
      /\ UNCHANGED session /\ UNCHANGED scanPc /\ UNCHANGED admin
  BY Zenon DEF Requeue
<1>2. FlightTypes' /\ RequeueTypes'
  BY <1>1, RequeueParts, Zenon
<1>3. SignalTypes' /\ ModeTypes' /\ SessionTypes' /\ ScanTypes' /\ AdminTypes'
  BY <1>1, PartsStay, Zenon
<1>4. QED BY <1>1, <1>2, <1>3, Aside, Zenon

\* The state of one connection, or the message one connection holds, changes.
LEMMA ConnType ==
    ASSUME CursorInv, NEW c \in Clients, NEW to \in {"none", "open", "closing", "requeue", "gone"}
    PROVE  [conn EXCEPT ![c] = to] \in [Clients -> {"none", "open", "closing", "requeue", "gone"}]
<1>1. conn \in [Clients -> {"none", "open", "closing", "requeue", "gone"}]
  BY Zenon DEF CursorInv, TypeOK, SessionTypes
<1>2. QED BY <1>1

LEMMA HandType ==
    ASSUME CursorInv, NEW c \in Clients, NEW m \in Msgs \cup {NoMsg}
    PROVE  [hand EXCEPT ![c] = m] \in [Clients -> Msgs \cup {NoMsg}]
<1>1. hand \in [Clients -> Msgs \cup {NoMsg}]
  BY Zenon DEF CursorInv, TypeOK, SessionTypes
<1>2. QED BY <1>1

\* No step of a connection does: SUB, the message loop, FIN, REQ, close.
LEMMA ClientStep ==
    ASSUME FiniteCounts, CursorInv, NEW client \in Clients, Client(client)
    PROVE  CursorInv'
<1>1. FlightTypes /\ RequeueTypes /\ ModeTypes /\ SessionTypes /\ PumpTypes /\ HoldInv
  BY Zenon DEF CursorInv, TypeOK, DoneInv
<1>2. ASSUME NEW c \in Clients, Sub(c)
      PROVE  CursorInv'
  <2> DEFINE rs == IF OrderedTopic /\ ~requireOrder THEN <<ResetClear>> ELSE <<>>
  <2>1. /\ conn' = [conn EXCEPT ![c] = "open"] /\ clients' = clients \cup {c} /\ SendResets(rs)
        /\ UNCHANGED <<tryReadBackend, endUpdatedChan, needNotifyRead>>
        /\ UNCHANGED <<consumeDisabled, skipped>> /\ UNCHANGED <<hand, checked>>
        /\ UNCHANGED <<backend, confirms, pump, done>> /\ UNCHANGED inFlight /\ UNCHANGED requeues
        /\ UNCHANGED scanPc /\ UNCHANGED admin
    BY <1>2, Zenon DEF Sub
  <2>2. requireOrder' \in BOOLEAN
    BY <1>2, Zenon DEF Sub
  <2>3. rs \in Seq(Resets)
    BY ResetSeqs, Zenon
  <2> HIDE DEF rs
  <2>4. SignalTypes'
    <3>1. tryReadBackend' \in BOOLEAN
      BY <2>1, Zenon DEF CursorInv, TypeOK, SignalTypes
    <3>2. QED BY <2>1, <2>3, <3>1, SendParts, Zenon
  <2>5. ModeTypes'
    BY <1>1, <2>1, <2>2, Zenon DEF ModeTypes
  <2>6. SessionTypes'
    <3>1. [conn EXCEPT ![c] = "open"] \in [Clients -> {"none", "open", "closing", "requeue", "gone"}]
      BY ConnType, Zenon
    <3>2. QED BY <1>1, <2>1, <3>1, Zenon DEF SessionTypes
  <2>7. FlightTypes' /\ RequeueTypes' /\ ScanTypes' /\ AdminTypes'
    BY <2>1, PartsStay, Zenon
  <2>8. QED BY <2>1, <2>4, <2>5, <2>6, <2>7, Aside, Zenon
<1>3. ASSUME NEW c \in Clients, ClientTake(c)
      PROVE  CursorInv'
  <2>1. /\ pc = "dispatch" /\ hand' = [hand EXCEPT ![c] = msg] /\ msg' = NoMsg /\ pc' = "top"
        /\ UNCHANGED <<clients, conn, checked>>
        /\ UNCHANGED <<lastData, readBackendWait, needResetReader, pumpDrain>>
        /\ UNCHANGED backend /\ UNCHANGED confirms /\ UNCHANGED inFlight /\ UNCHANGED requeues
        /\ UNCHANGED signals /\ UNCHANGED modes /\ UNCHANGED scanPc /\ UNCHANGED admin /\ UNCHANGED done
    BY <1>3, Zenon DEF ClientTake
  <2>2. PumpTypes' /\ HoldInv' /\ (SeekUnderWay' <=> SeekUnderWay)
    BY <1>1, <2>1, Zenon DEF PumpTypes, HoldInv, SeekUnderWay
  <2>3. SessionTypes'
    <3>1. msg \in Msgs \cup {NoMsg}
      BY <1>1, Zenon DEF PumpTypes
    <3>2. [hand EXCEPT ![c] = msg] \in [Clients -> Msgs \cup {NoMsg}]
      BY <3>1, HandType, Zenon
    <3>3. QED BY <1>1, <2>1, <3>2, Zenon DEF SessionTypes
  <2>4. /\ CursorTypes' /\ ConfirmTypes' /\ FlightTypes' /\ RequeueTypes' /\ SignalTypes' /\ ModeTypes'
        /\ ScanTypes' /\ AdminTypes' /\ done' \subseteq Nat /\ ConfirmedOnlyDone' /\ MapInv'
    BY <2>1, <2>2, PartsStay, Zenon
  <2>5. QED BY <2>2, <2>3, <2>4, PartsMake, Zenon
<1>4. ASSUME NEW c \in Clients, ClientCheck(c)
      PROVE  CursorInv'
  <2>1. /\ UNCHANGED <<requeuedMsgChan, waitingRequeueMsgs>> /\ UNCHANGED <<clients, conn>>
        /\ UNCHANGED <<endUpdatedChan, needNotifyRead, readerChanged>>
        /\ UNCHANGED <<backend, confirms, pump, done>> /\ UNCHANGED inFlight /\ UNCHANGED modes
        /\ UNCHANGED scanPc /\ UNCHANGED admin
    BY <1>4, Zenon DEF ClientCheck
  <2>2. /\ hand' = hand \/ hand' = [hand EXCEPT ![c] = NoMsg]
        /\ checked' = checked \/ checked' = checked \cup {c}
        /\ waitingRequeueChanMsgs' \subseteq waitingRequeueChanMsgs
    BY <1>4, Zenon DEF ClientCheck
  <2>3. tryReadBackend' \in BOOLEAN
    <3>1. tryReadBackend \in BOOLEAN
      BY Zenon DEF CursorInv, TypeOK, SignalTypes
    <3>2. QED BY <1>4, <3>1, Zenon DEF ClientCheck
  <2>4. SessionTypes'
    <3>1. [hand EXCEPT ![c] = NoMsg] \in [Clients -> Msgs \cup {NoMsg}]
      BY HandType, Zenon
    <3>2. QED BY <1>1, <2>1, <2>2, <3>1, Zenon DEF SessionTypes
  <2>5. RequeueTypes'
    BY <1>1, <2>1, <2>2, Zenon DEF RequeueTypes
  <2>6. SignalTypes'
    BY <2>1, <2>3, WakeParts, Zenon
  <2>7. FlightTypes' /\ ModeTypes' /\ ScanTypes' /\ AdminTypes'
    BY <2>1, PartsStay, Zenon
  <2>8. QED BY <2>1, <2>4, <2>5, <2>6, <2>7, Aside, Zenon
<1>5. ASSUME NEW c \in Clients, ClientSample(c)
      PROVE  CursorInv'
  <2>1. /\ hand[c] # NoMsg /\ ConfirmBackendQueue(hand[c]) /\ done' = done \cup {hand[c]}
        /\ hand' = [hand EXCEPT ![c] = NoMsg]
        /\ waitingRequeueChanMsgs' = waitingRequeueChanMsgs \ {hand[c]}
        /\ UNCHANGED <<queueEnd, readPos>> /\ UNCHANGED <<requeuedMsgChan, waitingRequeueMsgs>>
        /\ UNCHANGED <<endUpdatedChan, needNotifyRead, readerChanged>> /\ UNCHANGED <<clients, conn, checked>>
        /\ UNCHANGED inFlight /\ UNCHANGED modes /\ UNCHANGED pump /\ UNCHANGED scanPc /\ UNCHANGED admin
    BY <1>5, Zenon DEF ClientSample
  <2>2. tryReadBackend' \in BOOLEAN
    BY <1>5, Zenon DEF ClientSample
  <2>3. hand[c] \in Msgs
    BY <1>1, <2>1, Zenon DEF SessionTypes
  <2>4. /\ PumpTypes' /\ HoldInv' /\ (SeekUnderWay' <=> SeekUnderWay)
        /\ FlightTypes' /\ ModeTypes' /\ ScanTypes' /\ AdminTypes'
    BY <2>1, PartsStay, Zenon
  <2>5. CursorTypes' /\ ConfirmTypes' /\ done' \subseteq Nat /\ ConfirmedOnlyDone' /\ MapInv'
    BY <2>1, <2>3, <2>4, ConfirmParts, Zenon
  <2>6. SessionTypes'
    <3>1. [hand EXCEPT ![c] = NoMsg] \in [Clients -> Msgs \cup {NoMsg}]
      BY HandType, Zenon
    <3>2. QED BY <1>1, <2>1, <3>1, Zenon DEF SessionTypes
  <2>7. RequeueTypes'
    BY <1>1, <2>1, Zenon DEF RequeueTypes
  <2>8. SignalTypes'
    BY <2>1, <2>2, WakeParts, Zenon
  <2>9. QED BY <2>4, <2>5, <2>6, <2>7, <2>8, PartsMake, Zenon
<1>6. ASSUME NEW c \in Clients, ClientPush(c)
      PROVE  CursorInv'
  <2>1. /\ hand' = [hand EXCEPT ![c] = NoMsg] /\ checked' = checked \ {c}
        /\ waitingRequeueChanMsgs' \subseteq waitingRequeueChanMsgs
        /\ UNCHANGED <<requeuedMsgChan, waitingRequeueMsgs>> /\ UNCHANGED <<clients, conn>>
        /\ UNCHANGED <<backend, confirms, pump, done>> /\ UNCHANGED signals /\ UNCHANGED modes
        /\ UNCHANGED scanPc /\ UNCHANGED admin
    BY <1>6, Zenon DEF ClientPush
  <2>2. inFlight' = inFlight \/ inFlight' = [inFlight EXCEPT ![hand[c]] = c]
    BY <1>6, Zenon DEF ClientPush
  <2>3. FlightTypes'
    <3>1. \A k : [inFlight EXCEPT ![k] = c] \in [Msgs -> Clients \cup {"absent", "deferred"}]
      BY <1>1, Zenon DEF FlightTypes
    <3>2. QED BY <1>1, <2>2, <3>1, Zenon DEF FlightTypes
  <2>4. SessionTypes'
    <3>1. [hand EXCEPT ![c] = NoMsg] \in [Clients -> Msgs \cup {NoMsg}]
      BY HandType, Zenon
    <3>2. QED BY <1>1, <2>1, <3>1, Zenon DEF SessionTypes
  <2>5. RequeueTypes'
    BY <1>1, <2>1, Zenon DEF RequeueTypes
  <2>6. SignalTypes' /\ ModeTypes' /\ ScanTypes' /\ AdminTypes'
    BY <2>1, PartsStay, Zenon
  <2>7. QED BY <2>1, <2>3, <2>4, <2>5, <2>6, Aside, Zenon
<1>7. ASSUME NEW c \in Clients, Heartbeat(c)
      PROVE  CursorInv'
  <2>1. /\ tryReadBackend' = TRUE /\ UNCHANGED <<endUpdatedChan, needNotifyRead, readerChanged>>
        /\ UNCHANGED <<backend, confirms, pump, done>> /\ UNCHANGED inFlight /\ UNCHANGED requeues
        /\ UNCHANGED modes /\ UNCHANGED session /\ UNCHANGED scanPc /\ UNCHANGED admin
    BY <1>7, Zenon DEF Heartbeat
  <2>2. SignalTypes'
    BY <2>1, WakeParts, Zenon
  <2>3. FlightTypes' /\ RequeueTypes' /\ ModeTypes' /\ SessionTypes' /\ ScanTypes' /\ AdminTypes'
    BY <2>1, PartsStay, Zenon
  <2>4. QED BY <2>1, <2>2, <2>3, Aside, Zenon
<1>8. ASSUME NEW c \in Clients, Close(c) \/ Stopped(c) \/ RemoveClient(c)
      PROVE  CursorInv'
  <2>1. /\ \E to \in {"none", "closing", "requeue", "gone"} : conn' = [conn EXCEPT ![c] = to]
        /\ clients' = clients \/ clients' = clients \ {c}
    BY <1>8, Zenon DEF Close, Stopped, RemoveClient
  <2>2. /\ UNCHANGED <<hand, checked>> /\ UNCHANGED <<backend, confirms, pump, done>>
        /\ UNCHANGED inFlight /\ UNCHANGED requeues /\ UNCHANGED signals /\ UNCHANGED modes
        /\ UNCHANGED scanPc /\ UNCHANGED admin
    BY <1>8, Zenon DEF Close, Stopped, RemoveClient
  <2>3. SessionTypes'
    <3>1. PICK to \in {"none", "closing", "requeue", "gone"} : conn' = [conn EXCEPT ![c] = to]
      BY <2>1, Zenon
    <3>2. to \in {"none", "open", "closing", "requeue", "gone"}
      BY Zenon
    <3>3. conn' \in [Clients -> {"none", "open", "closing", "requeue", "gone"}]
      BY <3>1, <3>2, ConnType, Zenon
    <3>4. QED BY <1>1, <2>1, <2>2, <3>3, Zenon DEF SessionTypes
  <2>4. FlightTypes' /\ RequeueTypes' /\ SignalTypes' /\ ModeTypes' /\ ScanTypes' /\ AdminTypes'
    BY <2>2, PartsStay, Zenon
  <2>5. QED BY <2>2, <2>3, <2>4, Aside, Zenon
<1>9. ASSUME NEW c \in Clients, NEW m \in Msgs, Fin(c, m)
      PROVE  CursorInv'
  <2>1. Finish(m) /\ UNCHANGED admin
    BY <1>9, Zenon DEF Fin
  <2>2. AdminTypes'
    BY <2>1, PartsStay, Zenon
  <2>3. QED BY <2>1, <2>2, FinishStep, Zenon
<1>10. ASSUME NEW c \in Clients, NEW m \in Msgs, Req(c, m) \/ RequeueClientMessage(c, m)
       PROVE  CursorInv'
  BY <1>10, RequeueStep, Zenon DEF Req, RequeueClientMessage
<1>11. ASSUME NEW c \in Clients, NEW m \in Msgs, ReqDefer(c, m)
       PROVE  CursorInv'
  <2>1. /\ inFlight' = [inFlight EXCEPT ![m] = "deferred"]
        /\ UNCHANGED <<backend, confirms, pump, done>> /\ UNCHANGED requeues /\ UNCHANGED signals
        /\ UNCHANGED modes /\ UNCHANGED session /\ UNCHANGED scanPc /\ UNCHANGED admin
    BY <1>11, Zenon DEF ReqDefer
  <2>2. FlightTypes'
    BY <1>1, <2>1 DEF FlightTypes
  <2>3. RequeueTypes' /\ SignalTypes' /\ ModeTypes' /\ SessionTypes' /\ ScanTypes' /\ AdminTypes'
    BY <2>1, PartsStay, Zenon
  <2>4. QED BY <2>1, <2>2, <2>3, Aside, Zenon
<1>12. QED
  BY <1>2, <1>3, <1>4, <1>5, <1>6, <1>7, <1>8, <1>9, <1>10, <1>11, Zenon DEF Client

\* What the scanner moves from the overflow map into requeuedMsgChan is messages.
LEMMA ScanRequeueParts ==
    ASSUME FiniteCounts, CursorInv, ScanRequeue
    PROVE  RequeueTypes'
<1>1. RequeueTypes
  BY Zenon DEF CursorInv, TypeOK
<1>2. CASE consumeDisabled
  <2>1. UNCHANGED requeues
    BY <1>2, Zenon DEF ScanRequeue
  <2>2. QED BY <2>1, PartsStay, Zenon
<1>3. CASE ~consumeDisabled
  <2> DEFINE cnt == Lower(ReqCap - Len(requeuedMsgChan), Cardinality(waitingRequeueMsgs))
  <2>1. PICK q \in [1 .. cnt -> waitingRequeueMsgs] :
            /\ requeuedMsgChan' = requeuedMsgChan \o q
            /\ waitingRequeueMsgs' = waitingRequeueMsgs \ {q[i] : i \in 1 .. cnt}
            /\ waitingRequeueChanMsgs' = waitingRequeueChanMsgs \cup {q[i] : i \in 1 .. cnt}
    BY <1>3, Zenon DEF ScanRequeue
  <2>2. cnt \in Int
    <3>1. Msgs \subseteq Positions
      BY ConstantsAssumption DEF Msgs, Positions
    <3>2. Cardinality(waitingRequeueMsgs) \in Nat
      BY <1>1, <3>1, Zenon DEF FiniteCounts, RequeueTypes
    <3>3. Len(requeuedMsgChan) \in Nat
      BY <1>1 DEF RequeueTypes
    <3>4. QED BY <3>2, <3>3, ConstantsAssumption DEF Lower
  <2> HIDE DEF cnt
  <2>3. q \in [1 .. cnt -> Msgs]
    BY <1>1, Zenon DEF RequeueTypes
  <2>4. q \in Seq(Msgs)
    <3>1. CASE cnt >= 0
      BY <3>1, <2>2, <2>3
    <3>2. CASE cnt < 0
      <4>1. 1 .. cnt = 1 .. 0
        BY <3>2, <2>2
      <4>2. q \in [1 .. 0 -> Msgs]
        BY <4>1, <2>3, Zenon
      <4>3. QED BY <4>2
    <3>3. QED BY <3>1, <3>2, <2>2
  <2>5. requeuedMsgChan \o q \in Seq(Msgs)
    BY <1>1, <2>4 DEF RequeueTypes
  <2>6. {q[i] : i \in 1 .. cnt} \subseteq Msgs
    BY <2>3
  <2>7. QED BY <1>1, <2>1, <2>5, <2>6, Zenon DEF RequeueTypes
<1>4. QED BY <1>2, <1>3, Zenon

\* No step of the in-flight scanner breaks the invariant.
LEMMA ScannerStep ==
    ASSUME FiniteCounts, CursorInv, Scanner
    PROVE  CursorInv'
<1>1. ASSUME NEW m \in Msgs, ScanTimeout(m)
      PROVE  CursorInv'
  <2>1. /\ inFlight' = [inFlight EXCEPT ![m] = "absent"] /\ DoRequeue(m) /\ scanPc' = "dirty"
        /\ UNCHANGED <<backend, confirms, pump, done>> /\ UNCHANGED signals /\ UNCHANGED modes
        /\ UNCHANGED session /\ UNCHANGED admin
    BY <1>1, Zenon DEF ScanTimeout
  <2>2. FlightTypes' /\ RequeueTypes'
    BY <2>1, RequeueParts, Zenon
  <2>3. ScanTypes'
    BY <2>1, Zenon DEF ScanTypes
  <2>4. SignalTypes' /\ ModeTypes' /\ SessionTypes' /\ AdminTypes'
    BY <2>1, PartsStay, Zenon
  <2>5. QED BY <2>1, <2>2, <2>3, <2>4, Aside, Zenon
<1>2. CASE ScanRequeue
  <2>1. /\ scanPc' \in {"tail", "quietTail"} /\ UNCHANGED <<backend, confirms, pump, done>>
        /\ UNCHANGED inFlight /\ UNCHANGED signals /\ UNCHANGED modes /\ UNCHANGED session /\ UNCHANGED admin
    BY <1>2, Zenon DEF ScanRequeue
  <2>2. RequeueTypes'
    BY <1>2, ScanRequeueParts, Zenon
  <2>3. ScanTypes'
    BY <2>1, Zenon DEF ScanTypes
  <2>4. FlightTypes' /\ SignalTypes' /\ ModeTypes' /\ SessionTypes' /\ AdminTypes'
    BY <2>1, PartsStay, Zenon
  <2>5. QED BY <2>1, <2>2, <2>3, <2>4, Aside, Zenon
<1>3. CASE ScanTail
  <2> DEFINE kept == DeleteLower(confirmedMsgs, confirmed)
             repair == IF Unbacked(kept) # {} THEN <<ResetKeep>> ELSE <<>>
             rescue == IF Stuck /\ TimeElapsed THEN <<ResetClear>> ELSE <<>>
  <2>1. /\ scanPc' = "clean" /\ SendResets(repair \o rescue)
        /\ confirmedMsgs' = [kept EXCEPT !.historyMsg = Without(kept.historyMsg, Unbacked(kept))]
        /\ UNCHANGED <<backend, done>> /\ UNCHANGED <<endUpdatedChan, needNotifyRead>>
        /\ UNCHANGED tryReadBackend /\ UNCHANGED backend /\ UNCHANGED waitingConfirm /\ UNCHANGED inFlight
        /\ UNCHANGED requeues /\ UNCHANGED modes /\ UNCHANGED session /\ UNCHANGED pump /\ UNCHANGED admin
        /\ UNCHANGED done
    BY <1>3, Zenon DEF ScanTail
  <2>2. MapInv /\ ConfirmTypes /\ Shaped(confirmedMsgs.elems, Positions)
    BY Zenon DEF CursorInv, TypeOK, DoneInv, MapInv
  <2>3. /\ Shaped(kept.elems, Positions) /\ Covered(kept) \subseteq Covered(confirmedMsgs)
        /\ DOMAIN kept.historyMsg \subseteq DOMAIN confirmedMsgs.historyMsg
    BY <2>2, DeleteLowerForgets, Zenon
  <2>4. /\ confirmedMsgs'.elems = kept.elems
        /\ DOMAIN confirmedMsgs'.historyMsg \subseteq DOMAIN kept.historyMsg
    BY <2>1, Zenon DEF DeleteLower, Without
  <2>5. repair \in Seq(Resets) /\ rescue \in Seq(Resets)
    BY ResetSeqs, Zenon
  <2> HIDE DEF kept, repair, rescue
  <2>6. repair \o rescue \in Seq(Resets)
    BY <2>5
  <2>7. SignalTypes'
    <3>1. tryReadBackend' \in BOOLEAN
      BY <2>1, Zenon DEF CursorInv, TypeOK, SignalTypes
    <3>2. QED BY <2>1, <2>6, <3>1, SendParts, Zenon
  <2>8. Shaped(confirmedMsgs'.elems, Positions) /\ Covered(confirmedMsgs') \subseteq Covered(confirmedMsgs)
    BY <2>3, <2>4, Zenon DEF Covered
  <2>9. DOMAIN confirmedMsgs'.elems \subseteq Positions
    BY <2>8, ShapedKeys, Zenon
  <2>10. ConfirmTypes'
    BY <2>1, <2>2, <2>3, <2>4, <2>9, Zenon DEF ConfirmTypes
  <2>11. /\ CursorTypes' /\ FlightTypes' /\ RequeueTypes' /\ ModeTypes' /\ SessionTypes' /\ PumpTypes'
         /\ HoldInv' /\ (SeekUnderWay' <=> SeekUnderWay) /\ AdminTypes' /\ done' \subseteq Nat
         /\ ConfirmedOnlyDone'
    BY <2>1, PartsStay, Zenon
  <2>12. MapInv'
    BY <2>1, <2>8, <2>11, ShrinkParts, Zenon
  <2>13. ScanTypes'
    BY <2>1, Zenon DEF ScanTypes
  <2>14. QED BY <2>7, <2>10, <2>11, <2>12, <2>13, PartsMake, Zenon
<1>4. QED BY <1>1, <1>2, <1>3, Zenon DEF Scanner

\* The intervals a follower is sent: its map after UpdateConfirmedInterval covers
\* nothing but what it covered and what it is sent.
LEMMA FollowMap ==
    ASSUME Shaped(confirmedMsgs.elems, Positions), DOMAIN confirmedMsgs.historyMsg \subseteq Positions,
           NEW list, list # <<>> => list[1] \in Positions /\ list[2] \in Positions /\ list[1] < list[2]
    PROVE  LET ih == UpdateConfirmedInterval(list)
           IN  /\ Shaped(ih.elems, Positions) /\ DOMAIN ih.historyMsg \subseteq Positions
               /\ Covered(ih) \subseteq Covered(confirmedMsgs)
                                        \cup (IF list # <<>> THEN list[1] .. list[2] - 1 ELSE {})
<1> DEFINE ih == UpdateConfirmedInterval(list)
           base == IF HashLen(confirmedMsgs) # 0 THEN NewIntervalHash ELSE confirmedMsgs
<1>1. /\ Shaped(base.elems, Positions) /\ DOMAIN base.historyMsg \subseteq Positions
      /\ Covered(base) \subseteq Covered(confirmedMsgs)
  <2>1. CASE HashLen(confirmedMsgs) # 0
    BY <2>1, NewIntervalHashEmpty
  <2>2. CASE ~(HashLen(confirmedMsgs) # 0)
    BY <2>2, Zenon
  <2>3. QED BY <2>1, <2>2, Zenon
<1>2. ih = IF list = <<>> THEN base ELSE AddOrMerge(base, list[1], list[2])
  BY DEF UpdateConfirmedInterval
<1> HIDE DEF base, ih
<1>3. CASE list = <<>>
  BY <1>1, <1>2, <1>3, Zenon DEF ih
<1>4. CASE list # <<>>
  <2>1. ih = AddOrMerge(base, list[1], list[2])
    BY <1>2, <1>4, Zenon
  <2>2. /\ Shaped(ih.elems, Positions) /\ DOMAIN ih.historyMsg \subseteq Positions
        /\ Covered(ih) \subseteq Covered(base) \cup (list[1] .. list[2] - 1)
    BY <1>1, <1>4, <2>1, AddOrMergeKeeps, Zenon
  <2>3. QED BY <1>1, <1>4, <2>2, Zenon DEF ih
<1>5. QED BY <1>3, <1>4, Zenon

\* A follower is told the leader's position and perhaps what else is finished.
LEMMA FollowStep ==
    ASSUME FiniteCounts, CursorInv, NEW offset \in 0 .. queueEnd, NEW back \in BOOLEAN, NEW updates \in BOOLEAN,
           NEW list \in IntervalLists, UpdateChannelOffset(offset, back, updates, list)
    PROVE  CursorInv'
<1> DEFINE ih == IF updates THEN UpdateConfirmedInterval(list) ELSE confirmedMsgs
           new == IF updates /\ list # <<>> THEN list[1] .. list[2] - 1 ELSE {}
<1>1. /\ CursorTypes /\ ConfirmTypes /\ ConfirmedOnlyDone /\ MapInv /\ AdminTypes /\ done \subseteq Nat
      /\ Shaped(confirmedMsgs.elems, Positions) /\ DOMAIN confirmedMsgs.historyMsg \subseteq Positions
      /\ waitingConfirm \in Nat /\ queueEnd \in Positions
  BY Zenon DEF CursorInv, TypeOK, DoneInv, MapInv, CursorTypes, ConfirmTypes
<1>2. Positions \subseteq Nat /\ 0 .. queueEnd \subseteq Positions
  BY <1>1, ConstantsAssumption DEF Positions
<1>3. list # <<>> => list[1] \in Positions /\ list[2] \in Positions /\ list[1] < list[2]
  BY <1>2 DEF IntervalLists
<1>4. /\ Shaped(ih.elems, Positions) /\ DOMAIN ih.historyMsg \subseteq Positions
      /\ Covered(ih) \subseteq Covered(confirmedMsgs) \cup new
  <2>1. CASE ~updates
    BY <2>1, <1>1, Zenon
  <2>2. CASE updates
    BY <2>2, <1>1, <1>3, FollowMap, Zenon
  <2>3. QED BY <2>1, <2>2, Zenon
<1>5. new \subseteq Nat
  <2>1. \A a, b \in Nat : a .. b - 1 \subseteq Nat
    OBVIOUS
  <2>2. QED BY <1>2, <1>3, <2>1, Zenon
<1>6. /\ done' = done \cup (0 .. offset - 1) \cup new /\ adminCount' = adminCount + 1
      /\ UNCHANGED <<adminPc, adminClear>> /\ UNCHANGED queueEnd /\ UNCHANGED inFlight /\ UNCHANGED requeues
      /\ UNCHANGED signals /\ UNCHANGED modes /\ UNCHANGED session /\ UNCHANGED pump /\ UNCHANGED scanPc
  BY Zenon DEF UpdateChannelOffset
<1>7. (readPos' = readPos /\ confirmed' = confirmed) \/ (readPos' = offset /\ confirmed' = offset)
  BY Zenon DEF UpdateChannelOffset
<1>8. /\ confirmedMsgs' = ih \/ confirmedMsgs' = DeleteLower(ih, offset)
      /\ waitingConfirm' = waitingConfirm \/ waitingConfirm' = HashLen(confirmedMsgs')
  BY Zenon DEF UpdateChannelOffset
<1> HIDE DEF ih, new
<1>9. /\ Shaped(confirmedMsgs'.elems, Positions) /\ DOMAIN confirmedMsgs'.historyMsg \subseteq Positions
      /\ Covered(confirmedMsgs') \subseteq Covered(confirmedMsgs) \cup new
  <2>1. CASE confirmedMsgs' = ih
    BY <2>1, <1>4, Zenon
  <2>2. CASE confirmedMsgs' = DeleteLower(ih, offset)
    BY <2>2, <1>4, DeleteLowerForgets, Zenon
  <2>3. QED BY <1>8, <2>1, <2>2, Zenon
<1>10. ConfirmTypes'
  <2>1. DOMAIN confirmedMsgs'.elems \subseteq Positions
    BY <1>9, ShapedKeys, Zenon
  <2>2. waitingConfirm' \in Nat
    BY <1>1, <1>8, <2>1, HashLenType, Zenon
  <2>3. QED BY <1>9, <2>1, <2>2, Zenon DEF ConfirmTypes
<1>11. offset \in Nat /\ offset <= queueEnd /\ offset <= offset /\ offset \in Positions
  BY <1>1, <1>2 DEF Positions
<1>12. CursorTypes'
  BY <1>1, <1>6, <1>7, <1>11, Zenon DEF CursorTypes
<1>13. done' \subseteq Nat /\ 0 .. offset - 1 \subseteq done'
  <2>1. 0 .. offset - 1 \subseteq Nat
    BY <1>11
  <2>2. QED BY <1>1, <1>5, <1>6, <2>1, Zenon
<1>14. ConfirmedOnlyDone'
  <2>1. \A p \in Msgs : p < offset => p \in 0 .. offset - 1
    BY <1>11 DEF Msgs
  <2>2. QED BY <1>1, <1>6, <1>7, <1>13, <2>1, Zenon DEF ConfirmedOnlyDone
<1>15. /\ FlightTypes' /\ RequeueTypes' /\ SignalTypes' /\ ModeTypes' /\ SessionTypes' /\ PumpTypes'
       /\ HoldInv' /\ (SeekUnderWay' <=> SeekUnderWay) /\ ScanTypes'
  BY <1>6, PartsStay, Zenon
<1>16. MapInv'
  BY <1>1, <1>6, <1>7, <1>9, <1>15, Zenon DEF MapInv
<1>17. AdminTypes'
  <2>1. adminCount' \in Nat
    BY <1>1, <1>6 DEF AdminTypes
  <2>2. QED BY <1>1, <1>6, <2>1, Zenon DEF AdminTypes
<1>18. QED BY <1>10, <1>12, <1>13, <1>14, <1>15, <1>16, <1>17, PartsMake, Zenon

\* DisableConsume closes the connections that are open.
LEMMA ClosingType ==
    ASSUME CursorInv,
           conn' = [c \in Clients |-> IF c \in clients /\ conn[c] = "open" THEN "closing" ELSE conn[c]]
    PROVE  conn' \in [Clients -> {"none", "open", "closing", "requeue", "gone"}]
<1>1. conn \in [Clients -> {"none", "open", "closing", "requeue", "gone"}]
  BY Zenon DEF CursorInv, TypeOK, SessionTypes
<1>2. \A c \in Clients : (IF c \in clients /\ conn[c] = "open" THEN "closing" ELSE conn[c])
                           \in {"none", "open", "closing", "requeue", "gone"}
  BY <1>1
<1>3. QED BY <1>2, Zenon

\* An administrative call is counted.
LEMMA CallParts ==
    ASSUME CursorInv, NEW op, AdminCall(op)
    PROVE  /\ adminCount' \in Nat
           /\ UNCHANGED <<adminPc, adminClear>> => AdminTypes'
<1>1. AdminTypes
  BY Zenon DEF CursorInv, TypeOK
<1>2. adminCount' \in Nat
  BY <1>1 DEF AdminCall, AdminTypes
<1>3. QED BY <1>1, <1>2, Zenon DEF AdminTypes

\* A call that asks for a reset of the reader.
LEMMA ResetCallStep ==
    ASSUME CursorInv, NEW r \in Resets, SendReset(r), ModeTypes', AdminTypes',
           UNCHANGED <<backend, confirms, inFlight, requeues, tryReadBackend, endUpdatedChan,
                       needNotifyRead, session, pump, scanPc, done>>
    PROVE  CursorInv'
<1>1. <<r>> \in Seq(Resets) /\ SendResets(<<r>>)
  BY DEF SendReset
<1>2. tryReadBackend' \in BOOLEAN
  BY Zenon DEF CursorInv, TypeOK, SignalTypes
<1>3. SignalTypes'
  BY <1>1, <1>2, SendParts, Zenon
<1>4. FlightTypes' /\ RequeueTypes' /\ SessionTypes' /\ ScanTypes'
  BY PartsStay, Zenon
<1>5. QED BY <1>3, <1>4, Aside, Zenon

\* A call that leaves all but the flags and the administrator's state alone.
LEMMA FlagCallStep ==
    ASSUME CursorInv, SignalTypes', ModeTypes', AdminTypes',
           UNCHANGED <<backend, confirms, inFlight, requeues, session, pump, scanPc, done>>
    PROVE  CursorInv'
<1>1. FlightTypes' /\ RequeueTypes' /\ SessionTypes' /\ ScanTypes'
  BY PartsStay, Zenon
<1>2. QED BY <1>1, Aside, Zenon

\* What the pump offers is taken from it, and the message channels are emptied.
LEMMA TakeOfferedStep ==
    ASSUME CursorInv, TakeOffered, RequeueTypes', AdminTypes'
    PROVE  CursorInv'
<1>1. PumpTypes /\ HoldInv
  BY Zenon DEF CursorInv, TypeOK, DoneInv
<1>2. /\ (pc' = pc /\ msg' = msg) \/ (pc = "dispatch" /\ pc' = "top" /\ msg' = NoMsg)
      /\ UNCHANGED <<lastData, readBackendWait, needResetReader, pumpDrain>>
      /\ UNCHANGED backend /\ UNCHANGED confirms /\ UNCHANGED inFlight /\ UNCHANGED signals
      /\ UNCHANGED modes /\ UNCHANGED session /\ UNCHANGED scanPc /\ UNCHANGED done
  BY Zenon DEF TakeOffered
<1>3. PumpTypes' /\ HoldInv' /\ (SeekUnderWay' <=> SeekUnderWay)
  BY <1>1, <1>2, Zenon DEF PumpTypes, HoldInv, SeekUnderWay
<1>4. /\ CursorTypes' /\ ConfirmTypes' /\ FlightTypes' /\ SignalTypes' /\ ModeTypes' /\ SessionTypes'
      /\ ScanTypes' /\ done' \subseteq Nat /\ ConfirmedOnlyDone' /\ MapInv'
  BY <1>2, <1>3, PartsStay, Zenon
<1>5. QED BY <1>3, <1>4, PartsMake, Zenon

\* DisableConsume and its drain.
LEMMA DisableStep ==
    ASSUME FiniteCounts, CursorInv,
           DisableConsume \/ AdminDrainFlight \/ AdminDrainConfirmed \/ AdminDrainWaiting
    PROVE  CursorInv'
<1>1. /\ ConfirmTypes /\ RequeueTypes /\ ModeTypes /\ SessionTypes /\ AdminTypes /\ TypeOK /\ DoneInv
  BY Zenon DEF CursorInv, TypeOK
<1>2. CASE DisableConsume
  <2>1. /\ AdminCall("disable") /\ consumeDisabled' = TRUE /\ clients' = {}
        /\ adminClear' = requireOrder /\ adminPc' = "drainFlight"
        /\ conn' = [c \in Clients |-> IF c \in clients /\ conn[c] = "open" THEN "closing" ELSE conn[c]]
        /\ UNCHANGED <<requireOrder, skipped>> /\ UNCHANGED <<hand, checked>>
        /\ UNCHANGED <<backend, confirms, pump, done>> /\ UNCHANGED inFlight /\ UNCHANGED requeues
        /\ UNCHANGED signals /\ UNCHANGED scanPc
    BY <1>2, Zenon DEF DisableConsume
  <2>2. conn' \in [Clients -> {"none", "open", "closing", "requeue", "gone"}]
    BY <2>1, ClosingType, Zenon
  <2>3. SessionTypes'
    BY <1>1, <2>1, <2>2, Zenon DEF SessionTypes
  <2>4. ModeTypes'
    BY <1>1, <2>1, Zenon DEF ModeTypes
  <2>5. AdminTypes'
    <3>1. adminCount' \in Nat
      BY <2>1, CallParts, Zenon
    <3>2. QED BY <1>1, <2>1, <3>1, Zenon DEF AdminTypes, ModeTypes, DrainPcs
  <2>6. FlightTypes' /\ RequeueTypes' /\ SignalTypes' /\ ScanTypes'
    BY <2>1, PartsStay, Zenon
  <2>7. QED BY <2>1, <2>3, <2>4, <2>5, <2>6, Aside, Zenon
<1>3. CASE AdminDrainFlight
  <2>1. /\ adminPc' = "drainConfirmed" /\ inFlight' = [m \in Msgs |-> "absent"]
        /\ UNCHANGED <<adminClear, adminCount>> /\ UNCHANGED <<backend, confirms, pump, done>>
        /\ UNCHANGED requeues /\ UNCHANGED signals /\ UNCHANGED modes /\ UNCHANGED session /\ UNCHANGED scanPc
    BY <1>3, Zenon DEF AdminDrainFlight, DrainFlight
  <2>2. FlightTypes'
    BY <2>1, Zenon DEF FlightTypes
  <2>3. AdminTypes'
    BY <1>1, <2>1, Zenon DEF AdminTypes, DrainPcs
  <2>4. RequeueTypes' /\ SignalTypes' /\ ModeTypes' /\ SessionTypes' /\ ScanTypes'
    BY <2>1, PartsStay, Zenon
  <2>5. QED BY <2>1, <2>2, <2>3, <2>4, Aside, Zenon
<1>4. CASE AdminDrainConfirmed
  <2>1. /\ DrainConfirmed(adminClear) /\ adminPc' = "drainWaiting" /\ UNCHANGED <<adminClear, adminCount>>
        /\ UNCHANGED <<backend, done>> /\ UNCHANGED backend /\ UNCHANGED inFlight /\ UNCHANGED requeues
        /\ UNCHANGED signals /\ UNCHANGED modes /\ UNCHANGED session /\ UNCHANGED pump
        /\ UNCHANGED scanPc /\ UNCHANGED done
    BY <1>4, Zenon DEF AdminDrainConfirmed
  <2>2. /\ Shaped(confirmedMsgs'.elems, Positions) /\ DOMAIN confirmedMsgs'.elems \subseteq Positions
        /\ DOMAIN confirmedMsgs'.historyMsg \subseteq Positions /\ waitingConfirm' \in Nat
        /\ Covered(confirmedMsgs') \subseteq Covered(confirmedMsgs)
    BY <1>1, <2>1, DrainConfirmedForgets, Zenon
  <2>3. ConfirmTypes'
    BY <2>2, Zenon DEF ConfirmTypes
  <2>4. AdminTypes'
    BY <1>1, <2>1, Zenon DEF AdminTypes, DrainPcs
  <2>5. /\ CursorTypes' /\ FlightTypes' /\ RequeueTypes' /\ SignalTypes' /\ ModeTypes' /\ SessionTypes'
        /\ PumpTypes' /\ HoldInv' /\ (SeekUnderWay' <=> SeekUnderWay) /\ ScanTypes'
        /\ done' \subseteq Nat /\ ConfirmedOnlyDone'
    BY <2>1, PartsStay, Zenon
  <2>6. MapInv'
    BY <2>1, <2>2, <2>5, ShrinkParts, Zenon
  <2>7. QED BY <2>3, <2>4, <2>5, <2>6, PartsMake, Zenon
<1>5. CASE AdminDrainWaiting
  <2>1. /\ TakeOffered /\ adminPc' = "idle" /\ adminClear' = FALSE /\ UNCHANGED adminCount
        /\ requeuedMsgChan' = <<>> /\ waitingRequeueMsgs' = {} /\ waitingRequeueChanMsgs' = {}
    BY <1>5, Zenon DEF AdminDrainWaiting, DrainWaiting, TakeOffered
  <2>2. RequeueTypes'
    BY <2>1 DEF RequeueTypes
  <2>3. AdminTypes'
    BY <1>1, <2>1, Zenon DEF AdminTypes
  <2>4. QED BY <2>1, <2>2, <2>3, TakeOfferedStep, Zenon
<1>6. QED BY <1>2, <1>3, <1>4, <1>5, Zenon

\* DisableConsume(false), in its three sections, or on an enabled channel.
LEMMA EnableStep ==
    ASSUME CursorInv, EnableConsume \/ EnableDrain \/ EnableReset \/ EnableAgain
    PROVE  CursorInv'
<1>1. RequeueTypes /\ ModeTypes /\ AdminTypes
  BY Zenon DEF CursorInv, TypeOK
<1>2. CASE EnableConsume
  <2>1. /\ AdminCall("disable") /\ consumeDisabled' = FALSE /\ adminPc' = "enableDrain"
        /\ UNCHANGED <<requireOrder, skipped>> /\ UNCHANGED adminClear /\ UNCHANGED signals
        /\ UNCHANGED <<backend, confirms, inFlight, requeues, session, pump, scanPc, done>>
    BY <1>2, Zenon DEF EnableConsume
  <2>2. ModeTypes' /\ SignalTypes'
    BY <1>1, <2>1, PartsStay, Zenon DEF ModeTypes
  <2>3. AdminTypes'
    <3>1. adminCount' \in Nat
      BY <2>1, CallParts, Zenon
    <3>2. QED BY <1>1, <2>1, <3>1, Zenon DEF AdminTypes
  <2>4. QED BY <2>1, <2>2, <2>3, FlagCallStep, Zenon
<1>3. CASE EnableDrain
  <2>1. /\ TakeOffered /\ adminPc' = "enableReset" /\ UNCHANGED <<adminClear, adminCount>>
        /\ requeuedMsgChan' = <<>> /\ waitingRequeueChanMsgs' \subseteq waitingRequeueChanMsgs
        /\ UNCHANGED waitingRequeueMsgs
    BY <1>3, Zenon DEF EnableDrain, TakeOffered
  <2>2. <<>> \in Seq(Msgs)
    OBVIOUS
  <2>3. RequeueTypes'
    BY <1>1, <2>1, <2>2, Zenon DEF RequeueTypes
  <2>4. AdminTypes'
    BY <1>1, <2>1, Zenon DEF AdminTypes
  <2>5. QED BY <2>1, <2>3, <2>4, TakeOfferedStep, Zenon
<1>4. CASE EnableReset
  <2>1. /\ SendReset(ResetKeep) /\ adminPc' = "idle" /\ UNCHANGED <<adminClear, adminCount>> /\ UNCHANGED modes
        /\ UNCHANGED <<backend, confirms, inFlight, requeues, tryReadBackend, endUpdatedChan,
                       needNotifyRead, session, pump, scanPc, done>>
    BY <1>4, Zenon DEF EnableReset
  <2>2. ModeTypes' /\ AdminTypes'
    BY <1>1, <2>1, PartsStay, Zenon DEF AdminTypes
  <2>3. ResetKeep \in Resets
    BY Zenon DEF Resets
  <2>4. QED BY <2>1, <2>2, <2>3, ResetCallStep, Zenon
<1>5. CASE EnableAgain
  <2>1. /\ AdminCall("enable") /\ tryReadBackend' = TRUE
        /\ UNCHANGED <<endUpdatedChan, needNotifyRead, readerChanged>> /\ UNCHANGED modes
        /\ UNCHANGED <<adminPc, adminClear>>
        /\ UNCHANGED <<backend, confirms, inFlight, requeues, session, pump, scanPc, done>>
    BY <1>5, Zenon DEF EnableAgain
  <2>2. SignalTypes' /\ ModeTypes' /\ AdminTypes'
    BY <2>1, WakeParts, PartsStay, CallParts, Zenon
  <2>3. QED BY <2>1, <2>2, FlagCallStep, Zenon
<1>6. QED BY <1>2, <1>3, <1>4, <1>5, Zenon

\* No administrative call does, nor the replication of a cursor.
LEMMA AdminStep ==
    ASSUME FiniteCounts, CursorInv, Admin
    PROVE  CursorInv'
<1>1. ModeTypes /\ CursorTypes
  BY Zenon DEF CursorInv, TypeOK
<1>2. ASSUME NEW offset \in 0 .. queueEnd + SeekBeyond, SetConsumeOffset(offset)
      PROVE  CursorInv'
  <2>1. /\ AdminCall("offset") /\ SendReset(offset) /\ UNCHANGED modes /\ UNCHANGED <<adminPc, adminClear>>
        /\ UNCHANGED <<backend, confirms, inFlight, requeues, tryReadBackend, endUpdatedChan,
                       needNotifyRead, session, pump, scanPc, done>>
    BY <1>2, Zenon DEF SetConsumeOffset
  <2>2. ModeTypes' /\ AdminTypes'
    BY <2>1, PartsStay, CallParts, Zenon
  <2>3. offset \in Resets
    BY <1>1, ConstantsAssumption DEF Resets, CursorTypes, Positions
  <2>4. QED BY <2>1, <2>2, <2>3, ResetCallStep, Zenon
<1>3. CASE SetOrdered
  <2>1. /\ AdminCall("order") /\ SendReset(ResetClear) /\ requireOrder' = TRUE
        /\ UNCHANGED <<consumeDisabled, skipped>> /\ UNCHANGED <<adminPc, adminClear>>
        /\ UNCHANGED <<backend, confirms, inFlight, requeues, tryReadBackend, endUpdatedChan,
                       needNotifyRead, session, pump, scanPc, done>>
    BY <1>3, Zenon DEF SetOrdered
  <2>2. ModeTypes' /\ AdminTypes'
    BY <1>1, <2>1, CallParts, Zenon DEF ModeTypes
  <2>3. ResetClear \in Resets
    BY Zenon DEF Resets
  <2>4. QED BY <2>1, <2>2, <2>3, ResetCallStep, Zenon
<1>4. CASE UnsetOrdered
  <2>1. /\ AdminCall("unorder") /\ requireOrder' = FALSE /\ tryReadBackend' = TRUE
        /\ UNCHANGED <<endUpdatedChan, needNotifyRead, readerChanged>>
        /\ UNCHANGED <<consumeDisabled, skipped>> /\ UNCHANGED <<adminPc, adminClear>>
        /\ UNCHANGED <<backend, confirms, inFlight, requeues, session, pump, scanPc, done>>
    BY <1>4, Zenon DEF UnsetOrdered
  <2>2. SignalTypes' /\ ModeTypes' /\ AdminTypes'
    BY <1>1, <2>1, WakeParts, CallParts, Zenon DEF ModeTypes
  <2>3. QED BY <2>1, <2>2, FlagCallStep, Zenon
<1>5. CASE DoSkip
  <2>1. /\ AdminCall("skip") /\ UNCHANGED signals
        /\ UNCHANGED <<consumeDisabled, requireOrder>> /\ UNCHANGED <<adminPc, adminClear>>
        /\ UNCHANGED <<backend, confirms, inFlight, requeues, session, pump, scanPc, done>>
    BY <1>5, Zenon DEF DoSkip
  <2>2. skipped' \in BOOLEAN
    BY <1>5, Zenon DEF DoSkip
  <2>3. SignalTypes' /\ AdminTypes'
    BY <2>1, PartsStay, CallParts, Zenon
  <2>4. ModeTypes'
    BY <1>1, <2>1, <2>2, Zenon DEF ModeTypes
  <2>5. QED BY <2>1, <2>3, <2>4, FlagCallStep, Zenon
<1>6. ASSUME NEW m \in Msgs, RequeueToEnd(m)
      PROVE  CursorInv'
  <2>1. Finish(m) /\ AdminCall("toend") /\ UNCHANGED <<adminPc, adminClear>>
    BY <1>6, Zenon DEF RequeueToEnd
  <2>2. AdminTypes'
    BY <2>1, CallParts, Zenon
  <2>3. QED BY <2>1, <2>2, FinishStep, Zenon
<1>7. CASE DisableConsume \/ AdminDrainFlight \/ AdminDrainConfirmed \/ AdminDrainWaiting
  BY <1>7, DisableStep, Zenon
<1>8. CASE EnableConsume \/ EnableDrain \/ EnableReset \/ EnableAgain
  BY <1>8, EnableStep, Zenon
<1>9. ASSUME NEW offset \in 0 .. queueEnd, NEW back \in BOOLEAN, NEW updates \in BOOLEAN,
             NEW list \in IntervalLists, UpdateChannelOffset(offset, back, updates, list)
      PROVE  CursorInv'
  BY <1>9, FollowStep, Zenon
<1>10. QED
  BY <1>2, <1>3, <1>4, <1>5, <1>6, <1>7, <1>8, <1>9, Zenon DEF Admin

-----------------------------------------------------------------------------
(* The whole channel.                                                      *)

\* The empty channel satisfies the invariant.
LEMMA InitCursor == Init => CursorInv
<1> SUFFICES ASSUME Init PROVE CursorInv
  OBVIOUS
<1>1. /\ StartMsgs \in Positions /\ 0 \in Positions /\ 0 <= StartMsgs /\ 0 <= 0
      /\ NoMsg \in Msgs \cup {NoMsg} /\ 0 \in Nat
  BY ConstantsAssumption DEF Positions
<1>2. CursorTypes
  BY <1>1, Zenon DEF Init, CursorTypes
<1>3. /\ Shaped(confirmedMsgs.elems, Positions) /\ DOMAIN confirmedMsgs.elems \subseteq Positions
      /\ DOMAIN confirmedMsgs.historyMsg \subseteq Positions /\ Covered(confirmedMsgs) \subseteq {}
  BY NewIntervalHashEmpty, Zenon DEF Init
<1>4. ConfirmTypes
  BY <1>1, <1>3, Zenon DEF Init, ConfirmTypes
<1>5. FlightTypes
  BY Zenon DEF Init, FlightTypes
<1>6. RequeueTypes
  <2>1. <<>> \in Seq(Msgs)
    OBVIOUS
  <2>2. QED BY <2>1, Zenon DEF Init, RequeueTypes
<1>7. SignalTypes
  BY ResetSeqs, Zenon DEF Init, SignalTypes
<1>8. ModeTypes
  BY ConstantsAssumption, Zenon DEF Init, ModeTypes
<1>9. SessionTypes
  BY Zenon DEF Init, SessionTypes
<1>10. PumpTypes /\ HoldInv
  BY ResetLevels, Zenon DEF Init, PumpTypes, HoldInv
<1>11. ScanTypes /\ AdminTypes
  BY <1>1, Zenon DEF Init, ScanTypes, AdminTypes
<1>12. ConfirmedOnlyDone
  <2>1. \A p \in Msgs : ~(p < 0)
    BY DEF Msgs
  <2>2. QED BY <2>1, Zenon DEF Init, ConfirmedOnlyDone
<1>13. MapInv
  BY <1>3, Zenon DEF Init, MapInv, SeekUnderWay
<1>14. done \subseteq Nat
  BY Zenon DEF Init
<1>15. QED
  BY <1>2, <1>4, <1>5, <1>6, <1>7, <1>8, <1>9, <1>10, <1>11, <1>12, <1>13, <1>14, Zenon
  DEF CursorInv, TypeOK, DoneInv

\* A new message in the queue disturbs nothing.
LEMMA UpdateQueueEndStep ==
    ASSUME CursorInv, UpdateQueueEnd
    PROVE  CursorInv'
<1>1. CursorTypes /\ SignalTypes /\ ConfirmedOnlyDone /\ MapInv
  BY Zenon DEF CursorInv, TypeOK, DoneInv
<1>2. /\ queueEnd < MaxMsgs /\ queueEnd' = queueEnd + 1 /\ UNCHANGED <<readPos, confirmed>>
      /\ UNCHANGED <<tryReadBackend, needNotifyRead, readerChanged>>
      /\ UNCHANGED confirms /\ UNCHANGED inFlight /\ UNCHANGED requeues /\ UNCHANGED modes
      /\ UNCHANGED session /\ UNCHANGED pump /\ UNCHANGED scanPc /\ UNCHANGED admin /\ UNCHANGED done
  BY Zenon DEF UpdateQueueEnd
<1>3. endUpdatedChan' \in BOOLEAN
  BY Zenon DEF UpdateQueueEnd
<1>4. CursorTypes'
  BY <1>1, <1>2, ConstantsAssumption DEF CursorTypes, Positions
<1>5. SignalTypes'
  BY <1>1, <1>2, <1>3, Zenon DEF SignalTypes
<1>6. /\ ConfirmTypes' /\ FlightTypes' /\ RequeueTypes' /\ ModeTypes' /\ SessionTypes' /\ PumpTypes'
      /\ HoldInv' /\ (SeekUnderWay' <=> SeekUnderWay) /\ ScanTypes' /\ AdminTypes' /\ done' \subseteq Nat
  BY <1>2, PartsStay, Zenon
<1>7. ConfirmedOnlyDone' /\ MapInv'
  BY <1>1, <1>2, <1>6, Zenon DEF ConfirmedOnlyDone, MapInv, confirms
<1>8. QED BY <1>4, <1>5, <1>6, <1>7, PartsMake, Zenon

\* Every step of the channel, and every stuttering step, keeps the invariant.
LEMMA NextCursor ==
    ASSUME FiniteCounts, CursorInv, [Next]_vars
    PROVE  CursorInv'
<1>1. CASE UpdateQueueEnd
  BY <1>1, UpdateQueueEndStep, Zenon
<1>2. CASE Pump
  BY <1>2, PumpStep, Zenon
<1>3. ASSUME NEW c \in Clients, Client(c) PROVE CursorInv'
  BY <1>3, ClientStep, Zenon
<1>4. CASE Scanner
  BY <1>4, ScannerStep, Zenon
<1>5. CASE Admin
  BY <1>5, AdminStep, Zenon
<1>6. CASE UNCHANGED vars
  <2>1. /\ UNCHANGED backend /\ UNCHANGED confirms /\ UNCHANGED inFlight /\ UNCHANGED requeues
        /\ UNCHANGED signals /\ UNCHANGED modes /\ UNCHANGED session /\ UNCHANGED pump
        /\ UNCHANGED scanPc /\ UNCHANGED admin /\ UNCHANGED done
    BY <1>6, Zenon DEF vars
  <2>2. QED BY <2>1, PartsStay, PartsMake, Zenon
<1>7. QED BY <1>1, <1>2, <1>3, <1>4, <1>5, <1>6, Zenon DEF Next

-----------------------------------------------------------------------------
(* The types that further proofs about the channel use.                    *)

TypeFacts ==
    /\ Positions \in SUBSET Nat /\ Positions \subseteq Nat /\ Msgs \subseteq Nat
    /\ NoMsg \notin Nat /\ NoMsg \notin Msgs
    /\ queueEnd \in Positions /\ readPos \in Positions /\ confirmed \in Positions
    /\ queueEnd \in Nat /\ readPos \in Nat /\ confirmed \in Nat
    /\ confirmed <= readPos /\ readPos <= queueEnd
    /\ confirmed <= confirmed /\ readPos <= readPos /\ queueEnd <= queueEnd
    /\ DOMAIN confirmedMsgs.historyMsg \subseteq Nat
    /\ Shaped(confirmedMsgs.elems, Positions)
    /\ inFlight \in [Msgs -> Clients \cup {"absent", "deferred"}]
    /\ requeuedMsgChan \in Seq(Msgs) /\ waitingRequeueMsgs \subseteq Msgs
    /\ readerChanged \in Seq(Resets)
    /\ \A i \in DOMAIN readerChanged : readerChanged[i] \in Int
    /\ readerChanged # <<>> => 1 \in DOMAIN readerChanged
    /\ hand \in [Clients -> Msgs \cup {NoMsg}]
    /\ msg \in Msgs \cup {NoMsg} /\ lastData \in Msgs \cup {NoMsg}

\* What the invariant says of the types of the variables, in the forms in which the
\* steps of later proofs need it.
LEMMA Typed == CursorInv => TypeFacts
<1> SUFFICES ASSUME CursorInv PROVE TypeFacts
  OBVIOUS
<1>1. /\ CursorTypes /\ ConfirmTypes /\ FlightTypes /\ RequeueTypes /\ SignalTypes /\ SessionTypes /\ PumpTypes
      /\ Shaped(confirmedMsgs.elems, Positions)
  BY Zenon DEF CursorInv, TypeOK, DoneInv, MapInv
<1>2. /\ Positions \in SUBSET Nat /\ Positions \subseteq Nat /\ Msgs \subseteq Nat
      /\ NoMsg \notin Nat /\ NoMsg \notin Msgs
  BY ConstantsAssumption DEF Positions, Msgs, NoMsg
<1>3. /\ queueEnd \in Positions /\ readPos \in Positions /\ confirmed \in Positions
      /\ confirmed <= readPos /\ readPos <= queueEnd
      /\ DOMAIN confirmedMsgs.historyMsg \subseteq Positions
      /\ inFlight \in [Msgs -> Clients \cup {"absent", "deferred"}]
      /\ requeuedMsgChan \in Seq(Msgs) /\ waitingRequeueMsgs \subseteq Msgs
      /\ hand \in [Clients -> Msgs \cup {NoMsg}]
      /\ msg \in Msgs \cup {NoMsg} /\ lastData \in Msgs \cup {NoMsg}
      /\ readerChanged \in Seq(Resets)
  BY <1>1, ZenonT(40)
  DEF CursorTypes, ConfirmTypes, FlightTypes, RequeueTypes, SignalTypes, SessionTypes, PumpTypes
<1>4. /\ queueEnd \in Nat /\ readPos \in Nat /\ confirmed \in Nat
      /\ confirmed <= confirmed /\ readPos <= readPos /\ queueEnd <= queueEnd
  <2>1. queueEnd \in Nat /\ readPos \in Nat /\ confirmed \in Nat
    BY <1>2, <1>3, Zenon
  <2>2. QED BY <2>1
<1>5. DOMAIN confirmedMsgs.historyMsg \subseteq Nat
  BY <1>2, <1>3, Zenon
<1>6. /\ \A i \in DOMAIN readerChanged : readerChanged[i] \in Int
      /\ readerChanged # <<>> => 1 \in DOMAIN readerChanged
  BY <1>3 DEF Resets, ResetKeep, ResetClear
<1>7. QED BY <1>1, <1>2, <1>3, <1>4, <1>5, <1>6, ZenonT(40) DEF TypeFacts

\* The same after a step.
LEMMA TypedAfter == CursorInv' => TypeFacts'
  BY Typed, PTL
=============================================================================
