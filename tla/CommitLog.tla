------------------------------ MODULE CommitLog ------------------------------
(***************************************************************************)
(* The commit log of one topic partition (consistence/commitlog.go): the   *)
(* index of committed writes that replication, recovery and retention are  *)
(* decided on.                                                             *)
(*                                                                         *)
(* l.cur is the file written to, l.segs the rotated segments; l.savedCur   *)
(* and l.savedStart are the .current and .start files.  The rest is the    *)
(* memory of TopicCommitLogMgr.  An entry stands for one write of num      *)
(* messages: LogID id, LastMsgLogID last, MsgOffset off, MsgCnt cnt (the   *)
(* count of its first message); a message has size 1, so MsgSize is num.   *)
(* A position in a segment is a number of entries.                         *)
(***************************************************************************)
EXTENDS Integers, Sequences, FiniteSets, TLC

CONSTANTS
    LOGROTATE_NUM,       \* entries in a segment
    MIN_KEEP_LOG_ITEM,   \* entries a clean must leave
    BufSize              \* commitBufSize of the leader

ASSUME CommitLogAssumption ==
    LOGROTATE_NUM \in Nat \ {0} /\ MIN_KEEP_LOG_ITEM \in Nat /\ BufSize \in Nat

VARIABLE lg

LogStart(cnt, idx, pos) == [cnt |-> cnt, idx |-> idx, pos |-> pos]

EmptyLog ==
    [cur |-> <<>>, segs |-> <<>>, savedCur |-> 0, savedStart |-> LogStart(0, 0, 0),
     start |-> 0, count |-> 0, pLogID |-> 0, nLogID |-> 1, buf |-> <<>>, cap |-> BufSize,
     logStart |-> LogStart(0, 0, 0)]

EntryEnd(e) == e.off + e.num
EntryEndCnt(e) == e.cnt + e.num - 1

FlushLogs(l) == [l EXCEPT !.cur = @ \o l.buf, !.buf = <<>>]

\* The entries of segment i, buffered ones included: every reader flushes first.
Seg(l, i) ==
    IF i = l.start THEN l.cur \o l.buf
    ELSE IF i \in DOMAIN l.segs THEN l.segs[i] ELSE <<>>

Missing(l, i) == i # l.start /\ i \notin DOMAIN l.segs

\* getCommitLogFromOffsetV2 finds an entry at position p of segment i.
Readable(l, i, p) ==
    /\ i \in l.logStart.idx .. l.start
    /\ i = l.logStart.idx => p >= l.logStart.pos
    /\ p \in 0 .. Len(Seg(l, i)) - 1

EntryAt(l, i, p) == Seg(l, i)[p + 1]

\* Every entry a reader can reach, in order.
Entries(l) ==
    LET from[i \in l.logStart.idx .. l.start + 1] ==
            IF i > l.start THEN <<>>
            ELSE SubSeq(Seg(l, i), (IF i = l.logStart.idx THEN l.logStart.pos ELSE 0) + 1, Len(Seg(l, i)))
                   \o from[i + 1]
    IN  IF l.logStart.idx > l.start THEN <<>> ELSE from[l.logStart.idx]

\* AppendCommitLog refuses an id that is not above the last one.
CanAppend(l, e) == e.id > l.pLogID /\ e.last >= e.id

NeedRotate(l) == l.count >= LOGROTATE_NUM

\* AppendCommitLog, rotation: the file becomes segment `start`...
RotateRename(l) ==
    LET f == FlushLogs(l) IN [f EXCEPT !.segs = (l.start :> f.cur) @@ @, !.cur = <<>>]

\* ... and only then is the number of the current segment advanced and saved.
RotateSave(l) == [l EXCEPT !.start = @ + 1, !.count = 0, !.savedCur = l.start + 1]

AppendCommitLog(l, e, slave) ==
    LET f == IF Len(l.buf) >= l.cap THEN FlushLogs(l) ELSE l
        w == IF l.cap = 0 THEN [l EXCEPT !.cur = Append(@, e)] ELSE [f EXCEPT !.buf = Append(@, e)]
    IN  [w EXCEPT !.count = @ + 1, !.pLogID = e.id, !.nLogID = IF slave THEN e.last + 1 ELSE @]

\* TopicCommitLogMgr.switchForMaster: a slave buffers twice as much.
SwitchBuffer(l, master) == [FlushLogs(l) EXCEPT !.cap = IF master THEN BufSize ELSE 2 * BufSize]

\* ResetLogWithStart.
ResetLogWithStart(l, s) ==
    LET n == LogStart(s.cnt, s.idx, 0)
    IN  [l EXCEPT !.cur = <<>>, !.buf = <<>>, !.segs = [i \in {j \in DOMAIN @ : j >= l.start} |-> @[i]],
                  !.savedCur = s.idx, !.savedStart = n, !.logStart = n,
                  !.pLogID = 0, !.start = s.idx, !.count = 0]

\* TruncateToOffsetV2 of an earlier segment, up to saving the number of the
\* current segment...
TruncateSave(l, i, p) == [FlushLogs(l) EXCEPT !.start = i, !.count = p, !.savedCur = i]

\* ... then the current file and the segments in between are removed and segment
\* i becomes the current file.
TruncateRename(l, i) ==
    [l EXCEPT !.cur = l.segs[i], !.segs = [j \in {k \in DOMAIN @ : k < i} |-> @[j]]]

CanTruncate(l, i, p) ==
    i <= l.start /\ (i > l.logStart.idx \/ (i = l.logStart.idx /\ p >= l.logStart.pos))

\* truncateToOffset: the current file is cut after p entries, and the last id is
\* that of the last entry left; nLogID never goes back.
TruncateFileMutant(l, p) == [FlushLogs(l) EXCEPT !.cur = SubSeq(@, 1, p), !.count = p]

TruncateFile(l, p) ==
    LET f == [FlushLogs(l) EXCEPT !.cur = SubSeq(@, 1, p), !.count = p]
        floor == IF l.start = l.logStart.idx THEN l.logStart.pos ELSE 0
        prev == Seg(f, f.start - 1)
        e == IF p > floor THEN f.cur[p] ELSE prev[Len(prev)]
    IN  IF p <= floor /\ (f.start <= f.logStart.idx \/ prev = <<>>)
        THEN [f EXCEPT !.pLogID = IF f.start <= f.logStart.idx THEN 0 ELSE @]
        ELSE [f EXCEPT !.pLogID = e.id, !.nLogID = IF e.last + 1 > @ THEN e.last + 1 ELSE @]

\* CleanOldData keeps some entries.
CanClean(l, i, p) ==
    /\ i <= l.start
    /\ i = l.start => p + MIN_KEEP_LOG_ITEM < l.count
    /\ i = l.start - 1 =>
         /\ i \in DOMAIN l.segs /\ p <= Len(l.segs[i])
         /\ Len(l.segs[i]) - p + l.count > MIN_KEEP_LOG_ITEM
    /\ \A j \in l.logStart.idx .. i - 1 : j \in DOMAIN l.segs
    /\ i = l.logStart.idx => p >= l.logStart.pos
    /\ i >= l.logStart.idx

\* CleanOldData: segments go (all but the one before the new start, which is
\* kept to read the last entry from), and the start in memory moves...
CleanSegments(l, i, p) ==
    LET skipped[j \in l.logStart.idx .. i] ==
            IF j = i THEN p - (IF i = l.logStart.idx THEN l.logStart.pos ELSE 0)
            ELSE Len(l.segs[j]) - (IF j = l.logStart.idx THEN l.logStart.pos ELSE 0) + skipped[j + 1]
        atEnd == i < l.start /\ p = Len(Seg(l, i))
    IN  [l EXCEPT !.segs = [j \in {k \in DOMAIN @ : k >= i - 1} |-> @[j]],
                  !.logStart = LogStart(l.logStart.cnt + skipped[l.logStart.idx],
                                        IF atEnd THEN i + 1 ELSE i, IF atEnd THEN 0 ELSE p)]

\* ... and is saved last.
SaveLogStartMutant(l) == l

SaveLogStart(l) == [l EXCEPT !.savedStart = l.logStart]

LastOf(s) == s[Len(s)]

\* InitTopicCommitLogMgr.  It fails when the last entry cannot be read.
CanReopen(l) ==
    LET m == [l EXCEPT !.start = l.savedCur, !.logStart = l.savedStart, !.buf = <<>>]
    IN  IF l.cur # <<>> THEN Readable(m, m.start, Len(l.cur) - 1)
        ELSE m.start <= m.logStart.idx \/ Seg(m, m.start - 1) # <<>>

ReopenLog(l) ==
    LET m == [l EXCEPT !.start = l.savedCur, !.logStart = l.savedStart, !.buf = <<>>,
                       !.count = Len(l.cur), !.pLogID = 0, !.nLogID = 1]
        prev == IF m.start > m.logStart.idx \/ m.logStart.idx > 0 THEN Seg(m, m.start - 1) ELSE <<>>
        tail == IF l.cur # <<>> THEN l.cur ELSE prev
    IN  IF tail = <<>> THEN m
        ELSE [m EXCEPT !.pLogID = LastOf(tail).id, !.nLogID = LastOf(tail).last + 1]

\* GetLastCommitLogOffsetV2: the place of the entry with id pLogID.
NoPlace == <<-1, -1>>
LogEOF(l) == Seg(l, l.start) = <<>> /\ l.start = l.logStart.idx

LastPlace(l) ==
    LET s == Seg(l, l.start)
        prev == Seg(l, l.start - 1)
        hits == {p \in 1 .. Len(s) : s[p].id = l.pLogID}
    IN  CASE s # <<>> /\ hits # {} -> <<l.start, (CHOOSE p \in hits : TRUE) - 1>>
          [] s = <<>> /\ l.start # l.logStart.idx /\ prev # <<>> /\ LastOf(prev).id = l.pLogID ->
                <<l.start - 1, Len(prev) - 1>>
          [] OTHER -> NoPlace

\* ConvertToCountIndex and ConvertToOffsetIndex.
ConvertToCountIndex(l, i, p) ==
    LET upTo[j \in l.logStart.idx .. i] ==
            IF j = l.logStart.idx THEN l.logStart.cnt - l.logStart.pos
            ELSE upTo[j - 1] + Len(Seg(l, j - 1))
    IN  upTo[i] + p

ConvertToOffsetIndex(l, n) ==
    LET walk[j \in l.logStart.idx .. l.start] ==
            LET base == ConvertToCountIndex(l, j, 0)
            IN  IF j = l.start \/ n <= l.logStart.cnt \/ n < base + Len(Seg(l, j))
                THEN <<j, n - base>> ELSE walk[j + 1]
    IN  walk[l.logStart.idx]

\* The comparators of the three searches, by kind.
SearchEndBoundary(x) == x \div LOGROTATE_NUM + 1

LessThanLeft(kind, x, e) ==
    CASE kind = "cnt" -> e.cnt > x
      [] kind = "id"  -> e.id > x
      [] kind = "off" -> e.off > x

GreatThanRightMutant(kind, x, e) ==
    CASE kind = "cnt" -> EntryEndCnt(e) < x
      [] kind = "id"  -> e.last < x
      [] kind = "off" -> EntryEnd(e) < x

GreatThanRight(kind, x, e) ==
    CASE kind = "cnt" -> EntryEndCnt(e) < x
      [] kind = "id"  -> e.last < x
      [] kind = "off" -> EntryEnd(e) <= x

SegBegin(l, i) == IF i = l.logStart.idx THEN l.logStart.pos ELSE 0

\* SearchLogDataByComparator: a binary search for the segment...
SearchSegment(l, kind, x) ==
    LET hi0 == IF SearchEndBoundary(x) > l.start THEN l.start ELSE SearchEndBoundary(x)
        lo0 == l.logStart.idx
        find[lo \in lo0 .. hi0 + 1, hi \in lo0 - 1 .. hi0] ==
            LET mid == lo + (hi - lo) \div 2
            IN  CASE lo >= hi -> <<lo, hi>>
                  [] lo < hi /\ Missing(l, mid) -> find[mid + 1, hi]
                  [] lo < hi /\ ~Missing(l, mid) /\ Len(Seg(l, mid)) <= SegBegin(l, mid) -> <<1, 0>>
                  [] lo < hi /\ ~Missing(l, mid) /\ Len(Seg(l, mid)) > SegBegin(l, mid) ->
                       IF GreatThanRight(kind, x, LastOf(Seg(l, mid))) THEN find[mid + 1, hi]
                       ELSE IF LessThanLeft(kind, x, EntryAt(l, mid, SegBegin(l, mid))) THEN find[lo, mid - 1]
                       ELSE <<mid, mid>>
    IN  IF lo0 > hi0 THEN <<lo0, hi0>> ELSE find[lo0, hi0]

\* ... and one in it.  The last entry looked at is the answer, whether or not it
\* covers x; NoPlace is an error.
SearchIn(l, kind, x, i) ==
    LET n == Len(Seg(l, i))
        find[lo \in 0 .. n, hi \in -1 .. n - 1] ==
            LET mid == lo + (hi - lo) \div 2
                lower == LessThanLeft(kind, x, EntryAt(l, i, mid))
                upper == GreatThanRight(kind, x, EntryAt(l, i, mid))
            IN  IF lower /\ lo <= mid - 1 THEN find[lo, mid - 1]
                ELSE IF ~lower /\ upper /\ mid + 1 <= hi THEN find[mid + 1, hi]
                ELSE mid
    IN  IF n <= SegBegin(l, i) THEN NoPlace ELSE <<i, find[SegBegin(l, i), n - 1]>>

SearchRange(l, kind, x, seg) == IF seg[1] > seg[2] THEN NoPlace ELSE SearchIn(l, kind, x, seg[1])

SearchLog(l, kind, x) == SearchRange(l, kind, x, SearchSegment(l, kind, x))

CommitLogTypeOK ==
    /\ \A p \in 1 .. Len(lg.cur) : lg.cur[p].id \in Nat /\ lg.cur[p].num \in Nat \ {0}
    /\ lg.pLogID \in Nat /\ lg.nLogID \in Nat /\ lg.start \in Nat /\ lg.count \in Nat
    /\ lg.savedCur \in Nat /\ Len(lg.buf) <= 2 * BufSize
=============================================================================
