------------------------------ MODULE LocalStore ------------------------------
(***************************************************************************)
(* One replica of a topic partition on one nsqd: the topic of              *)
(* nsqd/topic.go over its disk queue, and the commit log that indexes it,  *)
(* driven by the coordinator of consistence/nsqd_coordinator*.go the way   *)
(* it drives them - leader writes and their rollback, writes received by a *)
(* replica, periodic flushes, retention cleaning, catching up with a new   *)
(* leader - with a crash possible before, after and in the middle of every *)
(* one of them, and the recovery that follows it.                          *)
(*                                                                         *)
(* pc says what the holder of the write lock is doing: "idle", "put" (a    *)
(* write of the leader is in the local queue and is being replicated),     *)
(* "down" (crashed), "failed" (the topic could not be loaded again).  isr  *)
(* is TRUE when the cluster takes this replica to be in step, fix is the   *)
(* DataFixState.  torn is set when a restart finds, on disk, a state that  *)
(* an interrupted rotation or truncation leaves behind, or when a full     *)
(* sync comes between the two halves of a retention clean or takes over    *)
(* the offset meta of a file that was truncated away; over is set when the *)
(* second half of a clean ran without a bound (see CleanQueue).            *)
(***************************************************************************)
EXTENDS DiskQueue, CommitLog

CONSTANTS
    SyncEvery,           \* writes between two fsyncs
    MaxBatch,            \* messages in a write
    Instances,           \* where to start, and how far to go (see below)
    SyncStarts           \* the log starts a leader may send for a full sync

\* An instance starts with a store of `preload` messages, ends with the message id
\* `ids` (one more on a leader, whose first id is 2), and has at most `turns`
\* crashes and changes of role.
ASSUME LocalStoreAssumption ==
    /\ SyncEvery \in Nat \ {0} /\ Instances \subseteq [preload : Nat, ids : Nat, turns : Nat]
    /\ MaxBatch \in 1 .. MaxPerFile       \* max-body-size is below max-bytes-per-file

VARIABLES tp, pc, job, cleaning, isr, fix, torn, over, left

vars == <<dq, lg, tp, pc, job, cleaning, isr, fix, torn, over, left>>

Min2(a, b) == IF a < b THEN a ELSE b

NoJob == [n |-> 0, left |-> 0, off |-> 0, cnt |-> 0, first |-> 0]
NoCleaning == -1

Rotated(l) == IF NeedRotate(l) THEN RotateSave(RotateRename(l)) ELSE l

Rolled(d) == IF FileFull(d) THEN Roll(d) ELSE d

\* A write of the given ids is put in the queue raw and in the log.
Received(s, ids) ==
    [d |-> Rolled(WriteOne(s.d, ids)),
     l |-> AppendCommitLog(Rotated(s.l),
              [id |-> ids[1], last |-> ids[Len(ids)], off |-> s.d.writeEnd.virt,
               cnt |-> s.d.writeEnd.cnt + 1, num |-> Len(ids)], TRUE)]

NewTopic(end) ==
    [committed |-> end, lastSync |-> 0, needFlush |-> FALSE, disabled |-> TRUE,
     chEnd |-> end.virt, confirmed |-> 0]

\* A store that has received n messages, one by one, since it was created,
\* has flushed them, and whose channel has consumed them.
Preloaded(n) ==
    LET store[i \in 0 .. n] ==
            IF i = 0 THEN [d |-> EmptyQueue, l |-> EmptyLog]
            ELSE Received(store[i - 1], <<i>>)
        s == store[n]
    IN  [d |-> SyncIfNeeded(s.d), l |-> FlushLogs(s.l)]

Init ==
    /\ \E i \in Instances :
          /\ dq = Preloaded(i.preload).d /\ lg = Preloaded(i.preload).l
          /\ left = [ids |-> i.ids, turns |-> i.turns]
    /\ \E leader \in BOOLEAN :
          tp = [NewTopic(dq.writeEnd) EXCEPT !.disabled = ~leader, !.confirmed = dq.writeEnd.virt,
                                             !.lastSync = dq.writeEnd.cnt]
    /\ pc = "idle" /\ job = NoJob /\ cleaning = NoCleaning
    /\ isr = TRUE /\ fix = FALSE /\ torn = FALSE /\ over = FALSE

(***************************************************************************)
(* The topic.  s is the pair of a queue d and a topic t.                   *)
(***************************************************************************)
UpdateChannelsEndMutant(s) ==
    [s EXCEPT !.t.chEnd = s.d.readEnd.virt, !.t.confirmed = Min2(@, s.d.readEnd.virt)]

UpdateChannelsEnd(s) ==
    LET e == Min2(s.d.readEnd.virt, s.t.committed.virt)
    IN  [s EXCEPT !.t.chEnd = e, !.t.confirmed = Min2(@, e)]

TopicFlush(s) ==
    UpdateChannelsEnd(
        IF s.t.needFlush
        THEN [s EXCEPT !.d = SyncIfNeeded(@), !.t.needFlush = FALSE, !.t.lastSync = s.d.writeEnd.cnt]
        ELSE s)

FlushForChannels(s, waiting) ==
    IF waiting /\ ~s.t.disabled THEN UpdateChannelsEnd([s EXCEPT !.d = FlushBuffer(@)]) ELSE s

\* waiting: some channel waits for more data.
UpdateCommittedOffset(s, end, waiting) ==
    LET c == [s EXCEPT !.t.committed = end]
    IN  IF SyncEvery = 1 \/ end.cnt - s.t.lastSync >= SyncEvery
        THEN IF s.t.disabled THEN c ELSE TopicFlush(c)
        ELSE FlushForChannels(c, waiting)

\* The local write end moved back (everything before it is flushed): committed
\* and the channels follow it.
EndMoved(s) == UpdateChannelsEnd(UpdateCommittedOffset(s, s.d.writeEnd, FALSE))

CanResetBackendEnd(s, off, cnt) ==
    (s.d.writeEnd.virt = off /\ s.d.writeEnd.cnt = cnt) \/ CanResetWriteEnd(s.d, off, cnt)

ResetBackendEnd(s, off, cnt) ==
    IF s.d.writeEnd.virt = off /\ s.d.writeEnd.cnt = cnt THEN s
    ELSE EndMoved([s EXCEPT !.d = ResetWriteEnd(@, off, cnt)])

\* A rollback that is refused has synced the queue all the same.
Rollback(s, off, n) ==
    IF CanRollback(s.d, off, n) THEN EndMoved([s EXCEPT !.d = RollbackWrite(@, off, n)])
    ELSE [s EXCEPT !.d = SyncIfNeeded(@)]

ResetBackendWithQueueStart(s, off, cnt) ==
    LET r == [s EXCEPT !.d = ResetWithQueueStart(@, off, cnt)]
        c == UpdateCommittedOffset(r, r.d.readEnd, FALSE)
    IN  [c EXCEPT !.t.chEnd = off, !.t.confirmed = off]

Here == [d |-> dq, t |-> tp]
Store(s) == dq' = s.d /\ tp' = s.t

\* A crash or a change of role: their number is bounded.
Turn == left.turns > 0 /\ left' = [left EXCEPT !.turns = @ - 1]

Up == pc \in {"idle", "put"}

(***************************************************************************)
(* Leader writes.                                                          *)
(***************************************************************************)
BeginPut(n) ==
    /\ pc = "idle" /\ isr /\ ~tp.disabled /\ lg.nLogID + n <= left.ids + 1
    /\ pc' = "put"
    /\ job' = [n |-> n, left |-> n, off |-> dq.writeEnd.virt, cnt |-> dq.writeEnd.cnt + 1, first |-> lg.nLogID + 1]
    /\ UNCHANGED <<dq, lg, tp, cleaning, isr, fix, torn, over, left>>

\* Topic.put: a new id, the write, and the roll to a new file when it is full.
PutOne ==
    /\ pc = "put" /\ job.left > 0
    /\ dq' = Rolled(WriteOne(dq, <<lg.nLogID + 1>>))
    /\ lg' = [lg EXCEPT !.nLogID = @ + 1]
    /\ tp' = [tp EXCEPT !.needFlush = TRUE]
    /\ job' = [job EXCEPT !.left = @ - 1]
    /\ UNCHANGED <<pc, cleaning, isr, fix, torn, over, left>>

JobEntry == [id |-> job.first, last |-> job.first + job.n - 1, off |-> job.off, cnt |-> job.cnt, num |-> job.n]

\* doLocalCommit: enough replicas have the write.
CommitPut(waiting) ==
    /\ pc = "put" /\ job.left = 0
    /\ lg' = IF CanAppend(lg, JobEntry) THEN AppendCommitLog(Rotated(lg), JobEntry, FALSE) ELSE lg
    /\ Store(UpdateCommittedOffset(Here, dq.writeEnd, waiting))
    /\ pc' = "idle" /\ job' = NoJob
    /\ isr' = CanAppend(lg, JobEntry)
    /\ UNCHANGED <<cleaning, fix, torn, over, left>>

\* doLocalRollback, of a single write or of a batch: the write failed in the
\* cluster, and this leader gives up its role.
AbortPut ==
    /\ pc = "put" /\ job.left = 0
    /\ Store(IF job.n = 1 THEN Rollback(Here, job.off, 1)
             ELSE IF CanResetBackendEnd(Here, job.off, job.cnt - 1)
                  THEN ResetBackendEnd(Here, job.off, job.cnt - 1) ELSE Here)
    /\ pc' = "idle" /\ job' = NoJob /\ isr' = FALSE
    /\ UNCHANGED <<lg, cleaning, fix, torn, over, left>>

\* (what the batch had written is left in the queue)
FailPutMutant ==
    /\ pc = "put" /\ job.left \in 1 .. job.n - 1
    /\ pc' = "idle" /\ job' = NoJob
    /\ UNCHANGED <<dq, tp, lg, cleaning, isr, fix, torn, over, left>>

\* PutMessagesNoLock: a message of a batch cannot be written, and those before it
\* are taken back.
FailPut ==
    /\ pc = "put" /\ job.left \in 1 .. job.n - 1
    /\ Store(IF CanResetBackendEnd(Here, job.off, job.cnt - 1)
             THEN ResetBackendEnd(Here, job.off, job.cnt - 1) ELSE Here)
    /\ pc' = "idle" /\ job' = NoJob
    /\ UNCHANGED <<lg, cleaning, isr, fix, torn, over, left>>

(***************************************************************************)
(* A write received by a replica, or pulled by one that catches up: the    *)
(* offset must be the write end, then the data is written raw and the log  *)
(* entry appended.                                                         *)
(***************************************************************************)
LogEnd == EntryEnd(LastOf(Entries(lg)))

\* The leader's ids go on from the last entry both logs have.
LeaderNextID == IF Entries(lg) = <<>> THEN 1 ELSE LastOf(Entries(lg)).last + 1

ReplicaPut(n) ==
    /\ pc = "idle" /\ tp.disabled /\ ~fix
    /\ LeaderNextID + n - 1 <= left.ids
    /\ Entries(lg) # <<>> => LogEnd = dq.writeEnd.virt
    /\ LET id == LeaderNextID
           r == Received([d |-> dq, l |-> lg], [i \in 1 .. n |-> id + i - 1])
       IN  /\ lg' = r.l
           /\ Store(UpdateCommittedOffset([d |-> r.d, t |-> [tp EXCEPT !.needFlush = TRUE]], r.d.writeEnd, FALSE))
    /\ UNCHANGED <<pc, job, cleaning, isr, fix, torn, over, left>>

(***************************************************************************)
(* Flush ticks of the topic and of the commit log.                         *)
(***************************************************************************)
FlushTopic ==
    /\ Up /\ Store(TopicFlush(Here))
    /\ UNCHANGED <<lg, pc, job, cleaning, isr, fix, torn, over, left>>

FlushLog ==
    /\ Up /\ lg.buf # <<>> /\ lg' = FlushLogs(lg)
    /\ UNCHANGED <<dq, tp, pc, job, cleaning, isr, fix, torn, over, left>>

\* The channel's confirmed position moves.
Consume ==
    /\ Up /\ tp.confirmed < tp.chEnd
    /\ tp' = [tp EXCEPT !.confirmed = tp.chEnd]
    /\ UNCHANGED <<dq, lg, pc, job, cleaning, isr, fix, torn, over, left>>

(***************************************************************************)
(* checkAndFixLocalLogQueueEnd: the queue is cut to the end of the last    *)
(* log entry.  When the queue is behind the log, a forced fix goes back to *)
(* the last entry the queue holds and cuts the log there; it panics (dead) *)
(* when there is none.                                                     *)
(***************************************************************************)
Fixed(s, l, ok, dead) == [s |-> s, l |-> l, ok |-> ok, dead |-> dead]

LogTruncate(l, i, p) ==
    TruncateFile(IF i < l.start THEN TruncateRename(TruncateSave(l, i, p), i) ELSE l, p)

\* The queue can be, and is, cut to the end of entry e.
CanEndWith(s, e) == CanResetBackendEnd(s, EntryEnd(e), EntryEndCnt(e))
EndWith(s, e) == ResetBackendEnd(s, EntryEnd(e), EntryEndCnt(e))

Before(q, r) == q[1] < r[1] \/ (q[1] = r[1] /\ q[2] < r[2])

\* The places before `at` whose entries end where the queue can be cut.
FixPlaces(s, l, at) ==
    {q \in (l.logStart.idx .. at[1]) \X (0 .. LOGROTATE_NUM) :
        Readable(l, q[1], q[2]) /\ Before(q, at) /\ CanEndWith(s, EntryAt(l, q[1], q[2]))}

FixForced(s, l, places) ==
    IF places = {} THEN Fixed(s, l, FALSE, TRUE)
    ELSE LET last == CHOOSE q \in places : \A r \in places : ~Before(q, r)
         IN  Fixed(EndWith(s, EntryAt(l, last[1], last[2])), LogTruncate(l, last[1], last[2] + 1), TRUE, FALSE)

\* (a queue that is behind the log is not reported)
FixEndAtMutant(s, l, at, force) ==
    IF ~LogEOF(l) /\ at # NoPlace /\ CanEndWith(s, EntryAt(l, at[1], at[2]))
    THEN Fixed(EndWith(s, EntryAt(l, at[1], at[2])), l, TRUE, FALSE)
    ELSE Fixed(s, l, TRUE, FALSE)

FixEndAt(s, l, at, force) ==
    IF LogEOF(l) THEN Fixed(s, l, TRUE, FALSE)
    ELSE IF at = NoPlace THEN Fixed(s, l, FALSE, FALSE)
    ELSE IF CanEndWith(s, EntryAt(l, at[1], at[2]))
         THEN Fixed(EndWith(s, EntryAt(l, at[1], at[2])), l, TRUE, FALSE)
    ELSE IF force THEN FixForced(s, l, FixPlaces(s, l, at))
    ELSE Fixed(s, l, FALSE, FALSE)

FixEnd(s, l, force) == FixEndAt(s, FlushLogs(l), LastPlace(l), force)

\* checkAndFixLocalLogQueueData, the start: entries whose data is already cleaned
\* are cleaned too, and the first entry left must be readable in the queue.
\* c is the state FixEnd left, first the place of the first entry not cleaned.
FixStartAt(c, l, first) ==
    LET off == EntryAt(l, first[1], first[2]).off
        cell == off - c.s.d.queueStart.virt + 1
        stays == first = <<l.logStart.idx, l.logStart.pos>>
    IN  IF (~stays /\ ~CanClean(l, first[1], first[2])) \/ off > c.s.d.writeEnd.virt
        THEN [c EXCEPT !.ok = FALSE]
        ELSE [c EXCEPT !.l = IF stays THEN l ELSE SaveLogStart(CleanSegments(l, first[1], first[2])),
                       !.ok = @ /\ (cell \in 1 .. Len(Cells(c.s.d)) => Cells(c.s.d)[cell] # Hole)]

FixStart(c) ==
    LET places == {q \in (c.l.logStart.idx .. c.l.start) \X (0 .. LOGROTATE_NUM) :
                     Readable(c.l, q[1], q[2]) /\ EntryAt(c.l, q[1], q[2]).off >= c.s.d.queueStart.virt}
    IN  IF places = {} THEN [c EXCEPT !.ok = FALSE]
        ELSE FixStartAt(c, c.l, CHOOSE q \in places : \A r \in places : ~Before(r, q))

CheckAndFix(s, l, force) ==
    IF Readable(l, l.logStart.idx, l.logStart.pos) THEN FixStart(FixEnd(s, l, force))
    ELSE Fixed(s, l, /\ l.logStart.idx <= l.start /\ ~Missing(l, l.logStart.idx)
                     /\ Len(Seg(l, l.logStart.idx)) = l.logStart.pos, FALSE)

(***************************************************************************)
(* Crash and restart.                                                      *)
(***************************************************************************)
\* What the restarted process starts from: the disk, and no memory.
Forgotten(l) ==
    [l EXCEPT !.buf = <<>>, !.cap = BufSize, !.start = l.savedCur, !.logStart = l.savedStart,
              !.count = 0, !.pLogID = 0, !.nLogID = 0]

\* The process dies with queue d and log l; any prefix of the buffered data may
\* have been written by then.
CrashWith(d, l) ==
    /\ Turn
    /\ \E k \in 0 .. Len(d.buf) : dq' = Reopen(Spill(d, k))
    /\ lg' = Forgotten(l)
    /\ tp' = [NewTopic(Origin) EXCEPT !.confirmed = tp.confirmed]
    /\ pc' = "down" /\ job' = NoJob /\ cleaning' = NoCleaning
    /\ UNCHANGED <<isr, fix, torn>>

Crash == Up /\ CrashWith(dq, lg) /\ UNCHANGED over

\* ... in the middle of writeOne, the full file synced and no new one begun.
CrashInRoll ==
    /\ pc = "put" /\ job.left > 0
    /\ FileFull(WriteOne(dq, <<lg.nLogID + 1>>)) /\ CrashWith(WriteOne(dq, <<lg.nLogID + 1>>), lg)
    /\ UNCHANGED over

\* ... in AppendCommitLog, between the rename and saving the segment number.
CrashInRotate ==
    /\ pc = "put" /\ job.left = 0 /\ NeedRotate(lg) /\ CanAppend(lg, JobEntry)
    /\ CrashWith(dq, RotateRename(lg)) /\ UNCHANGED over

\* On-disk states that an interrupted truncation, rotation or reset leaves behind.
TornOnDisk == ~MetaTrue(dq) \/ \E i \in DOMAIN lg.segs : i >= lg.savedCur

\* loadLocalTopicData.  A restarted follower has to rejoin the ISR; only a leader
\* that is alone in it stays.
Loaded(r, alone) ==
    IF ~CanReopen(lg) \/ r.dead
    THEN pc' = "failed" /\ UNCHANGED <<dq, lg, tp, isr, fix, torn, over>>
    ELSE /\ Store(r.s) /\ lg' = r.l /\ fix' = ~r.ok
         /\ isr' = (isr /\ alone /\ r.ok) /\ pc' = "idle" /\ torn' = (torn \/ TornOnDisk)
         /\ over' = (over /\ ~r.ok)

Restart(force, alone) ==
    /\ pc = "down" /\ (force => alone)
    /\ LET t == [NewTopic(dq.writeEnd) EXCEPT !.confirmed = Min2(tp.confirmed, dq.writeEnd.virt)]
       IN  Loaded(CheckAndFix([d |-> dq, t |-> t], ReopenLog(lg), force), alone)
    /\ UNCHANGED <<job, cleaning, left>>

(***************************************************************************)
(* Catching up with the leader (decideCatchupCommitLogInfo).  The entry at *)
(* position p of segment i is the last one both logs have; the queue is    *)
(* cut to its end, then the log after it.                                  *)
(***************************************************************************)
MatchAt(i, p) ==
    /\ pc = "idle" /\ tp.disabled /\ ~isr
    /\ LastPlace(lg) # NoPlace /\ Readable(lg, i, p) /\ <<i, p>> # <<lg.logStart.idx, lg.logStart.pos>>

CutAfter(r, i, p) ==
    IF r.ok /\ ~fix /\ CanEndWith(r.s, EntryAt(lg, i, p)) /\ CanTruncate(r.l, i, p + 1)
    THEN Store(EndWith(r.s, EntryAt(lg, i, p))) /\ lg' = LogTruncate(r.l, i, p + 1) /\ UNCHANGED fix
    ELSE Store(r.s) /\ lg' = r.l /\ fix' = TRUE

CatchUp(i, p) ==
    /\ MatchAt(i, p) /\ Turn
    /\ CutAfter(CheckAndFix(Here, FlushLogs(lg), FALSE), i, p)
    /\ UNCHANGED <<pc, job, cleaning, isr, torn, over>>

\* Nothing matches, and both logs start at 0: everything is pulled again.
DropAll(r) ==
    IF r.ok /\ ~fix /\ CanResetBackendEnd(r.s, 0, 0) /\ ~Missing(r.l, 0)
    THEN Store(ResetBackendEnd(r.s, 0, 0)) /\ lg' = LogTruncate(r.l, 0, 0) /\ UNCHANGED fix
    ELSE Store(r.s) /\ lg' = r.l /\ fix' = (fix \/ ~r.ok)

CatchUpFromZero ==
    /\ pc = "idle" /\ tp.disabled /\ ~isr /\ lg.logStart = LogStart(0, 0, 0) /\ Turn
    /\ DropAll(CheckAndFix(Here, FlushLogs(lg), FALSE))
    /\ UNCHANGED <<pc, job, cleaning, isr, torn, over>>

\* A crash after the queue was cut: before the log is, after the number of the
\* segment was saved, or after the current file was removed.
CrashInCatchUp(i, p) ==
    /\ MatchAt(i, p) /\ ~fix /\ UNCHANGED over
    /\ LET l == FlushLogs(lg)
           saved == TruncateSave(l, i, p + 1)
       IN  /\ CanEndWith(Here, EntryAt(lg, i, p))
           /\ \E m \in {l} \cup (IF i < l.start THEN {saved, [saved EXCEPT !.cur = <<>>]} ELSE {}) :
                 CrashWith(EndWith(Here, EntryAt(lg, i, p)).d, m)

\* A full sync: the local log and queue are dropped and start where the leader's
\* do (s is the leader's log start with the offset and count of its first entry).
FullSync(s) ==
    /\ pc = "idle" /\ tp.disabled /\ ~isr /\ Turn
    /\ lg' = ResetLogWithStart(FlushLogs(lg), s)
    /\ Store(ResetBackendWithQueueStart(Here, s.off, s.off))
    /\ fix' = FALSE /\ over' = FALSE
    /\ torn' = (cleaning # NoCleaning \/ dq.writeEnd.file + 1 \in DOMAIN dq.fileMeta)
    /\ UNCHANGED <<pc, job, cleaning, isr>>

\* ... and a crash between the two resets.
CrashInFullSync(s) ==
    /\ pc = "idle" /\ tp.disabled /\ ~isr
    /\ CrashWith(dq, ResetLogWithStart(FlushLogs(lg), s)) /\ over' = FALSE

\* The replica has pulled all there is and says it is ready for the ISR.
CatchUpDone ==
    /\ pc = "idle" /\ tp.disabled /\ ~isr /\ ~fix /\ Turn
    /\ Entries(lg) # <<>> => LogEnd = dq.writeEnd.virt
    /\ Store(TopicFlush(Here)) /\ lg' = SwitchBuffer(lg, FALSE) /\ isr' = TRUE
    /\ UNCHANGED <<pc, job, cleaning, fix, torn, over>>

\* switchStateForMaster: flush, then on a leader that may write the queue end is
\* fixed (the error is not looked at) and writing enabled.
SwitchForMaster ==
    /\ pc = "idle" /\ isr /\ tp.disabled /\ Turn
    /\ LET r == FixEnd(TopicFlush(Here), SwitchBuffer(lg, TRUE), FALSE)
       IN  Store([r.s EXCEPT !.t.disabled = FALSE]) /\ lg' = r.l
    /\ UNCHANGED <<pc, job, cleaning, isr, fix, torn, over>>

\* ... and on any other replica: DisableForSlave.
SwitchForSlave ==
    /\ pc = "idle" /\ ~tp.disabled /\ Turn
    /\ LET s == TopicFlush(Here) IN Store([s EXCEPT !.t.disabled = TRUE])
    /\ lg' = SwitchBuffer(lg, FALSE)
    /\ UNCHANGED <<pc, job, cleaning, isr, fix, torn, over>>

(***************************************************************************)
(* Retention (doLogQClean): a dry run finds how far the queue may go, the  *)
(* log is cleaned up to the entry there, and then the queue.               *)
(***************************************************************************)
\* TryCleanOldData: the first messages of the files up to f are old, and f starts
\* below what every channel has confirmed and below maxClean (0: no such bound).
CleanBound(maxClean) == IF maxClean = 0 THEN tp.confirmed ELSE Min2(tp.confirmed, maxClean)

StartOf(f) ==
    LET start[g \in dq.queueStart.file .. f] ==
            IF g = dq.queueStart.file THEN dq.queueStart.virt ELSE start[g - 1] + Len(FileOf(dq, g - 1))
    IN  start[f]

OldUpTo(f, maxClean) ==
    /\ dq.queueStart.virt < tp.confirmed /\ f \in dq.queueStart.file .. dq.writeEnd.file
    /\ StartOf(f) < CleanBound(maxClean)

\* The log l is cleaned up to the entry at place `at`, the one that covers end.
CanCleanLog(f, l, at) ==
    /\ Up /\ cleaning = NoCleaning /\ OldUpTo(f, 0)
    /\ at # NoPlace /\ EntryAt(l, at[1], at[2]).off <= CleanStart(dq, f, tp.confirmed).virt
    /\ CanClean(l, at[1], at[2])

CleanLog(f) ==
    /\ \E l \in {FlushLogs(lg)} : \E at \in {SearchLog(l, "off", CleanStart(dq, f, tp.confirmed).virt)} :
          /\ CanCleanLog(f, l, at) /\ lg' = SaveLogStart(CleanSegments(l, at[1], at[2]))
          /\ cleaning' = EntryAt(l, at[1], at[2]).off
    /\ UNCHANGED <<dq, tp, pc, job, isr, fix, torn, over, left>>

CrashInCleanLog(f) ==
    \E l \in {FlushLogs(lg)} : \E at \in {SearchLog(l, "off", CleanStart(dq, f, tp.confirmed).virt)} :
        CanCleanLog(f, l, at) /\ CrashWith(dq, CleanSegments(l, at[1], at[2])) /\ UNCHANGED over

CanCleanQueue(f) ==
    /\ Up /\ cleaning # NoCleaning /\ OldUpTo(f, cleaning)
    /\ CleansTo(dq, f, CleanBound(cleaning))

CleanQueue(f) ==
    /\ CanCleanQueue(f)
    /\ LET s == CleanStart(dq, f, CleanBound(cleaning)) IN dq' = RemoveFilesBelow(SaveQueueStart(dq, s), s)
    /\ cleaning' = NoCleaning /\ over' = (over \/ cleaning = 0)
    /\ UNCHANGED <<lg, tp, pc, job, isr, fix, torn, left>>

CrashInCleanQueue(f) ==
    /\ CanCleanQueue(f) /\ over' = (over \/ cleaning = 0)
    /\ CrashWith(SaveQueueStart(dq, CleanStart(dq, f, CleanBound(cleaning))), lg)

\* Nothing may be cleaned in the end.
CleanNothing ==
    /\ Up /\ cleaning # NoCleaning /\ cleaning' = NoCleaning
    /\ UNCHANGED <<dq, lg, tp, pc, job, isr, fix, torn, over, left>>

Places == (0 .. lg.start) \X (0 .. LOGROTATE_NUM - 1)

Next ==
    \/ \E n \in 1 .. MaxBatch : BeginPut(n) \/ ReplicaPut(n)
    \/ PutOne
    \/ (\E waiting \in BOOLEAN : CommitPut(waiting)) \/ AbortPut \/ FailPut
    \/ FlushTopic \/ FlushLog \/ Consume
    \/ Crash \/ CrashInRoll \/ CrashInRotate
    \/ \E force, alone \in BOOLEAN : Restart(force, alone)
    \/ \E q \in Places : CatchUp(q[1], q[2]) \/ CrashInCatchUp(q[1], q[2])
    \/ \E s \in SyncStarts : FullSync(s) \/ CrashInFullSync(s)
    \/ CatchUpFromZero \/ CatchUpDone \/ SwitchForMaster \/ SwitchForSlave
    \/ \E f \in 0 .. dq.writeEnd.file :
          CleanLog(f) \/ CrashInCleanLog(f) \/ CleanQueue(f) \/ CrashInCleanQueue(f)
    \/ CleanNothing

Spec == Init /\ [][Next]_vars

(***************************************************************************)
(* Properties.                                                             *)
(***************************************************************************)
TypeOK ==
    /\ DiskQueueTypeOK /\ CommitLogTypeOK
    /\ pc \in {"idle", "put", "down", "failed"}
    /\ isr \in BOOLEAN /\ fix \in BOOLEAN /\ torn \in BOOLEAN
    /\ tp.chEnd \in Nat /\ tp.confirmed \in Nat

\* The ids of the commit log go up from entry to entry, and the last id in memory
\* is that of the last entry, whatever was rotated, truncated, cleaned or lost in a
\* crash: duplicate detection (IsCommitted) and AppendCommitLog rely on it.
LogIdsIncrease ==
    LET es == Entries(lg)
    IN  Up => /\ \A i \in 1 .. Len(es) - 1 : es[i].last < es[i + 1].id
              /\ es # <<>> => LastOf(es).id = lg.pLogID /\ LastOf(es).last <= lg.nLogID
              /\ lg.count = Len(lg.cur) + Len(lg.buf)

\* The messages of entry e are in the queue where the entry says.
Indexed(e) ==
    LET c == Cells(dq)
        first == e.off - dq.queueStart.virt
    IN  /\ first >= 0 /\ first + e.num <= Len(c)
        /\ \A i \in 1 .. e.num : c[first + i] = [id |-> e.id + i - 1, off |-> e.off + i - 1]

Sound == Up /\ ~torn /\ ~over /\ ~fix

\* Every commit log entry names data the queue holds, also after a crash at any
\* point, as long as the restart found neither damage it can see (fix) nor the
\* left-overs of an interrupted rotation, truncation or reset (torn).
LogMatchesQueue == Sound => \A i \in 1 .. Len(Entries(lg)) : Indexed(Entries(lg)[i])

\* A leader that accepts writes has a queue that ends exactly with its last commit
\* log entry, by offset and by count, so that the next write is indexed right.
LeaderEndsAgree ==
    (Sound /\ isr /\ ~tp.disabled /\ pc = "idle" /\ Entries(lg) # <<>>) =>
        /\ dq.writeEnd.virt = LogEnd
        /\ dq.writeEnd.cnt = EntryEndCnt(LastOf(Entries(lg)))

\* The first log entry on disk does not lie before the queue start on disk.
FirstEntryHasData ==
    LET onDisk == [lg EXCEPT !.logStart = lg.savedStart, !.start = lg.savedCur, !.buf = <<>>]
    IN  Entries(onDisk) # <<>> => Entries(onDisk)[1].off >= dq.metaExtra.virt

\* Retention removes log entries before the data they point to, so a restart in the
\* middle of a clean (doLogQClean) finds the data of every entry, as long as the
\* second half of every clean was bounded by what the first half decided.
LogCleanedFirst == ~torn /\ ~over => FirstEntryHasData

\* doLogQClean without that proviso: "we clean the commit log to make sure no access
\* from log index; after that, we clean the real queue data".  A bound of 0 is no
\* bound to TryCleanOldData, so data of entries that were kept is removed.
CleanKeepsIndexedData == ~torn => FirstEntryHasData

\* Channels are shown only messages that are committed and readable.
ChannelsSeeCommitted == Sound /\ isr => tp.chEnd <= tp.committed.virt /\ tp.chEnd <= dq.readEnd.virt

\* The searches by message count, id and offset find the entry that covers what
\* they look for, and the two ways to name a position in the log agree.
SearchFindsEntry ==
    Sound => \A q \in Places : Readable(lg, q[1], q[2]) =>
        LET e == EntryAt(lg, q[1], q[2])
        IN  /\ \A x \in e.off .. e.off + e.num - 1 : SearchLog(lg, "off", x) = q
            /\ \A x \in e.cnt .. EntryEndCnt(e) : SearchLog(lg, "cnt", x) = q
            /\ \A x \in e.id .. e.last : SearchLog(lg, "id", x) = q
            /\ ConvertToOffsetIndex(lg, ConvertToCountIndex(lg, q[1], q[2])) = q

\* The queue start never moves back, except to what a full sync dictates: the data
\* before it is gone.
QueueStartAdvances ==
    [][\/ dq'.queueStart.virt >= dq.queueStart.virt \/ torn \/ over
       \/ \E s \in SyncStarts : FullSync(s)]_vars
=============================================================================
