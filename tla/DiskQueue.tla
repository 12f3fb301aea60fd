------------------------------ MODULE DiskQueue ------------------------------
(***************************************************************************)
(* The disk queue of one topic partition: the writer of                    *)
(* nsqd/diskqueue_writer.go and the snapshot reader of                     *)
(* nsqd/disk_queue_snapshot.go.                                            *)
(*                                                                         *)
(* d.files, d.fileMeta, d.metaWriter and d.metaExtra are on disk; the rest *)
(* of the record is the memory of the process.  Every message has size 1,  *)
(* so a position in a file is a number of messages, but the virtual offset *)
(* (virt) and the message count (cnt) are kept apart as the code does.  A  *)
(* cell of a file records the message id and the virtual offset it was     *)
(* written for, which is what a reader of that offset expects to find.     *)
(***************************************************************************)
EXTENDS Integers, Sequences, FiniteSets, TLC

CONSTANT MaxPerFile      \* maxBytesPerFile

ASSUME MaxPerFileAssumption == MaxPerFile \in Nat \ {0}

VARIABLE dq

At(file, pos, virt, cnt) == [file |-> file, pos |-> pos, virt |-> virt, cnt |-> cnt]

Origin == At(0, 0, 0, 0)

\* What a truncate past the end of a file leaves behind: zero bytes.
Hole == [id |-> 0, off |-> -1]

EmptyQueue ==
    [files |-> <<>>, fileMeta |-> <<>>, metaWriter |-> Origin, metaExtra |-> Origin,
     writeEnd |-> Origin, readEnd |-> Origin, queueStart |-> Origin, needSync |-> FALSE, buf |-> <<>>]

FileOf(d, f) == IF f \in DOMAIN d.files THEN d.files[f] ELSE <<>>

\* File s after t is written at position p.
Overwrite(s, p, t) ==
    [i \in 1 .. (IF Len(s) > p + Len(t) THEN Len(s) ELSE p + Len(t)) |->
        IF i \in p + 1 .. p + Len(t) THEN t[i - p] ELSE IF i <= Len(s) THEN s[i] ELSE Hole]

\* A file truncated to p bytes; a shorter file is extended with zeroes.
Resized(s, p) == [i \in 1 .. p |-> IF i <= Len(s) THEN s[i] ELSE Hole]

\* bufferWriter.Flush of the first k cells.
Spill(d, k) ==
    IF k = 0 THEN d
    ELSE [d EXCEPT !.files = (d.writeEnd.file :> Overwrite(FileOf(d, d.writeEnd.file),
                                 d.writeEnd.pos - Len(d.buf), SubSeq(d.buf, 1, k))) @@ d.files,
                   !.buf = SubSeq(d.buf, k + 1, Len(d.buf))]

FlushBuffer(d) == [Spill(d, Len(d.buf)) EXCEPT !.readEnd = d.writeEnd]

Sync(d) == [FlushBuffer(d) EXCEPT !.metaWriter = d.writeEnd, !.needSync = FALSE]

SyncIfNeeded(d) == IF d.needSync THEN Sync(d) ELSE d

\* writeOne up to the point where a full file is synced.  ms is one message, or
\* the messages of a raw write.
WriteOne(d, ids) ==
    LET f == d.writeEnd.file
        cells == [i \in 1 .. Len(ids) |-> [id |-> ids[i], off |-> d.writeEnd.virt + i - 1]]
        w == [d EXCEPT !.files = (f :> FileOf(d, f)) @@ @, !.buf = @ \o cells,
                       !.writeEnd = At(f, @.pos + Len(ids), @.virt + Len(ids), @.cnt + Len(ids))]
    IN  [(IF w.writeEnd.pos >= MaxPerFile THEN Sync(w) ELSE w) EXCEPT !.needSync = TRUE]

FileFull(d) == d.writeEnd.pos >= MaxPerFile

SaveFileOffsetMeta(d) ==
    [d EXCEPT !.fileMeta = (d.writeEnd.file :> [cnt |-> d.writeEnd.cnt, end |-> d.writeEnd.virt]) @@ @]

NextFile(p) == [p EXCEPT !.file = @ + 1, !.pos = 0]

\* The rest of writeOne: the offset meta of the full file, then the next file.
Roll(d) ==
    LET e == NextFile(d.writeEnd)
    IN  [SaveFileOffsetMeta(d) EXCEPT !.writeEnd = e, !.readEnd = e]

\* truncateDiskQueueToWriteEnd: the file of the write end is cut there, and the
\* files that follow it without a gap are renamed away.
TruncateToWriteEnd(d) ==
    LET f == d.writeEnd.file
        after == {g \in DOMAIN d.files : g > f /\ \A h \in f + 1 .. g : h \in DOMAIN d.files}
        kept == (DOMAIN d.files \ after) \cup {f}
    IN  [d EXCEPT !.files = [g \in kept |-> IF g = f THEN Resized(FileOf(d, f), d.writeEnd.pos)
                                                      ELSE d.files[g]]]

CanRollbackMutant(d, offset, diffCnt) ==
    /\ offset >= d.queueStart.virt /\ d.writeEnd.cnt - diffCnt >= d.queueStart.cnt
    /\ offset <= d.writeEnd.virt

\* RollbackWriteV2 is refused below the queue start, past the end, and when the
\* write to take back has started a new file.
CanRollback(d, offset, diffCnt) ==
    /\ offset >= d.queueStart.virt /\ d.writeEnd.cnt - diffCnt >= d.queueStart.cnt
    /\ offset <= d.writeEnd.virt /\ offset >= d.writeEnd.virt - d.writeEnd.pos

RollbackWrite(d, offset, diffCnt) ==
    LET e == At(d.writeEnd.file, d.writeEnd.pos - (d.writeEnd.virt - offset), offset, d.writeEnd.cnt - diffCnt)
        s == SyncIfNeeded(d)
    IN  TruncateToWriteEnd([s EXCEPT !.writeEnd = e,
            !.readEnd = IF @.pos > e.pos \/ @.virt > e.virt THEN e ELSE @])

\* The virtual offset ResetWriteEndV2 takes for the start of file f, walking back
\* from the write end over the sizes of the files.
FileStart(d, f) ==
    LET start[g \in f .. d.writeEnd.file] ==
            IF g = d.writeEnd.file THEN d.writeEnd.virt - d.writeEnd.pos
            ELSE start[g + 1] - Len(FileOf(d, g))
    IN  start[f]

\* The file the walk stops at: the last one that starts at or before offset.
WalkFile(d, offset) ==
    LET fs == {f \in 0 .. d.writeEnd.file : offset >= FileStart(d, f)}
    IN  CHOOSE f \in fs : \A g \in fs : g <= f

CanResetWriteEnd(d, offset, totalCnt) ==
    /\ offset >= d.queueStart.virt /\ totalCnt >= d.queueStart.cnt /\ offset <= d.writeEnd.virt
    /\ offset # 0 =>
         \E f \in 0 .. d.writeEnd.file :
            offset >= FileStart(d, f) /\ \A g \in f .. d.writeEnd.file - 1 : g \in DOMAIN d.files

EndAt(d, end) == TruncateToWriteEnd([d EXCEPT !.writeEnd = end, !.readEnd = end])

ResetWriteEndIn(d, f, offset, totalCnt) ==
    EndAt(d, IF offset = 0 THEN d.queueStart ELSE At(f, offset - FileStart(d, f), offset, totalCnt))

ResetWriteEnd(d, offset, totalCnt) ==
    ResetWriteEndIn(SyncIfNeeded(d), WalkFile(d, offset), offset, totalCnt)

\* ResetWriteWithQueueStart: every file goes, and the queue starts again two files
\* further on at the given virtual offset and count.  metaWriter is not persisted.
ResetWithQueueStart(d, virt, cnt) ==
    LET s == At(d.writeEnd.file + 2, 0, virt, cnt)
        c == SaveFileOffsetMeta(FlushBuffer(d))
    IN  [c EXCEPT !.files = [f \in {g \in DOMAIN @ : g > d.writeEnd.file} |-> @[f]],
                  !.queueStart = s, !.writeEnd = s, !.readEnd = s, !.metaExtra = s]

\* CleanOldDataByRetention, for a clean end in file cleanFile (first half): the
\* file the queue would start with, and whether anything is cleaned.
CleanFile(d, cleanFile) == IF cleanFile >= d.readEnd.file - 1 THEN d.readEnd.file - 1 ELSE cleanFile

CleansTo(d, cleanFile, maxClean) ==
    LET f == CleanFile(d, cleanFile)
    IN  f > 0 /\ (f - 1) \in DOMAIN d.fileMeta /\ (maxClean = 0 \/ d.fileMeta[f - 1].end <= maxClean)

\* The new queue start; the old one when nothing is cleaned, also on an error.
CleanStart(d, cleanFile, maxClean) ==
    LET f == CleanFile(d, cleanFile)
    IN  IF CleansTo(d, cleanFile, maxClean) THEN At(f, 0, d.fileMeta[f - 1].end, d.fileMeta[f - 1].cnt)
        ELSE d.queueStart

\* (second half): the start is saved before the files below it are removed.
SaveQueueStartMutant(d, start) == [d EXCEPT !.queueStart = start]

SaveQueueStart(d, start) == [d EXCEPT !.queueStart = start, !.metaExtra = start]

RemoveFilesBelow(d, start) == [d EXCEPT !.files = [f \in {g \in DOMAIN @ : g >= start.file} |-> @[f]]]

\* newDiskQueueWriter: the write end from meta.writer, the start from meta.extra.
Reopen(d) ==
    [d EXCEPT !.writeEnd = d.metaWriter, !.readEnd = d.metaWriter, !.queueStart = d.metaExtra,
              !.needSync = FALSE, !.buf = <<>>]

UpTo(s, p) == SubSeq(s, 1, IF p < Len(s) THEN p ELSE Len(s))

\* What a snapshot reads from the queue start to the write end: it steps from file
\* to file by their sizes, and in the last file up to the end it was given.
Cells(d) ==
    LET full == FlushBuffer(d)
        from[f \in d.queueStart.file .. d.writeEnd.file + 1] ==
            IF f > d.writeEnd.file THEN <<>>
            ELSE (IF f = d.writeEnd.file THEN UpTo(FileOf(full, f), d.writeEnd.pos) ELSE FileOf(full, f))
                    \o from[f + 1]
    IN  IF d.queueStart.file > d.writeEnd.file THEN <<>> ELSE from[d.queueStart.file]

\* meta.writer names a place the files really have.
MetaTrue(d) ==
    LET w == d.metaWriter
    IN  IF w.pos > 0
        THEN Len(FileOf(d, w.file)) >= w.pos /\ FileOf(d, w.file)[w.pos].off = w.virt - 1
        ELSE \/ w.virt = d.metaExtra.virt /\ w.file = d.metaExtra.file
             \/ /\ w.file > 0 /\ FileOf(d, w.file - 1) # <<>>
                /\ FileOf(d, w.file - 1)[Len(FileOf(d, w.file - 1))].off = w.virt - 1

DiskQueueTypeOK ==
    /\ \A f \in DOMAIN dq.files : f \in Nat /\ \A i \in 1 .. Len(dq.files[f]) : dq.files[f][i].id \in Nat
    /\ \A p \in {dq.metaWriter, dq.metaExtra, dq.writeEnd, dq.readEnd, dq.queueStart} :
          p.file \in Nat /\ p.pos \in Nat /\ p.virt \in Nat /\ p.cnt \in Nat
    /\ dq.needSync \in BOOLEAN
=============================================================================
