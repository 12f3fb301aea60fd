------------------------------ MODULE DelayQueue ------------------------------
(***************************************************************************)
(* The delayed queue of a topic partition (nsqd/delay_queue.go) and the    *)
(* parts that use it.  A client that requeues a message for long has a     *)
(* copy of it put in the delayed queue (internalRequeueToEnd of            *)
(* nsqdserver/context.go), after which the original is confirmed; the scan *)
(* of the channel (nsqd/channel.go) peeks the copies that are due and      *)
(* delivers them under the id of the original; finishing one deletes it    *)
(* from the kv store; and the replica is told what the leader has consumed *)
(* (consistence/nsqd_coordinator_cluster_write.go).                        *)
(*                                                                         *)
(* Messages of the partition are numbered, and so are the copies, by the   *)
(* id the delayed queue gives them.  orig and ts are the original and the  *)
(* due time of a copy.  A kv store has, under the key of a copy, the bytes *)
(* of a message: those of the copy, or whatever the put buffer held when   *)
(* the copy came as raw data.                                              *)
(*                                                                         *)
(* The channel is the delivery of nsqd/channel.go with the detail that the *)
(* module Channel has taken out: unread is what the reader has still to    *)
(* read, travelling the messages between the reader, the requeue channel   *)
(* and the connections, confirmed what the backend will not give again.    *)
(* finished and emptied are history: the messages a client has finished,   *)
(* and those whose copies the operator emptied.                            *)
(***************************************************************************)
EXTENDS Integers, Sequences, FiniteSets

CONSTANTS
    NumMsgs,             \* messages of the partition
    MaxCopies,           \* ids of the delayed queue
    MaxWaitingDelayed,   \* copies a scan peeks at most
    Hour,                \* how far emptying sets the oldest time ahead
    Instances            \* how many of each to go through (see below)

\* An instance has `msgs` messages to read, a clock that stops at `time`, and at most
\* `copies` requeues to the end, `updates` reports to the replica, `admin` resets of
\* the reader and calls of the operator, and `faults` lost calls and departures of
\* the replica.
ASSUME DelayQueueAssumption ==
    /\ NumMsgs \in Nat /\ MaxCopies \in Nat
    /\ MaxWaitingDelayed \in Nat \ {0} /\ Hour \in Nat
    /\ Instances \subseteq [msgs : 0 .. NumMsgs, time : Nat, copies : Nat, updates : Nat, admin : Nat, faults : Nat]

VARIABLES
    now, next, orig, ts,           \* the clock; the copies put so far
    leader, replica,               \* the kv stores
    queue, received, inISR,        \* the queue on disk, how much of it the replica has
    unread, travelling, confirmed, inFlight, waitingRequeueChanMsgs,
    deferredFromDelay, delayedConfirmedMsgs,
    scan, req, update, drain,      \* the threads that work on them
    finished, emptied, undisturbed, left

copies == <<next, orig, ts>>
disk == <<queue, received, inISR>>
channel == <<unread, travelling, confirmed, inFlight, waitingRequeueChanMsgs, deferredFromDelay, delayedConfirmedMsgs>>
history == <<finished, emptied, undisturbed>>
vars == <<now, copies, leader, replica, disk, channel, scan, req, update, drain, history, left>>

Msgs == 1 .. NumMsgs
Copies == 1 .. MaxCopies

Absent == -1        \* no such key, no such entry of the in flight map
Empty == 0          \* the bytes of a buffer nothing was written to
Original == 0       \* a message read from the partition, not from the delayed queue

Spend(what) == left[what] > 0 /\ left' = [left EXCEPT ![what] = @ - 1]

-----------------------------------------------------------------------------
\* The kv store.
Stored(s) == {c \in Copies : s.val[c] # Absent}

EarlierKey(c, t, id) == ts[c] < t \/ (ts[c] = t /\ c < id)

Least(C) == CHOOSE c \in C : \A d \in C \ {c} : EarlierKey(c, ts[d], d)

PutMutant(s, c, m, t, bytes) ==      \* a second copy of a message is not counted
    [s EXCEPT !.val[c] = bytes, !.index = @ \cup {m}, !.cnt = IF m \in s.index THEN @ ELSE @ + 1,
              !.oldest = IF @ = 0 \/ t < @ THEN t ELSE @]

\* put: the key of c, a copy of m due at t, gets the bytes of the put buffer, and is
\* indexed under m instead of what its bytes had been indexed under; a new key is
\* counted.
Put(s, c, m, t, bytes) ==
    [s EXCEPT !.val[c] = bytes,
              !.index = IF s.val[c] = bytes THEN @
                        ELSE (@ \ {orig[d] : d \in {s.val[c]} \cap Copies}) \cup {m},
              !.cnt = IF s.val[c] = Absent THEN @ + 1 ELSE @,
              !.oldest = IF @ = 0 \/ t < @ THEN t ELSE @]

\* deleteBucketKey on each of the keys, errors ignored: a key whose bytes do not
\* decode is deleted and stays indexed and counted.
Delete(s, keys) ==
    LET decoded == {c \in keys \cap Stored(s) : s.val[c] # Empty}
    IN  [s EXCEPT !.val = [c \in Copies |-> IF c \in keys THEN Absent ELSE s.val[c]],
                  !.index = @ \ {orig[s.val[c]] : c \in decoded},
                  !.cnt = IF @ > Cardinality(decoded) THEN @ - Cardinality(decoded) ELSE 0]

ConfirmedMessageMutant(s, c) ==      \* deletes by the id of the original
    Delete(s, {d \in Stored(s) : orig[d] = orig[c]})

ConfirmedMessageUncheckedMutant(s, c) ==      \* a key that is not found is counted down
    [Delete(s, {c}) EXCEPT !.cnt = s.cnt - 1]

\* One transaction, rolled back by an error.
ConfirmedMessage(s, c) == IF s.val[c] \in {Absent, Empty} THEN s ELSE Delete(s, {c})

EmptyDelayedUntilMutant(s, t, id) ==      \* the first key of the leader is deleted as well
    [Delete(s, {c \in Stored(s) : EarlierKey(c, t, id + 1)}) EXCEPT !.oldest = t]

EmptyDelayedUntil(s, t, id) == [Delete(s, {c \in Stored(s) : EarlierKey(c, t, id)}) EXCEPT !.oldest = t]

EmptyDelayedChannel(s) == [Delete(s, Stored(s)) EXCEPT !.oldest = now + Hour]

\* The keys from which a peek takes messages; the oldest key is cached.
Due(s) ==
    LET due == {c \in Stored(s) : ts[c] <= now}
    IN  {c \in due : Cardinality({d \in due : EarlierKey(d, ts[c], c)}) < MaxWaitingDelayed}

Decoded(s, keys) == {s.val[c] : c \in keys} \ {Empty}

\* What the leader tells of its store: the count, and later the first key.
UpdateConsumedState(s, u) ==
    LET t == IF u.key = Absent THEN s ELSE EmptyDelayedUntil(s, ts[u.key], u.key)
    IN  IF u.cnt = 0 THEN EmptyDelayedChannel(t) ELSE t

IsChannelMessageDelayed(m) == m \in leader.index

-----------------------------------------------------------------------------
\* The channel on the leader.
Travelling == [msg : Msgs, copy : {Original} \cup Copies, at : {"queued", "passed", "delayed"}]

Queued(m, c) == [msg |-> m, copy |-> c, at |-> "queued"]

Moved(i, at) == (travelling \ {i}) \cup {[i EXCEPT !.at = at]}

\* The reader gives the next message to the pump.
Read(m) ==
    /\ m \in unread /\ unread' = unread \ {m}
    /\ travelling' = travelling \cup {Queued(m, Original)}
    /\ UNCHANGED <<now, copies, leader, replica, disk, confirmed, inFlight, waitingRequeueChanMsgs, deferredFromDelay,
                   delayedConfirmedMsgs, scan, req, update, drain, history, left>>

\* A connection takes a message: an original that is in the delayed queue is to be
\* confirmed without being sent ...
FindDelayed(i) ==
    /\ i \in travelling /\ i.at = "queued" /\ i.copy = Original /\ IsChannelMessageDelayed(i.msg)
    /\ travelling' = Moved(i, "delayed")
    /\ UNCHANGED <<now, copies, leader, replica, disk, unread, confirmed, inFlight, waitingRequeueChanMsgs,
                   deferredFromDelay, delayedConfirmedMsgs, scan, req, update, drain, history, left>>

ConfirmDelayed(i) ==
    /\ i \in travelling /\ i.at = "delayed"
    /\ travelling' = travelling \ {i} /\ confirmed' = confirmed \cup {i.msg}
    /\ waitingRequeueChanMsgs' = waitingRequeueChanMsgs \ {i.msg}
    /\ UNCHANGED <<now, copies, leader, replica, disk, unread, inFlight, deferredFromDelay, delayedConfirmedMsgs, scan,
                   req, update, drain, history, left>>

\* ... one that is confirmed is dropped ...
DropConfirmed(i) ==
    /\ i \in travelling /\ i.at = "queued" /\ i.copy = Original /\ ~IsChannelMessageDelayed(i.msg)
    /\ i.msg \in confirmed
    /\ travelling' = travelling \ {i} /\ waitingRequeueChanMsgs' = waitingRequeueChanMsgs \ {i.msg}
    /\ UNCHANGED <<now, copies, leader, replica, disk, unread, confirmed, inFlight, deferredFromDelay,
                   delayedConfirmedMsgs, scan, req, update, drain, history, left>>

\* ... and any other is sent, unless its id is in flight by then.
Pass(i) ==
    /\ i \in travelling /\ i.at = "queued"
    /\ i.copy = Original => ~IsChannelMessageDelayed(i.msg) /\ i.msg \notin confirmed
    /\ travelling' = Moved(i, "passed")
    /\ UNCHANGED <<now, copies, leader, replica, disk, unread, confirmed, inFlight, waitingRequeueChanMsgs,
                   deferredFromDelay, delayedConfirmedMsgs, scan, req, update, drain, history, left>>

StartInFlight(i) ==
    /\ i \in travelling /\ i.at = "passed" /\ travelling' = travelling \ {i}
    /\ IF inFlight[i.msg] = Absent
       THEN /\ inFlight' = [inFlight EXCEPT ![i.msg] = i.copy]
            /\ waitingRequeueChanMsgs' = waitingRequeueChanMsgs \ {i.msg}
       ELSE UNCHANGED <<inFlight, waitingRequeueChanMsgs>>
    /\ UNCHANGED <<now, copies, leader, replica, disk, unread, confirmed, deferredFromDelay, delayedConfirmedMsgs, scan,
                   req, update, drain, history, left>>

FinishLocalMutant(m) ==      \* the counter of delivered copies is not decremented
    /\ inFlight[m] # Absent /\ inFlight' = [inFlight EXCEPT ![m] = Absent]
    /\ IF inFlight[m] = Original
       THEN /\ confirmed' = confirmed \cup {m}
            /\ UNCHANGED <<leader, delayedConfirmedMsgs, deferredFromDelay>>
       ELSE /\ leader' = ConfirmedMessage(leader, inFlight[m])
            /\ delayedConfirmedMsgs' = delayedConfirmedMsgs \cup {m}
            /\ UNCHANGED <<confirmed, deferredFromDelay>>

\* FinishMessageForce: an original is confirmed, a copy deleted from the store.
FinishLocal(m) ==
    /\ inFlight[m] # Absent /\ inFlight' = [inFlight EXCEPT ![m] = Absent]
    /\ IF inFlight[m] = Original
       THEN /\ confirmed' = confirmed \cup {m}
            /\ UNCHANGED <<leader, delayedConfirmedMsgs, deferredFromDelay>>
       ELSE /\ leader' = ConfirmedMessage(leader, inFlight[m])
            /\ delayedConfirmedMsgs' = delayedConfirmedMsgs \cup {m}
            /\ deferredFromDelay' = deferredFromDelay - 1
            /\ UNCHANGED confirmed

Finish(m) ==
    /\ FinishLocal(m) /\ finished' = finished \cup {m}
    /\ UNCHANGED <<now, copies, replica, disk, unread, travelling, waitingRequeueChanMsgs, scan, req, update, drain,
                   emptied, undisturbed, left>>

\* A message times out, or a deferred one is due: it goes back to the requeue channel.
Timeout(m) ==
    /\ inFlight[m] # Absent /\ inFlight' = [inFlight EXCEPT ![m] = Absent]
    /\ travelling' = travelling \cup {Queued(m, inFlight[m])}
    /\ waitingRequeueChanMsgs' = waitingRequeueChanMsgs \cup {m}
    /\ req' = [req EXCEPT ![m].owns = FALSE]
    /\ UNCHANGED <<now, copies, leader, replica, disk, unread, confirmed, deferredFromDelay, delayedConfirmedMsgs, scan,
                   update, drain, history, left>>

-----------------------------------------------------------------------------
\* A message is requeued to the end: by its client, or by the scan when it blocks
\* the channel.  The requester has the message in flight when it decides, ...
Requester == [at : {"idle", "begun", "written", "synced", "failed"}, ts : Nat, copy : {Absent} \cup Copies, owns : BOOLEAN]

NoRequest == [at |-> "idle", ts |-> 0, copy |-> Absent, owns |-> FALSE]

RequeueToEnd(m, t) ==
    /\ inFlight[m] # Absent /\ req[m].at = "idle" /\ t \in now + 1 .. left.time
    /\ Spend("copies") /\ next + Cardinality({n \in Msgs : req[n].at = "begun"}) <= MaxCopies
    /\ req' = [req EXCEPT ![m] = [at |-> "begun", ts |-> t, copy |-> Absent, owns |-> TRUE]]
    /\ UNCHANGED <<now, copies, leader, replica, disk, channel, scan, update, drain, history>>

\* ... puts a copy in the queue and the store of the leader, ...
PutDelayMessage(m) ==
    /\ req[m].at = "begun" /\ \A n \in Msgs : req[n].at # "written"
    /\ next' = next + 1 /\ orig' = [orig EXCEPT ![next] = m] /\ ts' = [ts EXCEPT ![next] = req[m].ts]
    /\ leader' = Put(leader, next, m, req[m].ts, next)
    /\ queue' = Append(queue, next)
    /\ req' = [req EXCEPT ![m].at = "written", ![m].copy = next]
    /\ UNCHANGED <<now, replica, received, inISR, channel, scan, update, drain, history, left>>

\* ... has it written by the replica, if that is in step, ...
PutOnReplica(c) == [Put(replica, c, orig[c], ts[c], c) EXCEPT !.buf = c]

Replicate(m) ==
    /\ req[m].at = "written" /\ req' = [req EXCEPT ![m].at = "synced"]
    /\ IF inISR
       THEN replica' = PutOnReplica(req[m].copy) /\ received' = Len(queue)
       ELSE UNCHANGED <<replica, received>>
    /\ UNCHANGED <<now, copies, leader, queue, inISR, channel, scan, update, drain, history, left>>

\* ... or, when the call or its answer is lost, goes on without the replica or takes
\* the copy back from the queue, not from the store, ...
ReplicateFails(m, applied, alone) ==
    /\ req[m].at = "written" /\ inISR /\ Spend("faults")
    /\ replica' = IF applied THEN PutOnReplica(req[m].copy) ELSE replica
    /\ req' = [req EXCEPT ![m].at = IF alone THEN "synced" ELSE "failed"]
    /\ queue' = IF alone THEN queue ELSE SubSeq(queue, 1, Len(queue) - 1)
    /\ inISR' = ~(applied \/ alone)
    /\ UNCHANGED <<now, copies, leader, received, channel, scan, update, drain, history>>

\* ... and finishes the message.  It may have timed out, and be in flight again to
\* another client.
FinishRequeued(m) ==
    /\ req[m].at = "synced" /\ req' = [req EXCEPT ![m] = NoRequest]
    /\ FinishLocal(m)
    /\ UNCHANGED <<now, copies, replica, disk, unread, travelling, waitingRequeueChanMsgs, scan, update, drain, history,
                   left>>

NotInFlight(m) ==
    /\ req[m].at = "synced" /\ req' = [req EXCEPT ![m] = NoRequest]
    /\ inFlight[m] = Absent \/ ~req[m].owns
    /\ UNCHANGED <<now, copies, leader, replica, disk, channel, scan, update, drain, history, left>>

\* A message that could not be put is requeued to memory, deferred in flight.
RequeueToMemory(m) ==
    /\ req[m].at = "failed" /\ req' = [req EXCEPT ![m] = NoRequest]
    /\ UNCHANGED <<now, copies, leader, replica, disk, channel, scan, update, drain, history, left>>

-----------------------------------------------------------------------------
\* The scan of the channel looks for due copies when none it has delivered is left:
\* it reads the keys, unless the oldest time it has cached is still to come, ...  The
\* scan loop has one worker at a time on a channel.
NoScan == [at |-> "idle", found |-> {}, oldest |-> 0]

Peek ==
    /\ scan.at = "idle" /\ deferredFromDelay <= 0
    /\ leader.oldest <= now
    /\ scan' = [at |-> "peeked", found |-> Decoded(leader, Due(leader)),
                oldest |-> IF Stored(leader) = {} THEN 0 ELSE ts[Least(Stored(leader))]]
    /\ UNCHANGED <<now, copies, leader, replica, disk, channel, req, update, drain, history, left>>

\* ... caches the time of the first, ...
CacheOldest ==
    /\ scan.at = "peeked" /\ scan' = [scan EXCEPT !.at = "adding"]
    /\ leader' = [leader EXCEPT !.oldest = IF scan.oldest > 0 THEN scan.oldest ELSE @]
    /\ UNCHANGED <<now, copies, replica, disk, channel, req, update, drain, history, left>>

\* ... requeues those whose original is not waiting, in flight or just finished, ...
AddPeeked ==
    /\ scan.at = "adding" /\ scan.found # {}
    /\ LET c == Least(scan.found)
           m == orig[c]
       IN  /\ scan' = [scan EXCEPT !.found = @ \ {c}]
           /\ IF m \in delayedConfirmedMsgs \/ inFlight[m] # Absent \/ m \in waitingRequeueChanMsgs
              THEN UNCHANGED <<travelling, waitingRequeueChanMsgs, deferredFromDelay>>
              ELSE /\ travelling' = travelling \cup {Queued(m, c)}
                   /\ waitingRequeueChanMsgs' = waitingRequeueChanMsgs \cup {m}
                   /\ deferredFromDelay' = deferredFromDelay + 1
    /\ UNCHANGED <<now, copies, leader, replica, disk, unread, confirmed, inFlight, delayedConfirmedMsgs, req, update,
                   drain, history, left>>

EndScanMutant ==      \* does not forget it
    /\ scan.at = "adding" /\ scan.found = {} /\ scan' = NoScan
    /\ UNCHANGED <<now, copies, leader, replica, disk, channel, req, update, drain, history, left>>

\* ... and forgets what was finished meanwhile.
EndScan ==
    /\ \/ scan.at = "adding" /\ scan.found = {}
       \/ scan.at = "idle" /\ deferredFromDelay <= 0 /\ leader.oldest > now
    /\ scan' = NoScan /\ delayedConfirmedMsgs' = {}
    /\ UNCHANGED <<now, copies, leader, replica, disk, unread, travelling, confirmed, inFlight, waitingRequeueChanMsgs,
                   deferredFromDelay, req, update, drain, history, left>>

-----------------------------------------------------------------------------
\* The operator empties the delayed queue of the channel.
EmptyChannel ==
    /\ Spend("admin") /\ undisturbed' = FALSE
    /\ leader' = EmptyDelayedChannel(leader)
    /\ emptied' = emptied \cup {orig[c] : c \in Stored(leader)}
    /\ UNCHANGED <<now, copies, replica, disk, channel, scan, req, update, drain, finished>>

\* The reader is reset to the confirmed position, with or without the confirmed
\* intervals above it: the channel is drained of what is in flight, ...
Confirmed(all) == {m \in all : 1 .. m \subseteq all}

DrainFlight(clearConfirmed) ==
    /\ drain = "idle" /\ drain' = "flight" /\ Spend("admin") /\ undisturbed' = FALSE
    /\ inFlight' = [m \in Msgs |-> Absent]
    /\ confirmed' = IF clearConfirmed THEN Confirmed(confirmed) ELSE confirmed
    /\ UNCHANGED <<now, copies, leader, replica, disk, unread, travelling, waitingRequeueChanMsgs, deferredFromDelay,
                   delayedConfirmedMsgs, scan, req, update, finished, emptied>>

\* ... of what is queued, not of what a connection has taken, ...
DrainQueued ==
    /\ drain = "flight" /\ drain' = "queued"
    /\ travelling' = {i \in travelling : i.at # "queued"}
    /\ UNCHANGED <<now, copies, leader, replica, disk, unread, confirmed, inFlight, waitingRequeueChanMsgs,
                   deferredFromDelay, delayedConfirmedMsgs, scan, req, update, history, left>>

\* ... and of what is waiting, and reads again.
DrainWaiting ==
    /\ drain = "queued" /\ drain' = "idle"
    /\ waitingRequeueChanMsgs' = {} /\ deferredFromDelay' = 0
    /\ unread' = 1 .. left.msgs \ Confirmed(confirmed)
    /\ UNCHANGED <<now, copies, leader, replica, disk, travelling, confirmed, inFlight, delayedConfirmedMsgs, scan, req,
                   update, history, left>>

-----------------------------------------------------------------------------
\* After a finished copy, and from time to time, the leader tells the replica what it
\* has consumed.  It reads the count, then the first key; held is what it had in the
\* store all the while.
NoUpdate == [at |-> "idle", cnt |-> 0, key |-> Absent, held |-> {}]

ReadCount ==
    /\ update.at = "idle" /\ Spend("updates")
    /\ update' = [at |-> "counted", cnt |-> leader.cnt, key |-> Absent, held |-> Stored(leader)]
    /\ UNCHANGED <<now, copies, leader, replica, disk, channel, scan, req, drain, history>>

ReadKey ==
    /\ update.at = "counted"
    /\ update' = [update EXCEPT !.at = "sent", !.held = @ \cap Stored(leader),
                                !.key = IF Stored(leader) = {} THEN Absent ELSE Least(Stored(leader))]
    /\ UNCHANGED <<now, copies, leader, replica, disk, channel, scan, req, drain, history, left>>

\* The call arrives late or not at all, and is refused by a replica out of step.
UpdateDelayedQueueState ==
    /\ update.at = "sent" /\ inISR /\ update' = NoUpdate
    /\ replica' = UpdateConsumedState(replica, update)
    /\ UNCHANGED <<now, copies, leader, disk, channel, scan, req, drain, history, left>>

LoseUpdate ==
    /\ update.at = "sent" /\ update' = NoUpdate
    /\ UNCHANGED <<now, copies, leader, replica, disk, channel, scan, req, drain, history, left>>

-----------------------------------------------------------------------------
\* The replica falls out of step, ...
Leave ==
    /\ inISR /\ inISR' = FALSE /\ Spend("faults")
    /\ \A m \in Msgs : req[m].at # "written"
    /\ UNCHANGED <<now, copies, leader, replica, queue, received, channel, scan, req, update, drain, history>>

\* ... and catches up: it puts, as raw data, the messages its queue lacks - each gets
\* the bytes of the last message put here as a message - and, when its log had to
\* start anew, replaces the store by a backup of the leader's.
PutRawDataOnReplica(s, missing) ==
    [s EXCEPT !.val = [c \in Copies |-> IF c \in missing THEN s.buf ELSE s.val[c]],
              !.index = @ \cup {orig[c] : c \in missing},
              !.cnt = @ + Cardinality(missing \ Stored(s)),
              !.oldest = IF missing # {} /\ (@ = 0 \/ ts[Least(missing)] < @) THEN ts[Least(missing)] ELSE @]

Missing == {queue[i] : i \in received + 1 .. Len(queue)}

reOpenStore(s) == [s EXCEPT !.oldest = 0]

RestoreKVStoreFrom(s, backup) == [reOpenStore(backup) EXCEPT !.buf = s.buf]

pullDelayedQueueFromLeader == RestoreKVStoreFrom(replica, leader)

CatchUp(fullSync) ==
    /\ ~inISR /\ inISR' = TRUE /\ received' = Len(queue)
    /\ \A m \in Msgs : req[m].at # "written"
    /\ replica' = IF fullSync THEN pullDelayedQueueFromLeader ELSE PutRawDataOnReplica(replica, Missing)
    /\ UNCHANGED <<now, copies, leader, queue, channel, scan, req, update, drain, history, left>>

\* A requeue is over long before its message is due.
Tick ==
    /\ now < left.time /\ now' = now + 1
    /\ \A m \in Msgs : req[m].at # "idle" => req[m].ts > now + 1
    /\ UNCHANGED <<copies, leader, replica, disk, channel, scan, req, update, drain, history, left>>

-----------------------------------------------------------------------------
NewStore == [val |-> [c \in Copies |-> Absent], index |-> {}, cnt |-> 0, oldest |-> 0, buf |-> Empty]

Init ==
    /\ now = 0 /\ next = 1 /\ orig = [c \in Copies |-> 0] /\ ts = [c \in Copies |-> 0]
    /\ leader = NewStore /\ replica = NewStore /\ queue = <<>> /\ received = 0 /\ inISR = TRUE
    /\ left \in Instances /\ unread = 1 .. left.msgs /\ travelling = {} /\ confirmed = {} /\ inFlight = [m \in Msgs |-> Absent]
    /\ waitingRequeueChanMsgs = {} /\ deferredFromDelay = 0 /\ delayedConfirmedMsgs = {}
    /\ scan = NoScan /\ req = [m \in Msgs |-> NoRequest] /\ update = NoUpdate /\ drain = "idle"
    /\ finished = {} /\ emptied = {} /\ undisturbed = TRUE

Deliver ==
    \/ \E m \in Msgs : Read(m) \/ Finish(m) \/ Timeout(m)
    \/ \E i \in travelling : FindDelayed(i) \/ ConfirmDelayed(i) \/ DropConfirmed(i) \/ Pass(i) \/ StartInFlight(i)

Requeue ==
    \E m \in Msgs :
        \/ \E t \in 1 .. left.time : RequeueToEnd(m, t)
        \/ PutDelayMessage(m) \/ Replicate(m) \/ FinishRequeued(m) \/ NotInFlight(m) \/ RequeueToMemory(m)
        \/ \E applied, alone \in BOOLEAN : ReplicateFails(m, applied, alone)

Scan == Peek \/ CacheOldest \/ AddPeeked \/ EndScan

Admin == EmptyChannel \/ (\E clear \in BOOLEAN : DrainFlight(clear)) \/ DrainQueued \/ DrainWaiting

Sync ==
    \/ ReadCount \/ ReadKey \/ UpdateDelayedQueueState \/ LoseUpdate
    \/ Leave \/ \E full \in BOOLEAN : CatchUp(full)

Next == Deliver \/ Requeue \/ Scan \/ Admin \/ Sync \/ Tick

Spec == Init /\ [][Next]_vars

\* Goroutines go on: the reader, the connections, the requesters and the scan take
\* their steps, the clock advances, and a client that is sent a message time and
\* again finishes it.
Connection(m) ==
    \E i \in travelling :
        i.msg = m /\ (FindDelayed(i) \/ ConfirmDelayed(i) \/ DropConfirmed(i) \/ Pass(i) \/ StartInFlight(i))

RequesterStep(m) ==
    PutDelayMessage(m) \/ Replicate(m) \/ FinishRequeued(m) \/ NotInFlight(m) \/ RequeueToMemory(m)

FairSpec ==
    /\ Spec /\ WF_vars(Scan) /\ WF_vars(Tick) /\ WF_vars(DrainQueued \/ DrainWaiting)
    /\ \A m \in Msgs : WF_vars(Read(m)) /\ WF_vars(Connection(m)) /\ WF_vars(RequesterStep(m)) /\ SF_vars(Finish(m))

-----------------------------------------------------------------------------
Store == [val : [Copies -> {Absent, Empty} \cup Copies], index : SUBSET Msgs, cnt : Nat, oldest : Nat,
          buf : {Empty} \cup Copies]

\* The state of the threads, the channel and the stores keeps its shape.
TypeOK ==
    /\ now \in Nat /\ next \in 1 .. MaxCopies + 1 /\ orig \in [Copies -> {0} \cup Msgs] /\ ts \in [Copies -> Nat]
    /\ leader \in Store /\ replica \in Store
    /\ queue \in Seq(Copies) /\ received \in 0 .. Len(queue) /\ inISR \in BOOLEAN
    /\ unread \subseteq Msgs /\ travelling \subseteq Travelling /\ confirmed \subseteq Msgs
    /\ inFlight \in [Msgs -> {Absent, Original} \cup Copies] /\ waitingRequeueChanMsgs \subseteq Msgs
    /\ deferredFromDelay \in Int /\ delayedConfirmedMsgs \subseteq Msgs
    /\ scan \in [at : {"idle", "peeked", "adding"}, found : SUBSET Copies, oldest : Nat]
    /\ req \in [Msgs -> Requester]
    /\ update \in [at : {"idle", "counted", "sent"}, cnt : Nat, key : {Absent} \cup Copies, held : SUBSET Copies]
    /\ drain \in {"idle", "flight", "queued"} /\ finished \subseteq Msgs /\ emptied \subseteq Msgs
    /\ undisturbed \in BOOLEAN
    /\ left \in [msgs : 0 .. NumMsgs, time : Nat, copies : Nat, updates : Nat, admin : Nat, faults : Nat]

\* The counter a store keeps beside its messages is never too low: on the leader it is
\* their number, and on a replica, where a message put as raw data may be deleted and
\* stay counted, at least that.  A count of zero is what makes UpdateConsumedState
\* empty the channel on a replica.
CountCovers ==
    /\ leader.cnt = Cardinality(Stored(leader))
    /\ replica.cnt >= Cardinality(Stored(replica))

\* A message the channel has confirmed, so that the reader will not give it again, has
\* been finished by a client, or has a copy in the store of the leader, unless the
\* operator emptied it: neither requeueing to the end, with the copy put, the answer
\* of the replica and the FIN in three steps that a timeout, a reset or a failure may
\* come between, nor ShouldWaitDelayed, which drops what is indexed, loses a message.
DelayedKept ==
    \A m \in confirmed : m \in finished \cup emptied \/ \E c \in Stored(leader) : orig[c] = m

\* The copies that the channel delivers.
Held == {i.copy : i \in travelling} \cup {inFlight[m] : m \in Msgs}

\* deferredFromDelay is the number of copies being delivered, as long as the channel is
\* not reset: it returns to zero, and lets the scan peek again, exactly when they are
\* all finished.
DeferredCounts == undisturbed => deferredFromDelay = Cardinality(Held \cap Copies)

\* What a replica deletes when it is told the state of the leader, however late, is
\* never a message that the leader had while it read that state.
ConsumedOnly ==
    [][UpdateDelayedQueueState => update.held \cap Stored(replica) \subseteq Stored(replica')]_vars

\* Every copy in the store is in the end delivered and finished, unless the channel is
\* reset or emptied.
DueDelivered ==
    \A c \in Copies : (undisturbed /\ c \in Stored(leader)) ~> ~(undisturbed /\ c \in Stored(leader))
===============================================================================
