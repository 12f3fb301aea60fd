# A TLA+ verification of nsqd and its coordinators

This directory holds TLA+ specifications of the server in `src/`: a message
queue whose topic partitions are disk queues replicated over an in-sync set of
nodes (ISR), coordinated by nsqlookupd through etcd, and whose channels are
independent readers of a partition. The specifications are model-checked with TLC on
small instances, and the central properties are proved with TLAPS for every value of
the constants.

## The system and its parts

| part | source | here |
|---|---|---|
| channel: pump, FIN/REQ, timeouts, resets, roles | `nsqd/channel.go` | `Channel` |
| map of finished intervals | `nsqd/segment_tree.go` (`IntervalHash`) | `IntervalHash` |
| consumer connection | `nsqdserver/protocol_v2.go`, `context.go` | in `Channel` |
| disk queue writer, its snapshot reader | `nsqd/diskqueue_writer.go`, `disk_queue_snapshot.go` | `DiskQueue` |
| commit log | `consistence/commitlog.go` | `CommitLog` |
| topic, repair of log and queue at start, retention | `nsqd/topic.go`, `consistence/nsqd_coordinator.go` | `LocalStore` |
| replicated write, catch-up, role switch | `consistence/nsqd_coordinator*.go`, `coordinator_rpc.go` | `TopicCoord`, `NsqdCoord` |
| elections, joining and leaving the ISR, moves | `consistence/nsqlookup_coordinator.go`, `data_placement_mgr.go` | `LookupCoord`, `LookupRequests` |
| delayed queue, requeueing to the end, report of what was consumed | `nsqd/delay_queue.go`, `channel.go`, `nsqdserver/context.go`, `consistence/nsqd_coordinator_cluster_write.go` | `DelayQueue` |
| topic info and leader session in etcd | `consistence/nsqd_node_etcd.go`, `nsq_lookupd_etcd.go` | `ClusterState` |

How they meet: a producer's PUB goes to the leader of a partition, which writes its
disk queue, sends the write to every other node of the ISR and commits it in its commit
log. The committed end of the queue is given to each channel (`UpdateQueueEnd`). The
channel's pump reads up to that end and offers messages to the connections, a
connection puts a message in flight and sends it, and FIN moves the channel's confirmed
position, which the leader sends to the followers. When a node stops or starts leading,
the coordinator disables or enables consuming on its channels. nsqlookupd decides who
leads and who is in the ISR, stores that in etcd with a compare-and-swap on the epoch,
and tells the nodes.

A message that a client requeues for long is copied to the delayed queue of the partition,
a queue of its own with a kv store beside it, and confirmed; the channel's scan takes due
copies from the store and delivers them under the id of the original.

Four specifications cover this, cut where the parts meet: `Channel` (one channel, above
the end of its queue), `LocalStore` (one replica's files, below the coordinator's calls),
`Cluster` (all nodes of one partition and nsqlookupd, above each node's log) and
`DelayQueue` (the delayed queue on a leader and a replica, beside the channel that feeds
and drains it).

## Modules

| module | what it is |
|---|---|
| `IntervalHash`, `MCIntervalHash` | the interval map as operators; a program that finishes messages in any order and deletes from below |
| `Channel`, `MCChannel` | the channel with its pump, connections, scanner, administrator and replication link |
| `ChannelCursor` | the abstract specification: what a channel promises of its position |
| `DiskQueue` | writer, files, metadata, buffered and synced ends as operators on a record `dq` |
| `CommitLog` | segments, rotation, truncation, cleaning, searches as operators on a record `lg` |
| `LocalStore`, `MCLocalStore` | a topic over both, driven by the coordinator, with crashes |
| `TopicCoord` | the coordinator data of a topic on one node and its checks |
| `ClusterState` | the variables of the cluster: etcd, nodes, logs, calls under way, nsqlookupd's task |
| `NsqdCoord` | the nodes: writes, catch-up, RPC handlers, crash and restart |
| `LookupCoord`, `LookupRequests` | nsqlookupd: its goroutines and checks; the requests it handles |
| `Cluster`, `MCCluster` | the composition, its properties, and the fault budgets |
| `DelayQueue`, `MCDelayQueue` | the kv stores, the channel around them, requeues, scan, operator and replica |
| `IntervalHashProofs`, `FinishedProofs` | theorems about the interval map |
| `ChannelProofs`, `ChannelKept`, `ChannelTheorems` | theorems about `Channel` |
| `ClusterProofs` | theorems about `Cluster` |
| `DelayQueueProofs` | theorems about `DelayQueue` |

### Channel

A message is its position: message `m` occupies `[m, m+1)`. Sizes play no role in
`Channel`; `MCIntervalHash` uses intervals of different lengths.

| variables | code |
|---|---|
| `queueEnd`, `readPos`, `confirmed` | `diskQueueReader.queueEndInfo`, `readQueueInfo`, `confirmedQueueInfo` |
| `confirmedMsgs`, `waitingConfirm` | fields of the same name; the second is a cached length |
| `inFlight` | `inFlightMessages` with the owner; `"deferred"` after a REQ with a delay |
| `requeuedMsgChan`, `waitingRequeueChanMsgs`, `waitingRequeueMsgs` | the Go channel, the map beside it, the overflow map |
| `tryReadBackend`, `endUpdatedChan`, `needNotifyRead`, `readerChanged` | the wake-up channels and flags |
| `clients`, `conn`, `hand`, `checked` | registered clients; each connection's state and the message in its hands, before and after its `IsConfirmed` test |
| `pc`, `msg`, `lastData`, `readBackendWait`, `needResetReader`, `pumpDrain` | locals of `messagePump` |
| `scanPc`, `adminPc`, ... | where the scanner and a `DisableConsume` call are between two critical sections |
| `done` | history variable: the messages finished, skipped or passed over by an explicit move of the cursor |

One action is one critical section or one blocking channel operation: the pump has an
action per `select` case and per lock it takes in a drain; a connection takes a message,
tests it and puts it in flight in three actions; the scanner's timeouts, its emptying of
the overflow map and its repair of the window are three; `DisableConsume` is one for the
flag and one for each section of the drain. Every other process may act between any two
of these. Sends with a `default` case drop what finds no room, as in the code.

Abstractions: a message in flight may time out at any scan, a deferred one may come due
at any scan; SUB registers the client and switches ordered mode on in one step;
`waitingDeliveryState` is `pc = "dispatch"`; the scanner's own move of a blocking message
to the end of the queue and the client's request for it are one action. Left out: the
delayed queue cases, tags, pause, TOUCH, read errors, a queue end that moves back, channel
deletion, process exit, statistics. `Ops` names the optional operations of an instance
and `MaxAdmin` bounds the administrative calls; the proofs hold for every value of both.

### LocalStore

`dq` is the disk queue (written, buffered and persisted ends, files, metadata), `lg` the
commit log (segments, buffer, persisted start), `tp` the topic (committed end, channel
end, flags), `pc`/`job` what the holder of the write lock does, `cleaning` a retention
clean between its two halves, `isr` and `fix` what the coordinator believes of the
replica. A write of a batch puts one message after another (`PutOne`), is then committed
(`CommitPut`), rolled back (`AbortPut`) or given up (`FailPut`). A crash may come between
any two actions and inside a roll of the queue file, a rotation of the log, a catch-up, a
full sync and either half of a clean (`CrashIn...`); it drops buffers and everything not
persisted. `Restart` loads both files and repairs them as `checkAndFixLocalLogQueueData`
does.

Two ghosts mark runs of events after which the code does leave log and queue apart, so
that the invariants can speak about all others. `over`: the second half of a clean ran
without a bound (see the findings). `torn`: a crash between the two file operations of a
rotation or a truncation, or a full sync that came between the halves of a clean or that
took over the offset metadata of a file truncated away. These are limits of what the
code promises, and are reported here rather than hidden: the log's `saveCurrentStart` is
not atomic with the rename or the truncation it records, `ResetWriteEndV2` and
`ResetWriteWithQueueStart` do not persist the writer's metadata, and a log that ends early
does not cut the queue on restart.

### Cluster

`info` and `skey` are what etcd stores of the partition: the topic info with its epoch
and write epoch, and the leader session. Each node has its coordinator data `coord`, its
log of entries `[id, epoch, msg]`, a write under way `writer` and a catch-up `catching`.
`requests` and `late` are calls in transit (a late write is one that waits for a
replica's lock). nsqlookupd has `task`, the goroutine that holds the join state and where
it is in its steps, `pending`, goroutines that wait for it with the info they read,
`join`, the join session, `timer`, `retry` and `lost`. `left` is the budget of an
instance: writes, epochs, crashes, lost calls, moves, slow joins. `acked` is the history
of acknowledged writes.

Handlers that read the topic info, call nodes and then write are split at the calls, so
that the info may be old when it is used; the code re-checks it or compares epochs when
it stores. A join whose update was refused continues with the info it tried to store, as
the code does. Sessions of one node in one epoch are not told apart. Nodes' logs survive a
crash here (`LocalStore` is about what a crash does to them). One partition, replica
factor at least 2, one entry per write.

### DelayQueue

`leader` and `replica` are kv stores: `val` is the message bucket (the bytes under the key
of a copy), `index` the buckets by original id, `cnt` the counter beside them, `oldest` the
cached time of the first key, `buf` the put buffer that outlives a put. Keys are ordered by
due time and id (`EarlierKey`). `queue` is the delayed queue on disk, `received` how much of
it the replica has. The channel is reduced to where a message is: `unread`, `travelling`
(in a Go channel or in a connection's hands), `inFlight`, `confirmed`, with the two maps and
the counter the delayed queue adds to it (`waitingRequeueChanMsgs`, `delayedConfirmedMsgs`,
`deferredFromDelay`). `req` is a requeue to the end for each message, `scan` the scan between
its peek and its last message, `update` a report to the replica, `drain` a reset of the
channel between its critical sections.

A requeue begins, puts a copy, has it written by the replica, and finishes the original, in
four actions; the timeout of the message, a reset, a failed call or an emptying may come
between any two. A replica that missed messages gets them as raw data, which stores the
bytes of whatever message it put last under each of their keys, or gets a backup of the
leader's store.

Assumed: a requeue is over before its message is due (`Tick`); the code's delays are
minutes. Left out: messages published with a delay, compaction, flush and retention of the
delayed queue, and a change of leader. What the model shows of the code and no property
contradicts: a late report may delete on the replica a message that was put after the report
was made and is due before its first key; a copy taken back from the queue after a failed
replication stays in the leader's store and is delivered; the cached oldest time may be set
back to what an earlier peek saw.

## What the runs check

All bounds are constants of the cfg files. Deadlock is checked in the channel and map
runs; the others stop when their budgets are used up.

| run | instance | what it shows |
|---|---|---|
| `channel_delivery` | two clients, two messages, window 1, requeue channel of 1 | `TypeOK`, `ConfirmedOnlyDone`, `NoMessageLost` with timeouts, REQ, deferred REQ |
| `channel_admin` | one client, two administrative calls of any kind, opened as a follower | `CursorInv` (the inductive invariant), `NoMessageLost`, `CursorRefinement` |
| `channel_live` | one client that disconnects, defers, times out | `EventuallyConfirmed` under fairness |
| `channel_ordered_live` | an ordered topic | `OrderedDelivery` and `EventuallyConfirmed` |
| `interval_hash` | intervals of different sizes between seven cuts | the map covers exactly what was finished, never holds two touching intervals, counts them, and answers `IsCompleteOverlap` truly |
| `local_store` | three instances: retention with one crash or role change, two with two | the eight properties of `LocalStore` |
| `cluster` | three nodes, six budgets of faults | `AckedKept`, `AckedApart`, `NoFork`, `JoinQuiet`, `EpochNamesInfo`, `WriteEpochMoves` |
| `delay_queue` | up to two messages and two copies, six budgets | `TypeOK`, `CountCovers`, `DelayedKept`, `DeferredCounts`, `ConsumedOnly`, and `DueDelivered` under fairness |
| `channel_seek_beyond`, `channel_ordered_role`, `local_store_clean` | | expected violations, see the findings |

Why the bounds are enough to make the interesting cases happen: two messages make a gap
(the second finished, the first not) and fill a confirm window of one; a requeue channel
of one slot overflows with the second message, and a reset channel of one slot drops the
second reset (the code's capacities are larger; the smallest makes the full case
happen). In `LocalStore` files hold two messages and log segments two entries, so that
three messages roll both, and retention needs four. In `Cluster` one write that may be
lost, retried or late, one crash and restart, one move and up to four changes of the topic
info are enough for a leader to change under a write and for a replica to leave and join
again.

- `NoMessageLost`: a message that was read and is not confirmed is in flight, in a
  requeue queue, in the pump's or a connection's hands, confirmed above a gap, or a reset
  of the reader is pending.
- `LogIdsIncrease`, `LogMatchesQueue`, `LeaderEndsAgree`: after any crash and repair, log
  ids go up, every entry names data the queue holds, and a leader's queue ends with its
  last entry. `LogCleanedFirst` and `QueueStartAdvances` are about retention,
  `SearchFindsEntry` about the searches by offset, count and id, `ChannelsSeeCommitted`
  about the end given to channels.
- `AckedKept`: an acknowledged write is in the log of every node of the ISR that accepts
  writes. `AckedApart`: acknowledged writes have different ids. `NoFork`: two such nodes
  under one write epoch do not differ where one has an acknowledged write. They may differ
  elsewhere: a write that waited for a replica's lock is checked against the epoch before
  the wait (`nsqd_coordinator_cluster_write.go:813`). `JoinQuiet`: while replicas join,
  nobody accepts writes.

- `CountCovers`: the counter of a store is never below the number of its messages.
  `DelayedKept`: what is confirmed was finished, emptied by the operator or has a copy in the
  leader's store. `DeferredCounts`: the counter that holds back the next peek is the number of
  copies under delivery. `ConsumedOnly`: a report deletes on the replica nothing that the leader
  had while it made it. `DueDelivered`: every copy is delivered and finished in the end.

The budgets of `cluster` each have at most one crash, one lost call and one slow join. `AckedKept` does not hold with
two crashes of two replicas: a partition with two replicas that loses both in turn
continues from the one that missed a write. Larger two-node explorations with two lost calls
pass (1.7 million states) and are not kept as runs.

### Findings

- `channel_seek_beyond`: an offset reset past the reader's end that arrives while a message
  is offered drops the message (`channel.go:1756`) and asks for no reset of the reader.
- `channel_ordered_role`: after a role change the pump can be past its order test with a
  message read ahead when the first subscriber of an ordered topic switches ordered mode
  on (`channel.go:1692`).
- `local_store_clean`: a retention clean whose dry run ends at offset 0 passes 0 to its
  second half, where 0 means "no bound" (`nsqd_coordinator.go:328`), and so removes data
  that kept log entries point to.

### Fairness

`Channel!Fairness` assumes what Go's scheduler and `select` give: weak fairness of the
pump, of each connection's own steps, of the scanner's pass and of heartbeats (a
subscriber always has them, `protocol_v2.go:883`); strong fairness of the pump's `select`
cases and of a connection's receive, since `select` picks at random among the ready
cases; strong fairness of a message's timeout, which stays due until a scan; and strong
fairness of FIN per message: a client that is sent a message over and over finishes it
some time. The last is an assumption on clients without which nothing can be promised.

`DelayQueue!FairSpec` is the same in small: weak fairness of the reader, the connections, the
requesters, the scan, the drains and the clock, strong fairness of FIN.

No liveness is stated for `Cluster`: that a join or an election ends rests on timeouts
that are long enough in real time, which the model does not have.

## What is proved

`tlapm` checks every proof. The constants are arbitrary under the named assumptions:
naturals, positive channel capacities, clients distinct from the marks for "no owner"
(`Channel`), a finite set of natural cuts (`MCIntervalHash`), the assumptions of
`ClusterState`, and natural sizes and budgets (`DelayQueue`).

| theorem | statement |
|---|---|
| `ChannelTheorems!CursorInvariant`, `TypeCorrect`, `ConfirmedAreDone` | `Spec => []CursorInv`, `[]TypeOK` (with `confirmed <= readPos <= queueEnd`), `[]ConfirmedOnlyDone` |
| `ChannelTheorems!NothingLost` | `SeekBeyond = 0` implies `Spec => []NoMessageLost` |
| `ChannelTheorems!ChannelImplementsCursor` | `Spec => CursorRefinement`: the channel implements `ChannelCursor` |
| `ChannelTheorems!DeliveredInOrder` | `Steady` implies `Spec => []OrderedDelivery` |
| `FinishedProofs!MapWellFormed`, `MapCoversFinished`, `MapNeverTouches`, `MapOverlapExact` | the four invariants of the interval map |
| `IntervalHashProofs!AddOrMergeWithin` | adding `[l, h)` covers nothing outside `[l, h)` and the old intervals |
| `ClusterProofs!EpochsNameInfos`, `WriteEpochs` | `Spec => []EpochNamesInfo`, `Spec => WriteEpochMoves` |
| `DelayQueueProofs!DelayTypeCorrect`, `CountsRight`, `NothingLost`, `DeferredRight` | `Spec => []TypeOK`, `[]CountCovers`, `[]DelayedKept`, `[]DeferredCounts` |
| `DelayQueueProofs!ReportsDeleteConsumed` | `Spec => ConsumedOnly` |

The inductive invariants, and why each is needed:

- `CursorInv`. `ConfirmBackendQueue` moves the position to the end of a merged interval, so
  the intervals must cover finished messages only. That is true except during an offset
  reset: `resetChannelReader` moves the reader first and empties the map later, and moving
  back un-finishes messages the map still covers. In between `readPos = confirmed`, so
  `ConfirmRead` refuses every confirmation an old interval could cause. `DoneInv` says
  this. One lemma per process (`PumpStep`, `ClientStep`, `ScannerStep`, `FollowStep`, `AdminStep`).
- `KeptInv` adds to it that intervals are stored under both ends, that nothing is read and
  unconfirmed while the pump drains, that the pump holds a message only between its two
  selects, that queued resets can succeed and that a drain of the administrator runs with
  consuming disabled. `SeekBeyond = 0` excludes exactly the reset of the first finding.
- `RefineInv` adds that every message on its way was published; then each step is a step
  of the cursor or leaves it.
- `OrderInv` adds that what was offered, taken or sent is not ahead of the confirmed
  position, and what a channel looks like before its first subscriber orders it. `Steady`
  (no role change, offset reset, leader's position or unordering) excludes the second
  finding, and moves of the cursor, after which what is in flight may rightly be ahead.
- `HashInv` says the map holds each interval under both ends, that no two touch, and that
  above the deleted part a point is covered just when it was finished.
- `EpochNamesInfo` says whatever nsqlookupd holds of the topic (the task that runs, the
  ones that wait, the timer) is the stored info or has an older epoch. So the
  compare-and-swap of `UpdateTopicNodeInfo` only lets through changes made to the stored
  info, and `WriteEpochMoves` follows: the write epoch can only stay the same while the
  leader stays and the ISR does not grow. For any nodes, budgets and number of waiting
  goroutines.
- `DelayInv`. That nothing is lost rests on three facts: what the leader indexes has a copy
  (`StoreInv`), a requeue that has put its copy finds it in the store when it finishes the
  original (`RequestInv`: the copy is not due yet, so no scan has delivered it and no client
  has finished it), and what is delivered as a copy is due and goes under the id of its
  original (`HeldInv`). The counter of delivered copies needs that a message is in one place
  (`PlaceInv`): that holds until the channel is reset, since a connection keeps what it has
  taken while the reader gives it again. `UpdateInv` says of a report under way that what the
  leader held all the while is not before its first key. Lemmas on `Delete`, `Put` and the
  raw puts give the effect of each kv operation on keys, index and count. For any number of
  messages, copies, faults and calls of the operator.

Only model-checked: liveness (outside the prover's reach); the properties of `LocalStore`,
which speak of sequences built by recursion over files and segments (induction over data is
outside the prover's reach); `AckedKept`, `AckedApart`, `NoFork`, which hold for the
budgets of the run and not for every one (see above); `JoinQuiet` and `Cluster!TypeOK`,
checked with one waiting goroutine (`MaxPending = 1`).

## What is not modelled

Registration in nsqlookupd, load factors of data
placement, the reader's files, HTTP parsing and dispatch, byte encodings, the in-flight heap
(time is abstract), statistics, nsqadmin, command-line tools and benchmarks. In the parts
that are modelled: topic and channel deletion, several partitions on a node, IDENTIFY, AUTH
and RDY counts, the upgrade mode and topic administration of nsqlookupd.
