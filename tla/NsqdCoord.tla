----------------------------- MODULE NsqdCoord -----------------------------
(***************************************************************************)
(* The nsqd side of the cluster (consistence/nsqd_coordinator.go and       *)
(* nsqd_coordinator_cluster_write.go): writes that the leader replicates   *)
(* to the in-sync replicas, replicas that catch up with the leader, the    *)
(* leader session, and nodes that start, crash and leave.                  *)
(*                                                                         *)
(* A node's commit log survives a crash here; what a crash does to the     *)
(* files under it is the subject of LocalStore.                            *)
(***************************************************************************)
EXTENDS ClusterState

---------------------------------------------------------------------------
\* The leader's write, doSyncOpToCluster.  It holds the write lock from StartWrite on
\* until it commits or gives up.  todo: replicas this round still has to reach; bad:
\* those that failed; fatal: errors that are not to be retried.

StartWrite(n) ==
    /\ n \in up /\ ~Held(n) /\ CanWrite(coord[n], n) /\ sent < left.writes
    /\ sent' = sent + 1
    /\ nextID' = [nextID EXCEPT ![n] = @ + 1]
    /\ writer' = [writer EXCEPT ![n] =
           [entry |-> [id |-> nextID[n] + 1, epoch |-> coord[n].info.wepoch, msg |-> sent + 1],
            pos |-> Len(log[n]), isr |-> coord[n].info.isr, replica |-> coord[n].info.replica,
            todo |-> coord[n].info.isr \ {n}, bad |-> {}, fatal |-> 0, round |-> 1]]
    /\ UNCHANGED <<etcdVars, alive, up, coord, log, catching, requests, late, lookupVars, left, acked>>

\* What replica r, with coordinator c and log l, makes of entry e of leader n, to be
\* written at position pos: checkWriteForRpcCall, then, under its write lock,
\* doWriteOpOnSlave.  "leave": the offset does not match and the replica leaves the
\* ISR.  "corrupt": the same, and the leader is not to retry.
\* WriteAnywhere: neither the id nor the offset is compared.
WriteAnywhere(c, l, r, e, pos, lateCall) == IF c.disabled THEN "disabled" ELSE "append"

WriteOnSlave(c, l, r, e, pos, lateCall) ==
    IF LastID(l) = e.id THEN "ok"
    ELSE IF c.disabled THEN "disabled"
    ELSE IF r \notin c.info.isr /\ ~lateCall THEN "retry"
    ELSE IF Len(l) # pos THEN "leave"
    ELSE IF e.id <= LastID(l) THEN "corrupt" ELSE "append"

PutMessage(c, l, n, r, e, pos) ==
    IF ~c.loaded THEN "fatal"
    ELSE IF c.info.wepoch # e.epoch THEN "retry"
    ELSE IF c.info.leader # n THEN "fatal" ELSE WriteOnSlave(c, l, r, e, pos, FALSE)

Appended(r, e, res) ==
    /\ log' = IF res = "append" THEN [log EXCEPT ![r] = Append(@, e)] ELSE log
    /\ nextID' = IF res = "append" THEN [nextID EXCEPT ![r] = e.id + 1] ELSE nextID

Leaves(r, res) == IF res \in {"leave", "corrupt"} THEN {Leave(r)} ELSE {}

\* CanRetryWrite: a replica that has its writing disabled is worth MaxRetry rounds.
Fatal(res, round) ==
    res \in {"fatal", "corrupt"} \/ (res = "disabled" /\ round > MaxRetry)

\* The exits of doSyncOpToCluster that fail.  leave: the write is rolled back, the
\* session is dropped and the leader asks to leave the ISR.
GiveUp(n, leave, more) ==
    /\ writer' = [writer EXCEPT ![n] = None]
    /\ coord' = [coord EXCEPT ![n].disabled = TRUE,
                              ![n].session.node = IF leave THEN None ELSE @]
    /\ Asks(requests \cup more \cup IF leave THEN {Leave(n)} ELSE {})

\* The round goes on after replica r answered res; too many errors that are not to
\* be retried end the write.
Answered(n, r, w, res, fatal) ==
    IF fatal > Cardinality(w.isr) \div 2
    THEN GiveUp(n, TRUE, Leaves(r, res))
    ELSE /\ writer' = [writer EXCEPT ![n].todo = @ \ {r}, ![n].fatal = fatal,
                                     ![n].bad = IF res \in {"ok", "append"} THEN @ ELSE @ \cup {r}]
         /\ Asks(requests \cup Leaves(r, res))
         /\ UNCHANGED coord

\* doSlaveSync, answered by the replica.  One that finds its info out of date asks
\* nsqlookupd for the new one.
SlaveSync(n, r) ==
    /\ writer[n] # None /\ r \in writer[n].todo /\ r \in up /\ ~Held(r)
    /\ \E res \in {PutMessage(coord[r], log[r], n, r, writer[n].entry, writer[n].pos)} :
          /\ Appended(r, writer[n].entry, res)
          /\ Answered(n, r, writer[n], res, writer[n].fatal + IF Fatal(res, writer[n].round) THEN 1 ELSE 0)
    /\ retry' = IF coord[r].loaded /\ RefusesCall(coord[r], n, writer[n].entry.epoch)
                THEN retry \cup {r} ELSE retry
    /\ UNCHANGED <<etcdVars, alive, up, catching, late, task, pending, join, timer, lost, ghostVars>>

\* The call fails on the way: the replica is down or busy, or the call is lost.  In a
\* busy replica the call may have passed its first checks, and wait for the lock.
SlaveSyncFails(n, r) ==
    /\ writer[n] # None /\ r \in writer[n].todo
    /\ IF CanLock(r) THEN SpendLost(1) ELSE UNCHANGED left
    /\ writer' = [writer EXCEPT ![n].todo = @ \ {r}, ![n].bad = @ \cup {r}]
    /\ \/ UNCHANGED late
       \/ /\ r \in up /\ ~RefusesCall(coord[r], n, writer[n].entry.epoch) /\ r \in coord[r].info.isr
          /\ late' = late \cup {[node |-> r, entry |-> writer[n].entry, pos |-> writer[n].pos]}
    /\ UNCHANGED <<etcdVars, alive, up, coord, log, nextID, catching, requests, lookupVars, sent, acked>>

\* A write that waited for the lock: its epoch and ISR were checked before.
SlaveSyncLate(l) ==
    /\ l \in late /\ ~Held(l.node)
    /\ late' = late \ {l}
    /\ \E res \in {WriteOnSlave(coord[l.node], log[l.node], l.node, l.entry, l.pos, TRUE)} :
          /\ Appended(l.node, l.entry, res)
          /\ Asks(requests \cup Leaves(l.node, res))
    /\ UNCHANGED <<etcdVars, alive, up, coord, writer, catching, lookupVars, ghostVars>>

\* Every replica has the entry: the leader commits and acknowledges it.
\* AllWroteIgnored: a failed call is only logged.
AllWroteIgnored(w) == w.todo = {}

AllWrote(w) == w.todo = {} /\ w.bad = {}

Commit(n) ==
    /\ writer[n] # None /\ AllWrote(writer[n])
    /\ log' = [log EXCEPT ![n] = Append(@, writer[n].entry)]
    /\ acked' = acked \cup {writer[n].entry}
    /\ writer' = [writer EXCEPT ![n] = None]
    /\ UNCHANGED <<etcdVars, alive, up, coord, nextID, catching, requests, late, lookupVars, left, sent>>

\* Some have not: the leader asks, after some rounds, for the failed ones to be taken
\* out of the ISR, looks at the topic info again, and goes for another round.
EnoughSuccess(w) == Cardinality(w.isr \ w.bad) > w.replica \div 2

\* requestLeaveFromISRByLeader for the failed ones.
LeaveAsked(n, w) ==
    IF EnoughSuccess(w) /\ w.round > MaxRetry /\ LeadsWrites(coord[n], n)
    THEN {LeaveByLeader(r, coord[n].session) : r \in w.bad} ELSE {}

\* The info found then still lets this write go on.
StillLeads(n, w) ==
    /\ LeadsWrites(coord[n], n) /\ coord[n].info.wepoch = w.entry.epoch
    /\ Quorum(coord[n].info) /\ n \in coord[n].info.isr

RetryWrite(n) ==
    /\ writer[n] # None /\ writer[n].todo = {} /\ writer[n].bad # {}
    /\ writer[n].round <= 2 * MaxRetry /\ StillLeads(n, writer[n])
    /\ writer' = [writer EXCEPT ![n].isr = coord[n].info.isr, ![n].bad = {}, ![n].fatal = 0,
                                ![n].todo = coord[n].info.isr \ {n}, ![n].round = @ + 1]
    /\ Asks(requests \cup LeaveAsked(n, writer[n]))
    /\ retry' = retry \cup {n}
    /\ UNCHANGED <<etcdVars, alive, up, coord, log, nextID, catching, late, task, pending, join, timer, lost, ghostVars>>

FailWrite(n) ==
    /\ writer[n] # None /\ writer[n].todo = {} /\ writer[n].bad # {}
    /\ writer[n].round > 2 * MaxRetry \/ ~StillLeads(n, writer[n])
    /\ GiveUp(n, ~EnoughSuccess(writer[n]), LeaveAsked(n, writer[n]))
    /\ UNCHANGED <<etcdVars, alive, up, log, nextID, catching, late, lookupVars, ghostVars>>

---------------------------------------------------------------------------
\* Catching up with the leader, catchupFromLeader.  It holds the write lock, and ends
\* early when the leader cannot be reached or is no longer the leader.

\* The position of the last local entry that the leader has too.  The entry at the
\* start of the log is not compared: when the others do not match, or when it is the
\* last one that could, the replica empties its log and starts from the beginning.
Matched(mine, theirs) ==
    LET same == {i \in 2 .. Len(mine) : i <= Len(theirs) /\ mine[i] = theirs[i]} IN
    IF same = {} THEN 0 ELSE CHOOSE i \in same : \A j \in same : j <= i

CatchupEnds(n) == catching' = [catching EXCEPT ![n] = None]

\* checkForUnsyncedTopics finds the node in the catchup list.
StartCatchup(n) ==
    /\ n \in up /\ coord[n].loaded /\ ~Held(n) /\ n \in info.catchup
    /\ JoinISR(n) \notin requests
    /\ catching' = [catching EXCEPT ![n] = [leader |-> info.leader, js |-> 0, step |-> "decide"]]
    /\ UNCHANGED <<etcdVars, alive, up, coord, log, nextID, writer, requests, late, lookupVars, ghostVars>>

LeaderGone(n) ==
    \/ ~coord[n].loaded \/ coord[n].info.leader # catching[n].leader
    \/ catching[n].leader \notin up \/ ~coord[catching[n].leader].loaded

\* decideCatchupCommitLogInfo: the log is cut back to what matches.
CatchupDecide(n) ==
    /\ catching[n] # None /\ catching[n].step = "decide" /\ ~LeaderGone(n)
    /\ log' = [log EXCEPT ![n] = SubSeq(@, 1, Matched(@, log[catching[n].leader]))]
    /\ catching' = [catching EXCEPT ![n].step = "pull"]
    /\ UNCHANGED <<etcdVars, alive, up, coord, nextID, writer, requests, late, lookupVars, ghostVars>>

\* pullCatchupDataFromLeader ...
CatchupPull(n) ==
    /\ catching[n] # None /\ catching[n].step = "pull" /\ ~LeaderGone(n)
    /\ Len(log[catching[n].leader]) > Len(log[n])
    /\ log' = [log EXCEPT ![n] = @ \o SubSeq(log[catching[n].leader], Len(@) + 1, Len(log[catching[n].leader]))]
    /\ nextID' = [nextID EXCEPT ![n] = LoadedID(log[catching[n].leader])]
    /\ UNCHANGED <<etcdVars, alive, up, coord, writer, catching, requests, late, lookupVars, ghostVars>>

\* ... until there is nothing more to pull.
CatchupDone(n) ==
    /\ catching[n] # None /\ catching[n].step = "pull" /\ ~LeaderGone(n)
    /\ Len(log[catching[n].leader]) <= Len(log[n])
    /\ Asks(requests \cup {IF catching[n].js = 0 THEN JoinISR(n) ELSE Ready(n, catching[n].js)})
    /\ CatchupEnds(n)
    /\ UNCHANGED <<etcdVars, alive, up, coord, log, nextID, writer, late, lookupVars, ghostVars>>

CatchupAborts(n) ==
    /\ catching[n] # None /\ LeaderGone(n)
    /\ CatchupEnds(n)
    /\ UNCHANGED <<etcdVars, alive, up, coord, log, nextID, writer, requests, late, lookupVars, ghostVars>>

\* syncToNewLeader: a member of the ISR that was told of a leader session compares
\* the ids of the last entries (checkLocalTopicForISR).
SyncToNewLeader(q) ==
    /\ q \in requests /\ q.kind = "sync"
    /\ LET reached == q.leader \in up /\ coord[q.leader].loaded
           synced == LastID(log[q.node]) = LastID(log[q.leader])
           rest == requests \ {q} IN
       \/ /\ ~reached \/ (~synced /\ (catching[q.node] # None \/ (q.js = 0 /\ ~q.must)))
          /\ requests' = rest /\ UNCHANGED catching
       \/ /\ reached /\ synced
          /\ Asks(IF q.js = 0 THEN rest ELSE rest \cup {Ready(q.node, q.js)})
          /\ UNCHANGED catching
       \/ /\ reached /\ ~synced /\ q.js # 0 /\ ~Held(q.node)
          /\ requests' = rest
          /\ catching' = [catching EXCEPT ![q.node] = [leader |-> q.leader, js |-> q.js, step |-> "decide"]]
       \/ /\ reached /\ ~synced /\ q.js = 0 /\ q.must
          /\ Asks(rest \cup {LeaveAndCatchup(q.node)}) /\ UNCHANGED catching
    /\ UNCHANGED <<etcdVars, alive, up, coord, log, nextID, writer, late, lookupVars, ghostVars>>

---------------------------------------------------------------------------
\* The leader session, and what a node holds of the topic.

\* acquireTopicLeader.
AcquireTopicLeader(q) ==
    /\ q \in requests /\ q.kind = "acquire"
    /\ skey' = IF skey = NoSession THEN [node |-> q.node, epoch |-> q.epoch] ELSE skey
    /\ requests' = requests \ {q}
    /\ UNCHANGED <<info, alive, up, coord, log, nextID, writer, catching, late, lookupVars, ghostVars>>

\* loadLocalTopicData, for a topic the node has data of: it takes what etcd says of
\* it, with writing disabled; a leader acquires its session, a replica of the ISR
\* asks to leave it.
LoadTopic(n) ==
    /\ n \in up /\ ~coord[n].loaded /\ n \in info.isr \cup info.catchup
    /\ coord' = [coord EXCEPT ![n] = [Fresh EXCEPT !.info = info, !.session = skey]]
    /\ nextID' = [nextID EXCEPT ![n] = LoadedID(log[n])]
    /\ skey' = IF info.leader = n /\ skey = NoSession THEN [node |-> n, epoch |-> info.epoch] ELSE skey
    /\ Asks(requests \cup
            IF n \in info.isr /\ Cardinality(info.isr) > 1 /\ info.leader # n THEN {Leave(n)} ELSE {})
    /\ UNCHANGED <<info, alive, up, log, writer, catching, late, lookupVars, ghostVars>>

\* ... and for data of a topic the node is no longer a member of.
LoadUnrelated(n) ==
    /\ n \in up /\ ~coord[n].loaded /\ n \notin info.isr \cup info.catchup /\ log[n] # <<>>
    /\ IF Cardinality(info.isr) >= info.replica
       THEN log' = [log EXCEPT ![n] = <<>>] /\ UNCHANGED requests
       ELSE /\ Cardinality(info.isr \cup info.catchup) < info.replica
            /\ Asks(requests \cup {JoinCatchup(n)}) /\ UNCHANGED log
    /\ UNCHANGED <<etcdVars, alive, up, coord, nextID, writer, catching, late, lookupVars, ghostVars>>

\* ... and for a loaded topic that has no leader session.
ReloadSession(n) ==
    /\ n \in up /\ coord[n].loaded /\ coord[n].session.node = None
    /\ skey' = IF coord[n].info.leader = n /\ skey = NoSession
               THEN [node |-> n, epoch |-> coord[n].info.epoch] ELSE skey
    /\ coord' = IF n \in coord[n].info.isr /\ skey' # NoSession /\ skey'.epoch >= coord[n].session.epoch
                THEN [coord EXCEPT ![n].session = skey'] ELSE coord
    /\ UNCHANGED <<info, alive, up, log, nextID, writer, catching, requests, late, lookupVars, ghostVars>>

\* checkForUnsyncedTopics: a topic with enough replicas that the node is not one of.
CleanTopic(n) ==
    /\ n \in up /\ coord[n].loaded /\ ~Held(n) /\ n \notin info.isr \cup info.catchup
    /\ Cardinality(info.isr \cup info.catchup) >= info.replica
    /\ coord' = [coord EXCEPT ![n] = Unloaded] /\ log' = [log EXCEPT ![n] = <<>>]
    /\ UNCHANGED <<etcdVars, alive, up, nextID, writer, catching, requests, late, lookupVars, ghostVars>>

---------------------------------------------------------------------------
\* Nodes that stop and start.

\* What dies with a node: its goroutines, and the writes that wait for its lock.
Stops(n, more) ==
    /\ up' = up \ {n}
    /\ coord' = [coord EXCEPT ![n] = Unloaded]
    /\ writer' = [writer EXCEPT ![n] = None]
    /\ catching' = [catching EXCEPT ![n] = None]
    /\ late' = {l \in late : l.node # n}
    /\ Asks({q \in requests : ~(q.node = n /\ q.kind \in {"acquire", "sync"})} \cup more)
    /\ left.crash > 0 /\ left' = [left EXCEPT !.crash = @ - 1]
    /\ UNCHANGED <<info, log, nextID, lookupVars, sent, acked>>

Crash(n) == n \in up /\ Stops(n, {}) /\ UNCHANGED <<skey, alive>>

\* prepareLeavingCluster: the node asks to leave the ISR, gives its leader session
\* back and takes itself out of etcd.
LeaveCluster(n) ==
    /\ n \in up /\ coord[n].loaded /\ ~Held(n)
    /\ Stops(n, IF n \in coord[n].info.isr THEN {Leave(n)} ELSE {})
    /\ skey' = IF SessionReady(coord[n], n) THEN Released(n, skey) ELSE skey
    /\ alive' = alive \ {n}

Restart(n) ==
    /\ n \notin up /\ up' = up \cup {n}
    /\ UNCHANGED <<etcdVars, alive, coord, log, nextID, writer, catching, requests, late, lookupVars, ghostVars>>
=============================================================================
