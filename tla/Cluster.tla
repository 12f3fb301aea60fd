------------------------------ MODULE Cluster ------------------------------
(***************************************************************************)
(* A topic partition in a cluster: the nsqd nodes that replicate it        *)
(* (NsqdCoord), the nsqlookupd that coordinates them (LookupCoord,         *)
(* LookupRequests), and the faults they are meant to survive.              *)
(***************************************************************************)
EXTENDS LookupRequests

Entries(l) == {l[i] : i \in 1 .. Len(l)}

\* The topic has been created on some nodes, and its leader accepts writes.
Init ==
    /\ left \in Budgets
    /\ \E isr \in SUBSET Nodes : \E leader \in isr :
          /\ Cardinality(isr) = left.replica
          /\ info = [leader |-> leader, isr |-> isr, catchup |-> {}, replica |-> left.replica, epoch |-> 1, wepoch |-> 1]
          /\ skey = [node |-> leader, epoch |-> 1]
    /\ alive = Nodes /\ up = Nodes
    /\ coord = [n \in Nodes |-> IF n \in info.isr
                  THEN [loaded |-> TRUE, info |-> info, session |-> skey, disabled |-> FALSE] ELSE Unloaded]
    /\ log = [n \in Nodes |-> IF n \in info.isr
                  THEN [i \in 1 .. StartLog |-> [id |-> i, epoch |-> 1, msg |-> 0]] ELSE <<>>]
    /\ nextID = [n \in Nodes |-> LoadedID(log[n])]
    /\ writer = [n \in Nodes |-> None] /\ catching = [n \in Nodes |-> None]
    /\ requests = {} /\ late = {} /\ task = None /\ pending = {} /\ join = NoJoin /\ timer = None
    /\ retry = {} /\ lost = FALSE
    /\ sent = 0 /\ acked = Entries(log[info.leader])

NodeNext ==
    \/ \E n \in Nodes : \/ StartWrite(n) \/ Commit(n) \/ RetryWrite(n) \/ FailWrite(n)
                        \/ StartCatchup(n) \/ CatchupDecide(n) \/ CatchupPull(n) \/ CatchupDone(n)
                        \/ CatchupAborts(n) \/ LoadTopic(n) \/ LoadUnrelated(n) \/ ReloadSession(n)
                        \/ CleanTopic(n) \/ Crash(n) \/ LeaveCluster(n) \/ Restart(n)
    \/ \E n, r \in Nodes : SlaveSync(n, r) \/ SlaveSyncFails(n, r)
    \/ \E l \in late : SlaveSyncLate(l)
    \/ \E q \in requests : SyncToNewLeader(q) \/ AcquireTopicLeader(q)

\* Whoever holds the join state goes on.
TaskStep ==
    \/ StopLeader \/ StopISR \/ ElectChoose \/ ElectRelease \/ ElectStore \/ ElectAcquired
    \/ ElectRenotify \/ ElectFails
    \/ TaskMeta \/ OpenJoin \/ TaskSession \/ CloseJoin
    \/ Compare \/ StartISR \/ StartLeader \/ ResetMeta

LookupNext ==
    \/ \E n \in Nodes : \/ RetryRpc(n) \/ NodeLost(n) \/ NodeJoined(n)
                        \/ CheckMigrate(n) \/ CheckUnwanted(n) \/ AddCatchupNode(n) \/ HandleMoveTopic(n)
    \/ \E p \in pending : NotifyLater(p) \/ RemoveLater(p) \/ BeginJoin(p) \/ ResetJoin(p)
    \/ \E q \in requests : \/ HandleLeave(q) \/ HandleJoinCatchup(q) \/ HandleJoinISR(q) \/ HandleReady(q)
    \/ TaskStep \/ TimerFires
    \/ CheckFailed \/ CheckLeader \/ CheckHolder \/ CheckSession \/ CheckWrite \/ CheckLost
    \/ LookupFailover

Next == NodeNext \/ LookupNext

Spec == Init /\ [][Next]_vars

---------------------------------------------------------------------------
\* The state has the shapes its description gives.
TypeOK ==
    /\ info.leader \in info.isr /\ info.isr \cup info.catchup \subseteq Nodes
    /\ info.isr \cap info.catchup = {}
    /\ alive \subseteq Nodes /\ up \subseteq Nodes /\ retry \subseteq Nodes
    /\ skey.node \in Nodes \cup {None}
    /\ \A n \in Nodes : writer[n] # None => coord[n].loaded
    /\ \A n \in Nodes : ~(writer[n] # None /\ catching[n] # None)

\* A write that was acknowledged is in the log of every node of the ISR that accepts
\* writes, the leader and those that may be elected next.
AckedKept ==
    \A n \in info.isr \cap up :
        coord[n].loaded /\ ~coord[n].disabled /\ coord[n].info.wepoch = info.wepoch
            => acked \subseteq Entries(log[n])

\* Acknowledged writes have different log ids.
AckedApart == \A e, f \in acked : e.id = f.id => e = f

\* Two nodes of the ISR that accept writes under the same write epoch never differ at a position
\* where one of them has an acknowledged write.  (They may differ elsewhere: a write
\* that waited for a replica's lock is checked against the epoch before the wait,
\* and lands in the replica's log after the replica joined again.)
NoFork ==
    \A n, m \in info.isr \cap up :
        (/\ coord[n].loaded /\ coord[m].loaded /\ ~coord[n].disabled /\ ~coord[m].disabled
         /\ coord[n].info.wepoch = coord[m].info.wepoch)
        => \A i \in 1 .. Len(log[n]) : i <= Len(log[m]) => log[n][i] = log[m][i] \/ acked \cap {log[n][i], log[m][i]} = {}

\* While replicas join, no node of the ISR accepts writes: the join session was opened
\* with writing disabled on all of them, and only the last one that is ready ends that.
JoinQuiet ==
    join.waiting /\ (task = None \/ task.kind # "ready") => \A n \in info.isr : coord[n].disabled

\* Every change of the topic info makes its epoch the next one and never lowers its
\* write epoch, and the write epoch stays the same only while the leader does and the
\* ISR does not grow: what the nodes rely on to follow such a change without stopping
\* writes.
InfoMoves ==
    /\ info'.epoch = info.epoch + 1
    /\ \/ info'.wepoch = info.wepoch + 1
       \/ info'.wepoch = info.wepoch /\ info'.leader = info.leader /\ info'.isr \subseteq info.isr
WriteEpochMoves == [][InfoMoves]_info

\* Why: what nsqlookupd holds of the topic, in the task that runs, in those that wait and
\* in the timer of a join session, is older than what is stored, or the same; so the
\* comparison of epochs in UpdateTopicNodeInfo lets no change be made to anything but
\* the stored info.  (A join whose update was refused goes on with an info that was
\* never stored; its epoch is an old one.)
IsInfo(i) ==
    /\ i = [leader |-> i.leader, isr |-> i.isr, catchup |-> i.catchup, replica |-> i.replica,
            epoch |-> i.epoch, wepoch |-> i.wepoch]
    /\ i.epoch \in Nat /\ i.wepoch \in Nat
IsTask(t) ==
    t = [kind |-> t.kind, step |-> t.step, info |-> t.info, session |-> t.session, node |-> t.node,
         flag |-> t.flag, stale |-> t.stale]
SnapshotOf(stored, i) ==
    IsInfo(i) /\ i.epoch <= stored.epoch /\ (i.epoch = stored.epoch => i = stored)
EpochNamesInfo ==
    /\ IsInfo(info)
    /\ task # None => IsTask(task) /\ SnapshotOf(info, task.info)
    /\ timer # None => SnapshotOf(info, timer)
    /\ \A p \in pending : SnapshotOf(info, p.info)
=============================================================================
