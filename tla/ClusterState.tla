---------------------------- MODULE ClusterState ----------------------------
(***************************************************************************)
(* The state of a cluster that holds one topic partition: etcd, the nsqd   *)
(* nodes, the nsqlookupd that coordinates them, and what is on its way     *)
(* between them; and the calls of nsqlookupd to nsqd as steps on it.       *)
(***************************************************************************)
EXTENDS TopicCoord

CONSTANTS
    StartLog,        \* entries every replica starts with
    MaxRetry,        \* MAX_WRITE_RETRY
    Budgets,         \* [replica, writes, epoch, crash, lost, slow, moves] to start with:
                     \* the replication factor, writes a client makes, versions of the
                     \* topic info, nodes that crash or leave, calls that are lost or late,
                     \* join sessions that time out with all nodes up, and moves by the
                     \* balancer
    MaxPending,      \* goroutines of nsqlookupd that wait
    MaxRequests      \* requests of nodes that wait

ASSUME ClusterAssumption ==
    /\ None \notin Nodes /\ IsFiniteSet(Nodes)
    /\ StartLog \in Nat
    /\ Budgets \subseteq [replica : 2 .. Cardinality(Nodes), writes : Nat, epoch : Nat,
                          crash : Nat, lost : Nat, slow : Nat, moves : Nat]
    /\ {MaxRetry, MaxPending, MaxRequests} \subseteq Nat \ {0}

VARIABLES
    info, skey,      \* etcd: the topic info and the leader session key
    alive,           \* the nodes nsqlookupd sees in etcd
    up, coord,       \* nsqd: running nodes, and their coordinators
    log, nextID,     \* nsqd: the commit log, and nLogID
    writer,          \* nsqd: the write a node is replicating, or None
    catching,        \* nsqd: the catch-up a node is running, or None
    requests,        \* what nodes are about to do, or have asked nsqlookupd
    late,            \* writes a replica let in and that wait for its write lock
    task, pending,   \* nsqlookupd: who holds the join state, and who waits for it
    join, timer,     \* nsqlookupd: the join session, and the info its timer holds
    retry,           \* nsqlookupd: nodes a call to failed
    lost,            \* nsqlookupd: the leader session was found missing
    left,            \* what is left of the budget
    sent, acked      \* writes made so far, and the entries that were acknowledged

etcdVars == <<info, skey>>
nodeVars == <<alive, up, coord, log, nextID, writer, catching, requests, late>>
lookupVars == <<task, pending, join, timer, retry, lost>>
ghostVars == <<left, sent, acked>>
vars == <<info, skey, alive, up, coord, log, nextID, writer, catching, requests, late,
          task, pending, join, timer, retry, lost, left, sent, acked>>

NoJoin == [waiting |-> FALSE, session |-> 0, ready |-> {}]

\* Somebody holds the node's write lock: a write to the cluster, or a catch-up.
Held(n) == writer[n] # None \/ catching[n] # None

\* Requests: the leader session to acquire (acquire), the log to compare with the
\* leader's (sync), and what is sent to nsqlookupd: leave and leaveByLeader,
\* joinCatchup, joinISR and ready.
Acquire(n, epoch) == [kind |-> "acquire", node |-> n, epoch |-> epoch]
Sync(n, leader, js, must) ==
    [kind |-> "sync", node |-> n, leader |-> leader, js |-> js, must |-> must]
Leave(n) == [kind |-> "leave", node |-> n, rejoin |-> FALSE]
LeaveAndCatchup(n) == [kind |-> "leave", node |-> n, rejoin |-> TRUE]
LeaveByLeader(n, s) == [kind |-> "leaveByLeader", node |-> n, session |-> s]
JoinCatchup(n) == [kind |-> "joinCatchup", node |-> n]
JoinISR(n) == [kind |-> "joinISR", node |-> n]
Ready(n, js) == [kind |-> "ready", node |-> n, js |-> js]

\* No more than MaxRequests and MaxPending wait for nsqlookupd at a time.
Asks(rs) ==
    /\ requests' = rs
    /\ Cardinality({q \in rs : q.kind \notin {"acquire", "sync"}}) <= MaxRequests
Spawns(ps) == pending' = ps /\ Cardinality({p \in ps : p.kind # "remove"}) <= MaxPending

\* The CompareAndDelete of a node's leader session in etcd (releaseTopicLeader).
Released(n, key) == IF coord[n].session = key THEN NoSession ELSE key

SpendLost(k) == left.lost >= k /\ left' = [left EXCEPT !.lost = @ - k]

---------------------------------------------------------------------------
\* Calls of nsqlookupd to nsqd.  to is the set of nodes called, done the set of
\* those that carried the call out.

\* The node can answer a call that needs the write lock.
CanLock(n) == n \in up /\ ~Held(n)

\* A round of calls, one node after the other, that stops at the first error: ok
\* when all of `to` answered.  A call that could have been answered and was not, or
\* whose answer was lost, is a fault.
StopsAtError(to, able, done, ok) ==
    /\ done \subseteq to \cap able
    /\ ok => done = to
    /\ SpendLost(IF ok \/ ~(to \subseteq able) THEN 0 ELSE 1)

\* A round of calls that goes on after an error.
GoesOn(to, able, done) ==
    /\ done \subseteq to \cap able
    /\ SpendLost(Cardinality((to \cap able) \ done))

\* SetDisabledLost: the call is answered before the node has done it.
SetDisabledLost(nodes) == UNCHANGED coord

SetDisabled(nodes) ==
    coord' = [n \in Nodes |-> IF n \in nodes THEN DisableTopicWrite(coord[n]) ELSE coord[n]]
SetEnabled(nodes) ==
    coord' = [n \in Nodes |-> IF n \in nodes THEN EnableTopicWrite(coord[n]) ELSE coord[n]]

\* Nodes that can carry out UpdateTopicInfo(new).
CanUpdate(new) ==
    {n \in up : ~(Held(n) /\ UpdateLocks(coord[n], n, new))}

\* The nodes in `done` carry out UpdateTopicInfo(new), those in `to` that did not, or
\* that answered with an error, are noted for a retry.
SendTopicInfo(to, done, new, more) ==
    /\ coord' = [n \in Nodes |-> IF n \in done THEN UpdateTopicInfo(coord[n], n, new) ELSE coord[n]]
    /\ nextID' = [n \in Nodes |-> IF n \in done /\ ~coord[n].loaded THEN LoadedID(log[n]) ELSE nextID[n]]
    /\ skey' = IF \E n \in done : UpdateReleases(coord[n], n, new) /\ coord[n].session = skey
               THEN NoSession ELSE skey
    /\ requests' = requests \cup more \cup
           {Acquire(n, new.epoch) : n \in {m \in done : UpdateAcquires(coord[m], m, new)}}
    /\ retry' = retry \cup ((to \cap alive) \ done) \cup {n \in done : UpdateFails(coord[n], n, new)}

\* The nodes in `done` carry out NotifyTopicLeaderSession(s, js).
SendSession(to, done, s, js) ==
    /\ coord' = [n \in Nodes |-> IF n \in done THEN NotifyTopicLeaderSession(coord[n], n, s, js)
                                               ELSE coord[n]]
    /\ requests' = requests \cup
           {Sync(n, s.node, js, coord[n].disabled) : n \in {m \in done : SessionSyncs(coord[m], m, s, js)}}
    /\ retry' = retry \cup ((to \cap alive) \ done) \cup {n \in done : SessionFails(coord[n], n, s, js)}
=============================================================================
