--------------------------- MODULE LookupRequests ---------------------------
(***************************************************************************)
(* What the leading nsqlookupd is asked to do and what it does by itself:  *)
(* the requests of the nodes (nsqlookup_coord_rpc.go), join sessions and   *)
(* their timer, the periodic check of the topic (doCheckTopics), and the   *)
(* moves of the balancer.                                                  *)
(*                                                                         *)
(* A handler that changes the topic info compares the epoch it read before *)
(* it waited for the lock, so handling the request when the lock is free   *)
(* and with the info found then leaves nothing out but its failure.        *)
(***************************************************************************)
EXTENDS LookupCoord

---------------------------------------------------------------------------
\* Leaving the ISR.

Removed(i, nodes, catchup) ==
    [i EXCEPT !.isr = @ \ nodes, !.catchup = IF catchup THEN @ \cup nodes ELSE @ \ nodes]

\* handleRemoveISRNodes, with the topic info i.  rest: what is pending besides.
RemoveISRNodes(nodes, i, catchup, rest) ==
    IF \/ join.waiting \/ ~Current(i) \/ nodes = {} \/ i.isr \subseteq nodes
       \/ ~catchup /\ ~Quorum(Removed(i, nodes, catchup))
    THEN pending' = rest /\ UNCHANGED info
    ELSE /\ CanStore /\ info' = Stored(Removed(i, nodes, catchup))
         /\ Spawns(rest \cup {WaitingMeta(info', Members(info'))})

\* handleLeaveFromISR.
HandleLeave(q) ==
    /\ q \in requests /\ q.kind \in {"leave", "leaveByLeader"} /\ task = None
    /\ LET rest == requests \ {q}
           refused == \/ join.waiting
                      \/ q.kind = "leaveByLeader" /\ (skey = NoSession \/ q.session # skey)
           ok == IF q.kind = "leave" /\ q.rejoin THEN rest \cup {JoinCatchup(q.node)} ELSE rest IN
       \/ /\ q.node \notin info.isr
          /\ requests' = ok /\ UNCHANGED <<info, task, pending, join, timer>>
       \/ /\ q.node \in info.isr /\ ~Quorum(info)
          /\ Spawns(pending \cup {WaitingMeta(info, info.catchup)})
          /\ requests' = rest /\ UNCHANGED <<info, task, join, timer>>
       \/ /\ q.node = info.leader /\ info.leader \in info.isr /\ Quorum(info)
          /\ requests' = ok /\ UNCHANGED <<info, pending>>
          /\ IF join.waiting THEN UNCHANGED <<task, join, timer>> ELSE BeginsElection(FALSE)
       \/ /\ q.node \in info.isr \ {info.leader} /\ Quorum(info)
          /\ requests' = IF refused THEN rest ELSE ok
          /\ IF refused THEN UNCHANGED <<info, pending>> ELSE RemoveISRNodes({q.node}, info, TRUE, pending)
          /\ UNCHANGED <<task, join, timer>>
    /\ UNCHANGED <<skey, alive, up, coord, log, nextID, writer, catching, late, retry, lost, ghostVars>>

\* The removal that follows a join session or a move.
RemoveLater(p) ==
    /\ p \in pending /\ p.kind = "remove" /\ task = None
    /\ RemoveISRNodes(p.nodes, p.info, p.catchup, pending \ {p})
    /\ UNCHANGED <<skey, nodeVars, task, join, timer, retry, lost, ghostVars>>

---------------------------------------------------------------------------
\* Catching up and joining the ISR.

AddsCatchup(n, q) ==
    LET new == [info EXCEPT !.catchup = @ \cup {n}]
        i == IF n \in info.catchup THEN info ELSE Stored(new) IN
    /\ n \in info.catchup \/ CanStore
    /\ info' = i /\ requests' = requests \ q
    /\ Spawns(pending \cup {WaitingMeta(i, Members(i))})

\* handleRequestJoinCatchup.
HandleJoinCatchup(q) ==
    /\ q \in requests /\ q.kind = "joinCatchup"
    /\ IF q.node \in info.isr \/ Cardinality(info.isr) + Cardinality(info.catchup) > info.replica
       THEN requests' = requests \ {q} /\ UNCHANGED <<info, pending>>
       ELSE AddsCatchup(q.node, {q})
    /\ UNCHANGED <<skey, alive, up, coord, log, nextID, writer, catching, late,
                   task, join, timer, retry, lost, ghostVars>>

\* handleRequestJoinISR, up to the goroutine that waits for the lock.
HandleJoinISR(q) ==
    /\ q \in requests /\ q.kind = "joinISR"
    /\ LET p == IF /\ q.node \in info.catchup /\ Cardinality(info.isr) <= info.replica
                   /\ skey # NoSession
                THEN {WaitingJoin(info, skey, q.node)} ELSE {} IN
       Spawns(pending \cup p)
    /\ requests' = requests \ {q}
    /\ UNCHANGED <<etcdVars, alive, up, coord, log, nextID, writer, catching, late,
                   task, join, timer, retry, lost, ghostVars>>

\* The goroutine of handleRequestJoinISR and that of revokeEnableTopicWrite.
BeginJoin(p) ==
    /\ p \in pending /\ p.kind \in {"join", "revoke"} /\ task = None
    /\ IF join.waiting /\ ~(p.kind = "revoke" /\ p.leading)
       THEN UNCHANGED <<task, join, timer>>
       ELSE /\ task' = Task(p.kind, "stopLeader", p.info, p.session,
                            IF p.kind = "join" THEN p.node ELSE None, FALSE)
            /\ join' = NoJoin /\ timer' = None
    /\ pending' = pending \ {p}
    /\ UNCHANGED <<etcdVars, nodeVars, retry, lost, ghostVars>>

\* A number for a new join session.  The code's sessions carry the time and never
\* repeat; a number nobody remembers is as good.
NewSession ==
    LET used == {q.js : q \in {r \in requests : r.kind \in {"sync", "ready"}}}
                \cup {catching[n].js : n \in {m \in Nodes : catching[m] # None}} IN
    CHOOSE k \in 1 .. Cardinality(used) + 1 : k \notin used /\ \A j \in 1 .. k - 1 : j \in used

\* The new ISR is stored, under a new write epoch, and initJoinStateAndWait begins:
\* with the new info even when it could not be stored.
\* JoinedTwice: the node stays in the catch-up list.  JoinedQuietly: under the old epoch.
JoinedTwice(i, n) == [i EXCEPT !.isr = @ \cup {n}, !.wepoch = @ + 1]
JoinedQuietly(i, n) == [i EXCEPT !.catchup = @ \ {n}, !.isr = @ \cup {n}]

Joined(i, n) == [i EXCEPT !.catchup = @ \ {n}, !.isr = @ \cup {n}, !.wepoch = @ + 1]

OpensWith(i) ==
    /\ join' = [waiting |-> TRUE, session |-> NewSession, ready |-> {i.leader}]
    /\ timer' = i
    /\ task' = [task EXCEPT !.step = "meta", !.info = i]

OpenJoin ==
    /\ At("open")
    /\ \/ /\ task.kind = "join" /\ Current(task.info) /\ CanStore
          /\ info' = Stored(Joined(task.info, task.node)) /\ OpensWith(info')
       \/ /\ task.kind = "join" /\ ~Current(task.info)
          /\ UNCHANGED info /\ OpensWith(Joined(task.info, task.node))
       \/ /\ task.kind = "revoke"
          /\ UNCHANGED info /\ OpensWith(task.info)
    /\ UNCHANGED <<skey, nodeVars, pending, retry, lost, ghostVars>>

\* The nodes are told the leader's session with the join session.
TaskSession ==
    /\ At("session")
    /\ NotifySession(task.info, task.session, join.session)
    /\ TaskEnds
    /\ UNCHANGED <<etcdVars, alive, up, log, nextID, writer, catching, late,
                   pending, join, timer, lost, sent, acked>>

\* handleReadyForISR: when the last one of the ISR is ready, writing is enabled.
HandleReady(q) ==
    /\ q \in requests /\ q.kind = "ready" /\ task = None
    /\ requests' = requests \ {q}
    /\ IF join.waiting /\ join.session = q.js /\ q.node \in info.isr
       THEN /\ join' = [join EXCEPT !.ready = @ \cup {q.node}]
            /\ task' = IF info.isr \subseteq join'.ready
                       THEN Task("ready", "compare", info, skey, None, FALSE) ELSE None
       ELSE UNCHANGED <<join, task>>
    /\ UNCHANGED <<etcdVars, alive, up, coord, log, nextID, writer, catching, late,
                   pending, timer, retry, lost, ghostVars>>

\* ... and the session is over.  Nodes that are catching up with an ISR that has
\* enough replicas are told so, and are dropped.
CloseJoin ==
    LET new == [task.info EXCEPT !.catchup = {}] IN
    /\ At("close")
    /\ join' = NoJoin /\ timer' = None
    /\ IF Cardinality(task.info.isr) >= task.info.replica /\ task.info.catchup # {}
       THEN /\ NotifyTopicMetaInfo(new, task.info.catchup, {})
            /\ IF Current(task.info)
               THEN CanStore /\ info' = Stored(new) /\ task' = [task EXCEPT !.step = "meta", !.info = info']
               ELSE TaskEnds /\ UNCHANGED info
       ELSE TaskEnds /\ UNCHANGED <<etcdVars, coord, nextID, requests, retry, left>>
    /\ UNCHANGED <<alive, up, log, writer, catching, late, pending, lost, sent, acked>>

\* waitForFinalSyncedISR gives up; it does not look at the session again.
TimerFires ==
    /\ timer # None
    /\ IF timer.isr \subseteq up THEN left.slow > 0 /\ left' = [left EXCEPT !.slow = @ - 1]
                               ELSE UNCHANGED left
    /\ Spawns(pending \cup {WaitingTimeout(timer)}) /\ timer' = None
    /\ UNCHANGED <<etcdVars, nodeVars, task, join, retry, lost, sent, acked>>

\* resetJoinISRState: those that are not ready leave the ISR.
Shrunk(i, ready) ==
    [i EXCEPT !.isr = @ \cap ready, !.catchup = @ \cup (i.isr \ ready), !.wepoch = @ + 1]

ResetJoin(p) ==
    LET ready == p.info.isr \cap join.ready IN
    /\ p \in pending /\ p.kind = "timeout" /\ task = None
    /\ pending' = pending \ {p}
    /\ IF join.waiting THEN join' = NoJoin /\ timer' = None ELSE UNCHANGED <<join, timer>>
    /\ \/ /\ ~join.waiting \/ Cardinality(ready) <= p.info.replica \div 2 \/ (ready # p.info.isr /\ ~Current(p.info))
          /\ UNCHANGED <<info, task>>
       \/ /\ join.waiting /\ Cardinality(ready) > p.info.replica \div 2
          /\ IF ready = p.info.isr
             THEN task' = Task("timeout", "compare", p.info, NoSession, None, FALSE) /\ UNCHANGED info
             ELSE /\ Current(p.info) /\ CanStore
                  /\ info' = Stored(Shrunk(p.info, ready))
                  /\ task' = Task("timeout", "isrMeta", info', NoSession, None, FALSE)
    /\ UNCHANGED <<skey, nodeVars, retry, lost, ghostVars>>

\* notifyISRTopicMetaInfo has to reach all of them.
ResetMeta ==
    /\ At("isrMeta")
    /\ \E done \in SUBSET (task.info.isr \cap alive) :
          /\ GoesOn(task.info.isr \cap alive, CanUpdate(task.info), done)
          /\ SendTopicInfo(task.info.isr, done, task.info, {})
          /\ IF done = task.info.isr /\ \A n \in done : ~UpdateFails(coord[n], n, task.info)
             THEN StepTo("compare") ELSE TaskEnds
    /\ UNCHANGED <<info, alive, up, log, writer, catching, late, pending, join, timer, lost, sent, acked>>

---------------------------------------------------------------------------
\* doCheckTopics.  It leaves the topic alone while a join session is on.

Checks == task = None /\ ~join.waiting

\* Replicas that are gone leave the ISR, ...
CheckFailed ==
    /\ Checks /\ (info.isr \ alive) \ {info.leader} # {}
    /\ RemoveISRNodes((info.isr \ alive) \ {info.leader}, info, TRUE, pending)
    /\ UNCHANGED <<skey, nodeVars, task, join, timer, retry, lost, ghostVars>>

\* ... a leader that is gone is replaced, ...
CheckLeader ==
    /\ Checks /\ info.leader \notin alive /\ info.isr \ alive \subseteq {info.leader}
    /\ BeginsElection(FALSE)
    /\ UNCHANGED <<etcdVars, nodeVars, pending, retry, lost, ghostVars>>

Settled == Checks /\ info.leader \in alive /\ info.isr \subseteq alive

\* ... one without its session is told to acquire it, and who has it to release it.
HolderReleases ==
    /\ skey.node \in (alive \cap up) \ {info.leader} /\ coord[skey.node].session = skey
    /\ ReleaseNotified(coord[skey.node], skey.node, info.epoch, skey.epoch)

CheckHolder ==
    /\ Settled /\ HolderReleases
    /\ skey' = NoSession /\ lost' = TRUE
    /\ UNCHANGED <<info, nodeVars, task, pending, join, timer, retry, ghostVars>>

CheckSession ==
    /\ Settled /\ skey.node # info.leader /\ ~HolderReleases
    /\ \E done \in SUBSET info.isr :
          /\ GoesOn(info.isr, CanUpdate(info), done)
          /\ SendTopicInfo(info.isr, done, info,
                 {Acquire(n, info.epoch) :
                    n \in {m \in {info.leader} \cap up : AcquireNotified(coord[m], m, info.epoch)}})
    /\ lost' = TRUE
    /\ UNCHANGED <<info, alive, up, log, writer, catching, late, task, pending, join, timer, sent, acked>>

\* handleTopicMigrate: a topic with too few replicas gets a node to catch up.
CheckMigrate(n) ==
    /\ Settled /\ skey.node = info.leader
    /\ Cardinality(info.isr \cup (info.catchup \cap alive)) < info.replica
    /\ n \in alive \ (info.isr \cup info.catchup)
    /\ AddsCatchup(n, {})
    /\ UNCHANGED <<skey, alive, up, coord, log, nextID, writer, catching, late,
                   task, join, timer, retry, lost, ghostVars>>

\* Writing that is disabled, with nobody joining, is opened again.
CheckWrite ==
    /\ Settled /\ skey.node = info.leader
    /\ info.leader \in up /\ coord[info.leader].disabled
    /\ Quorum(info)
    /\ Spawns(pending \cup {WaitingRevoke(info, skey, TRUE)})
    /\ UNCHANGED <<etcdVars, nodeVars, task, join, timer, retry, lost, ghostVars>>

\* After a session was missing all nodes are told the new one.
CheckLost ==
    /\ Settled /\ skey.node = info.leader /\ lost
    /\ ~(info.leader \in up /\ coord[info.leader].disabled)
    /\ NotifySession(info, skey, 0) /\ lost' = FALSE
    /\ UNCHANGED <<etcdVars, alive, up, log, nextID, writer, catching, late,
                   task, pending, join, timer, sent, acked>>

\* decideUnwantedISRNode: an ISR that is too large loses a follower.
CheckUnwanted(n) ==
    /\ Settled /\ skey.node = info.leader
    /\ ~(info.leader \in up /\ coord[info.leader].disabled)
    /\ Cardinality(info.isr) > info.replica /\ n \in info.isr \ {info.leader}
    /\ RemoveISRNodes({n}, info, FALSE, pending)
    /\ UNCHANGED <<skey, nodeVars, task, join, timer, retry, lost, ghostVars>>

---------------------------------------------------------------------------
\* The balancer and the administrator move replicas: addCatchupNode makes a node a
\* new one, handleMoveTopic takes the leadership or a replica away from a node.
SpendMove == left.moves > 0 /\ left' = [left EXCEPT !.moves = @ - 1]

AddCatchupNode(n) ==
    /\ SpendMove /\ n \in alive \ (info.isr \cup info.catchup)
    /\ AddsCatchup(n, {})
    /\ UNCHANGED <<skey, alive, up, coord, log, nextID, writer, catching, late,
                   task, join, timer, retry, lost, sent, acked>>

HandleMoveTopic(n) ==
    /\ SpendMove /\ task = None /\ ~join.waiting /\ n \in info.isr /\ Quorum(info)
    /\ \/ /\ n = info.leader /\ BeginsElection(TRUE) /\ UNCHANGED <<info, pending>>
       \/ /\ n # info.leader /\ RemoveISRNodes({n}, info, FALSE, pending) /\ UNCHANGED <<task, join, timer>>
    /\ UNCHANGED <<skey, nodeVars, retry, lost, sent, acked>>

\* Another nsqlookupd takes over.  What the old one held in memory is gone, and the
\* new one tells every node of the topic again.
LookupFailover ==
    /\ left.crash > 0 /\ left' = [left EXCEPT !.crash = @ - 1]
    /\ task' = None /\ pending' = {} /\ join' = NoJoin /\ timer' = None /\ lost' = FALSE
    /\ retry' = Members(info) \cap alive
    /\ UNCHANGED <<etcdVars, nodeVars, sent, acked>>
=============================================================================
