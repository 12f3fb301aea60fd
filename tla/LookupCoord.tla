---------------------------- MODULE LookupCoord ----------------------------
(***************************************************************************)
(* The leading nsqlookupd (consistence/nsqlookup_coordinator.go and        *)
(* nsqlookup_coord_rpc_helper.go): elections, replicas that join the ISR   *)
(* and leave it, writing disabled and enabled again.                       *)
(*                                                                         *)
(* A task holds the lock of the topic's JoinISRState from its first step   *)
(* to its last, and takes a step for every round of calls it makes.  task  *)
(* is [kind, step, info, session, node, flag, stale]: info and session are *)
(* what it read before it waited for the lock, node the one that joins or  *)
(* was elected.  pending holds the goroutines that wait.                   *)
(***************************************************************************)
EXTENDS NsqdCoord

Task(kind, step, i, s, n, flag) ==
    [kind |-> kind, step |-> step, info |-> i, session |-> s, node |-> n, flag |-> flag, stale |-> FALSE]

WaitingJoin(i, s, n) == [kind |-> "join", info |-> i, session |-> s, node |-> n]
WaitingRevoke(i, s, leading) == [kind |-> "revoke", info |-> i, session |-> s, leading |-> leading]
WaitingTimeout(i) == [kind |-> "timeout", info |-> i]
WaitingRemove(i, nodes, catchup) == [kind |-> "remove", info |-> i, nodes |-> nodes, catchup |-> catchup]
WaitingMeta(i, to) == [kind |-> "meta", info |-> i, to |-> to]

\* UpdateTopicNodeInfo compares the epoch and stores the info under the next one.
\* CurrentUnchecked: it stores without comparing.
CurrentUnchecked(i) == TRUE

Current(i) == i.epoch = info.epoch
Stored(i) == [i EXCEPT !.epoch = @ + 1]
CanStore == info.epoch < left.epoch

At(step) == task # None /\ task.step = step
StepTo(step) == task' = [task EXCEPT !.step = step]
TaskEnds == task' = None

\* The nodes that can disable or enable their writing.
Switchable == {n \in up : ~Held(n) /\ coord[n].loaded}

---------------------------------------------------------------------------
\* Telling the nodes.  A call that could have been carried out and was not is a fault.

\* notifyTopicMetaInfo and its kin: the leader first, when it is among those to tell,
\* then the others, unless the leader failed.
Called(i, to, done) ==
    IF i.leader \in to /\ ~(i.leader \in done /\ ~UpdateFails(coord[i.leader], i.leader, i))
    THEN {i.leader} \cap alive ELSE to \cap alive

NotifyTopicMetaInfo(i, to, more) ==
    \E done \in SUBSET (to \cap alive) : \E called \in {Called(i, to, done)} :
        /\ done \subseteq called
        /\ GoesOn(called, CanUpdate(i), done)
        /\ SendTopicInfo(called, done, i, more)

\* notifyTopicLeaderSession.
SessionCalled(i, done, s, js) ==
    IF i.leader \in done /\ ~SessionFails(coord[i.leader], i.leader, s, js)
    THEN Members(i) \cap alive ELSE {i.leader} \cap alive

NotifySession(i, s, js) ==
    \E done \in SUBSET (Members(i) \cap alive) : \E called \in {SessionCalled(i, done, s, js)} :
        /\ done \subseteq called
        /\ GoesOn(called, up, done)
        /\ SendSession(called, done, s, js)

\* A goroutine that only tells the nodes.
NotifyLater(p) ==
    /\ p \in pending /\ p.kind = "meta"
    /\ NotifyTopicMetaInfo(p.info, p.to, {})
    /\ pending' = pending \ {p}
    /\ UNCHANGED <<info, alive, up, log, writer, catching, late, task, join, timer, lost, sent, acked>>

\* One node is told the topic info and then the leader session: rpcFailRetryFunc,
\* handleRequestNewTopicInfo and notifySingleNsqdForTopicReload.
Told(c, n, s) ==
    IF UpdateFails(c, n, info) \/ s = NoSession THEN UpdateTopicInfo(c, n, info)
    ELSE NotifyTopicLeaderSession(UpdateTopicInfo(c, n, info), n, s, 0)

\* c is the coordinator after the first call, s the session found then.
TellNode(n, c, s, ok) ==
    /\ coord' = [coord EXCEPT ![n] = Told(@, n, s)]
    /\ nextID' = [nextID EXCEPT ![n] = IF coord[n].loaded THEN @ ELSE LoadedID(log[n])]
    /\ skey' = s
    /\ requests' = requests
           \cup {Acquire(n, info.epoch) : x \in {m \in {n} : UpdateAcquires(coord[m], m, info)}}
           \cup {Sync(n, s.node, 0, c.disabled) : x \in {m \in {n} : ok /\ SessionSyncs(c, m, s, 0)}}
    /\ retry' = IF ok /\ ~SessionFails(c, n, s, 0) THEN retry \ {n} ELSE retry \cup {n}

Tell(n) ==
    TellNode(n, UpdateTopicInfo(coord[n], n, info),
             IF UpdateReleases(coord[n], n, info) THEN Released(n, skey) ELSE skey,
             ~UpdateFails(coord[n], n, info) /\ skey # NoSession /\ ~UpdateReleases(coord[n], n, info))

RetryRpc(n) ==
    /\ n \in retry
    /\ \/ /\ n \in alive \cap Members(info) \cap CanUpdate(info) /\ Tell(n)
       \/ /\ n \notin alive \/ n \notin info.isr \cup info.catchup
          /\ retry' = retry \ {n} /\ UNCHANGED <<coord, nextID, skey, requests>>
    /\ UNCHANGED <<info, alive, up, log, writer, catching, late, task, pending, join, timer, lost, ghostVars>>

---------------------------------------------------------------------------
\* The nodes in etcd, handleNsqdNodes.  An election that began before notices.

Unsettles == task' = IF task # None /\ task.kind = "elect" THEN [task EXCEPT !.stale = TRUE] ELSE task

\* A node that runs may lose its registration too.
NodeLost(n) ==
    /\ n \in alive /\ alive' = alive \ {n}
    /\ IF n \in up THEN SpendLost(1) ELSE UNCHANGED left
    /\ Unsettles
    /\ UNCHANGED <<etcdVars, up, coord, log, nextID, writer, catching, requests, late,
                   pending, join, timer, retry, lost, sent, acked>>

NodeJoined(n) ==
    /\ n \in up \ alive /\ alive' = alive \cup {n}
    /\ Unsettles
    /\ IF n \in info.isr \cup info.catchup /\ n \in CanUpdate(info)
       THEN Tell(n) ELSE UNCHANGED <<coord, nextID, skey, requests, retry>>
    /\ LET again == IF /\ n \in info.isr /\ InvalidChange(coord[n], n, info) /\ ~OldEpoch(coord[n], info)
                       /\ Quorum(info) /\ skey # NoSession
                    THEN {WaitingRevoke(info, skey, FALSE)} ELSE {} IN
       Spawns(pending \cup again)
    /\ UNCHANGED <<info, up, log, writer, catching, late, join, timer, lost, ghostVars>>

---------------------------------------------------------------------------
\* Elections.

BeginsElection(oldAlive) ==
    /\ task' = Task("elect", "stopLeader", info, skey, None, oldAlive)
    /\ join' = NoJoin /\ timer' = None

\* chooseNewLeaderFromISR: one of those with the newest log id among the replicas
\* that answered.
Newest(read) == {n \in read : \A m \in read : LastID(log[m]) <= LastID(log[n])}

ElectChoose ==
    /\ At("choose")
    /\ \E read \in SUBSET ((task.info.isr \cap alive) \ {task.info.leader}) :
          /\ GoesOn((task.info.isr \cap alive) \ {task.info.leader}, {n \in up : coord[n].loaded}, read)
          /\ \/ ~task.stale /\ \E n \in Newest(read) : task' = [task EXCEPT !.step = "release", !.node = n]
             \/ (task.stale \/ read = {}) /\ TaskEnds
    /\ UNCHANGED <<etcdVars, nodeVars, pending, join, timer, retry, lost, sent, acked>>

\* The old leader is told to release its session, waitOldLeaderRelease waits for it,
\* and deletes the session of a leader that is gone.
ElectRelease ==
    LET leader == task.info.leader
        told == leader \in alive \cap up /\ task.session # NoSession
        releases == told /\ ReleaseNotified(coord[leader], leader, task.info.epoch, task.session.epoch) IN
    /\ At("release")
    /\ \/ /\ skey = NoSession \/ leader \notin alive
          /\ skey' = NoSession /\ StepTo("store") /\ UNCHANGED left
       \/ /\ skey # NoSession /\ releases
          /\ skey' = Released(leader, skey) /\ UNCHANGED left
          /\ IF skey' = NoSession THEN StepTo("store") ELSE TaskEnds
       \/ /\ skey # NoSession /\ leader \in alive
          /\ SpendLost(IF releases THEN 1 ELSE 0)
          /\ TaskEnds /\ UNCHANGED skey
    /\ UNCHANGED <<info, nodeVars, pending, join, timer, retry, lost, sent, acked>>

\* makeNewTopicLeaderAcknowledged: the old leader stays in the ISR or has to catch up.
NewLeaderInfo(i, n, oldAlive) ==
    [i EXCEPT !.leader = n, !.wepoch = @ + 1,
              !.isr = IF oldAlive THEN @ \cup {i.leader} ELSE @ \ {i.leader},
              !.catchup = IF oldAlive THEN @ \ {i.leader} ELSE @ \cup {i.leader}]

ElectStore ==
    /\ At("store")
    /\ \E done \in SUBSET {task.node}, ok \in BOOLEAN :
          /\ StopsAtError({task.node}, Switchable, done, ok)
          /\ SetDisabled(done)
          /\ \/ /\ ok /\ Current(task.info) /\ CanStore
                /\ info' = Stored(NewLeaderInfo(task.info, task.node, task.flag))
                /\ task' = [task EXCEPT !.step = "meta", !.info = info', !.node = task.info.leader]
             \/ /\ ~(ok /\ Current(task.info))
                /\ TaskEnds /\ UNCHANGED info
    /\ UNCHANGED <<skey, alive, up, log, nextID, writer, catching, requests, late,
                   pending, join, timer, retry, lost, sent, acked>>

\* The new leader has acquired a session: writing is opened again.  A leader that was
\* moved away is then no longer needed in an ISR that is too large.
ElectAcquired ==
    /\ At("acquire") \/ At("acquireAgain")
    /\ skey # NoSession
    /\ LET revoke == IF Quorum(info) THEN {WaitingRevoke(info, skey, TRUE)} ELSE {}
           remove == IF task.flag /\ Cardinality(task.info.isr) > task.info.replica
                     THEN {WaitingRemove(task.info, {task.node}, FALSE)} ELSE {} IN
       Spawns(pending \cup revoke \cup remove)
    /\ TaskEnds
    /\ UNCHANGED <<etcdVars, nodeVars, join, timer, retry, lost, ghostVars>>

\* ... or has not: the ISR is told again and the leader to acquire one.  The rounds of
\* this are one round here.
ElectRenotify ==
    /\ At("acquire") /\ skey = NoSession /\ task.info.leader \in alive
    /\ \E done \in SUBSET (task.info.isr \cap alive) :
          /\ GoesOn(task.info.isr \cap alive, CanUpdate(task.info), done)
          /\ SendTopicInfo(task.info.isr, done, task.info,
                 {Acquire(n, task.info.epoch) :
                    n \in {m \in {task.info.leader} \cap up : AcquireNotified(coord[m], m, task.info.epoch)}})
    /\ StepTo("acquireAgain")
    /\ UNCHANGED <<info, alive, up, log, writer, catching, late, pending, join, timer, lost, sent, acked>>

ElectFails ==
    /\ skey = NoSession
    /\ At("acquireAgain") \/ (At("acquire") /\ task.info.leader \notin alive)
    /\ TaskEnds
    /\ UNCHANGED <<etcdVars, nodeVars, pending, join, timer, retry, lost, ghostVars>>

---------------------------------------------------------------------------
\* Steps that several tasks take.

\* notifyLeaderDisableTopicWrite; an election goes on without the leader.
StopLeader ==
    /\ At("stopLeader")
    /\ \E done \in SUBSET {task.info.leader}, ok \in BOOLEAN :
          /\ StopsAtError({task.info.leader}, Switchable, done, ok)
          /\ SetDisabled(done)
          /\ IF ok \/ task.kind = "elect" THEN StepTo("stopISR") ELSE TaskEnds
    /\ UNCHANGED <<etcdVars, alive, up, log, nextID, writer, catching, requests, late,
                   pending, join, timer, retry, lost, sent, acked>>

\* notifyISRDisableTopicWrite; the node that joins comes last.
StopISR ==
    LET joins == IF task.kind = "join" THEN {task.node} ELSE {}
        to == (task.info.isr \cup joins) \ {task.info.leader} IN
    /\ At("stopISR")
    /\ \E done \in SUBSET to, ok \in BOOLEAN :
          /\ StopsAtError(to, Switchable, done, ok)
          /\ done \cap joins # {} => to \ joins \subseteq done
          /\ SetDisabled(done)
          /\ IF ok THEN StepTo(IF task.kind = "elect" THEN "choose" ELSE "open") ELSE TaskEnds
    /\ UNCHANGED <<etcdVars, alive, up, log, nextID, writer, catching, requests, late,
                   pending, join, timer, retry, lost, sent, acked>>

TaskMeta ==
    /\ At("meta")
    /\ NotifyTopicMetaInfo(task.info, Members(task.info), {})
    /\ IF task.kind = "ready" THEN TaskEnds
       ELSE StepTo(IF task.kind = "elect" THEN "acquire" ELSE "session")
    /\ UNCHANGED <<info, alive, up, log, writer, catching, late, pending, join, timer, lost, sent, acked>>

\* checkISRLogConsistence: ids of the last entries are compared, nothing else.
Wrong(i, read) == {n \in read : LastID(log[n]) # LastID(log[i.leader])}

Compare ==
    /\ At("compare")
    /\ \E read \in SUBSET task.info.isr :
          /\ GoesOn(task.info.isr, {n \in up : coord[n].loaded}, read)
          /\ IF task.info.leader \in read /\ read = task.info.isr /\ Wrong(task.info, read) = {}
             THEN StepTo("startISR") /\ UNCHANGED pending
             ELSE LET remove == IF task.kind = "timeout" /\ task.info.leader \in read /\ Wrong(task.info, read) # {}
                                THEN {WaitingRemove(task.info, Wrong(task.info, read), TRUE)} ELSE {} IN
                  TaskEnds /\ Spawns(pending \cup remove)
    /\ UNCHANGED <<etcdVars, nodeVars, join, timer, retry, lost, sent, acked>>

\* notifyEnableTopicWrite: the followers, and the leader after all of them.
AfterStart == IF task.kind = "ready" THEN StepTo("close") ELSE TaskEnds

StartISR ==
    LET to == task.info.isr \ {task.info.leader} IN
    /\ At("startISR")
    /\ IF task.kind = "ready" /\ ~Quorum(task.info)
       THEN StepTo("close") /\ UNCHANGED <<coord, left>>
       ELSE \E done \in SUBSET to, ok \in BOOLEAN :
               /\ StopsAtError(to, Switchable, done, ok)
               /\ SetEnabled(done)
               /\ IF ok THEN StepTo("startLeader") ELSE AfterStart
    /\ UNCHANGED <<etcdVars, alive, up, log, nextID, writer, catching, requests, late,
                   pending, join, timer, retry, lost, sent, acked>>

StartLeader ==
    /\ At("startLeader")
    /\ \E done \in SUBSET {task.info.leader}, ok \in BOOLEAN :
          /\ StopsAtError({task.info.leader}, Switchable, done, ok)
          /\ SetEnabled(done)
    /\ AfterStart
    /\ UNCHANGED <<etcdVars, alive, up, log, nextID, writer, catching, requests, late,
                   pending, join, timer, retry, lost, sent, acked>>
=============================================================================
