--------------------------- MODULE ClusterProofs ---------------------------
(***************************************************************************)
(* Changes of the topic info, for any number of nodes and any faults:      *)
(* EpochNamesInfo is an inductive invariant of Cluster, and by it every    *)
(* change is made to the stored info under the next epoch.                 *)
(***************************************************************************)
EXTENDS Cluster, TLAPS

\* A topic info that may be remembered after a step: a snapshot of the stored one, or
\* the one the step stores.
Remembered(i) == SnapshotOf(info, i) \/ i = info'

\* What is shown of every step: the invariant again, and that the topic info is left
\* alone or changes as WriteEpochMoves says.
Kept == EpochNamesInfo' /\ (info' = info \/ InfoMoves)

\* A step that stores nothing or stores an info under the next epoch, and remembers
\* only such infos, is such a step.
LEMMA Remember ==
    ASSUME EpochNamesInfo,
           info' = info \/ (IsInfo(info') /\ InfoMoves),
           task' # None => IsTask(task') /\ Remembered(task'.info),
           timer' # None => Remembered(timer'),
           \A p \in pending' : Remembered(p.info)
    PROVE  Kept
<1>1. IsInfo(info') /\ IsInfo(info)
  BY Zenon DEF EpochNamesInfo
<1>2. info.epoch \in Nat /\ info'.epoch \in Nat
  BY <1>1 DEF IsInfo
<1>3. \A i : SnapshotOf(info, i) => SnapshotOf(info', i)
  <2> SUFFICES ASSUME NEW i, SnapshotOf(info, i) PROVE SnapshotOf(info', i)
    OBVIOUS
  <2>1. IsInfo(i) /\ i.epoch \in Nat
    BY DEF SnapshotOf, IsInfo
  <2>2. i.epoch <= info.epoch /\ (i.epoch = info.epoch => i = info)
    BY DEF SnapshotOf
  <2>3. i.epoch <= info'.epoch /\ (i.epoch = info'.epoch => i = info')
    BY <1>2, <2>1, <2>2 DEF InfoMoves
  <2>4. QED BY <2>1, <2>3 DEF SnapshotOf
<1>4. SnapshotOf(info', info')
  BY <1>1, <1>2 DEF SnapshotOf
<1>5. \A i : Remembered(i) => SnapshotOf(info', i)
  BY <1>3, <1>4, Zenon DEF Remembered
<1>6. EpochNamesInfo'
  BY <1>1, <1>5, Zenon DEF EpochNamesInfo
<1>7. QED BY <1>6, Zenon DEF Kept

\* One that stores nothing: what it holds afterwards it held before, or read just now.
LEMMA Quiet ==
    ASSUME EpochNamesInfo, info' = info,
           task' # None => task' = task \/ (IsTask(task') /\ SnapshotOf(info, task'.info)),
           timer' # None => timer' = timer,
           \A p \in pending' : p \in pending \/ SnapshotOf(info, p.info)
    PROVE  Kept
<1>1. \A i : SnapshotOf(info, i) => Remembered(i)
  BY Zenon DEF Remembered
<1>2. task' # None => IsTask(task') /\ Remembered(task'.info)
  BY <1>1, Zenon DEF EpochNamesInfo
<1>3. timer' # None => Remembered(timer')
  BY <1>1, Zenon DEF EpochNamesInfo
<1>4. \A p \in pending' : Remembered(p.info)
  BY <1>1, Zenon DEF EpochNamesInfo
<1>5. QED BY <1>2, <1>3, <1>4, Remember, Zenon

\* The info just read is a snapshot.
LEMMA InfoItself == ASSUME EpochNamesInfo PROVE SnapshotOf(info, info) /\ IsInfo(info)
<1>1. IsInfo(info)
  BY Zenon DEF EpochNamesInfo
<1>2. QED BY <1>1 DEF SnapshotOf, IsInfo

-----------------------------------------------------------------------------
(* What the operators on topic infos and tasks return.                     *)

\* UpdateTopicNodeInfo stores the info it is given under the next epoch.
LEMMA StoredInfo ==
    ASSUME NEW i, IsInfo(i)
    PROVE  /\ IsInfo(Stored(i)) /\ Stored(i).epoch = i.epoch + 1
           /\ Stored(i).wepoch = i.wepoch /\ Stored(i).leader = i.leader /\ Stored(i).isr = i.isr
BY DEF IsInfo, Stored

\* An info with one field changed.
LEMMA WithField ==
    ASSUME NEW i, IsInfo(i), NEW v
    PROVE  /\ LET new == [i EXCEPT !.isr = v] IN
              /\ IsInfo(new) /\ new.epoch = i.epoch /\ new.wepoch = i.wepoch
              /\ new.leader = i.leader /\ new.isr = v
           /\ LET new == [i EXCEPT !.catchup = v] IN
              /\ IsInfo(new) /\ new.epoch = i.epoch /\ new.wepoch = i.wepoch
              /\ new.leader = i.leader /\ new.isr = i.isr
           /\ LET new == [i EXCEPT !.leader = v] IN
              IsInfo(new) /\ new.epoch = i.epoch /\ new.wepoch = i.wepoch
           /\ LET new == [i EXCEPT !.wepoch = @ + 1] IN
              IsInfo(new) /\ new.epoch = i.epoch /\ new.wepoch = i.wepoch + 1
<1>1. LET new == [i EXCEPT !.isr = v] IN
      /\ IsInfo(new) /\ new.epoch = i.epoch /\ new.wepoch = i.wepoch
      /\ new.leader = i.leader /\ new.isr = v
  BY DEF IsInfo
<1>2. LET new == [i EXCEPT !.catchup = v] IN
      /\ IsInfo(new) /\ new.epoch = i.epoch /\ new.wepoch = i.wepoch
      /\ new.leader = i.leader /\ new.isr = i.isr
  BY DEF IsInfo
<1>3. LET new == [i EXCEPT !.leader = v] IN IsInfo(new) /\ new.epoch = i.epoch /\ new.wepoch = i.wepoch
  BY DEF IsInfo
<1>4. LET new == [i EXCEPT !.wepoch = @ + 1] IN
      IsInfo(new) /\ new.epoch = i.epoch /\ new.wepoch = i.wepoch + 1
  BY DEF IsInfo
<1>5. QED BY <1>1, <1>2, <1>3, <1>4

\* Removing replicas from the ISR keeps the leader and the write epoch.
LEMMA RemovedInfo ==
    ASSUME NEW i, IsInfo(i), NEW nodes, NEW catchup
    PROVE  /\ IsInfo(Removed(i, nodes, catchup)) /\ Removed(i, nodes, catchup).epoch = i.epoch
           /\ Removed(i, nodes, catchup).wepoch = i.wepoch /\ Removed(i, nodes, catchup).leader = i.leader
           /\ Removed(i, nodes, catchup).isr \subseteq i.isr
<1> DEFINE list == IF catchup THEN i.catchup \cup nodes ELSE i.catchup \ nodes
           r == i.isr \ nodes
           a == [i EXCEPT !.isr = r]
<1>1. Removed(i, nodes, catchup) = [a EXCEPT !.catchup = list] /\ r \subseteq i.isr
  BY DEF Removed
<1> HIDE DEF r
<1>2. /\ IsInfo(a) /\ a.epoch = i.epoch /\ a.wepoch = i.wepoch
      /\ a.leader = i.leader /\ a.isr = r
  BY WithField, ZenonT(60)
<1> HIDE DEF a, list
<1>3. /\ IsInfo([a EXCEPT !.catchup = list]) /\ [a EXCEPT !.catchup = list].epoch = a.epoch
      /\ [a EXCEPT !.catchup = list].wepoch = a.wepoch /\ [a EXCEPT !.catchup = list].leader = a.leader
      /\ [a EXCEPT !.catchup = list].isr = a.isr
  BY <1>2, WithField, ZenonT(60)
<1>4. QED BY <1>1, <1>2, <1>3

\* A new leader, a node that joins the ISR and a join that timed out take the next
\* write epoch.
LEMMA NewLeaderEpoch ==
    ASSUME NEW i, IsInfo(i), NEW n, NEW oldAlive
    PROVE  /\ IsInfo(NewLeaderInfo(i, n, oldAlive)) /\ NewLeaderInfo(i, n, oldAlive).epoch = i.epoch
           /\ NewLeaderInfo(i, n, oldAlive).wepoch = i.wepoch + 1
<1> DEFINE r == IF oldAlive THEN i.isr \cup {i.leader} ELSE i.isr \ {i.leader}
           list == IF oldAlive THEN i.catchup \ {i.leader} ELSE i.catchup \cup {i.leader}
           a == [i EXCEPT !.leader = n]
           b == [a EXCEPT !.wepoch = @ + 1]
           c == [b EXCEPT !.isr = r]
           d == [c EXCEPT !.catchup = list]
<1>1. NewLeaderInfo(i, n, oldAlive) = d
  BY DEF NewLeaderInfo
<1> HIDE DEF r, list
<1>2. IsInfo(a) /\ a.epoch = i.epoch /\ a.wepoch = i.wepoch
  BY WithField, Zenon
<1> HIDE DEF a
<1>3. IsInfo(b) /\ b.epoch = a.epoch /\ b.wepoch = a.wepoch + 1
  BY <1>2, WithField, Zenon
<1> HIDE DEF b
<1>4. IsInfo(c) /\ c.epoch = b.epoch /\ c.wepoch = b.wepoch
  BY <1>3, WithField, ZenonT(60)
<1> HIDE DEF c
<1>5. IsInfo(d) /\ d.epoch = c.epoch /\ d.wepoch = c.wepoch
  BY <1>4, WithField, ZenonT(60)
<1>6. QED BY <1>1, <1>2, <1>3, <1>4, <1>5

\* A node that joins the ISR: the next write epoch, the same epoch until it is stored.
LEMMA JoinedEpoch ==
    ASSUME NEW i, IsInfo(i), NEW n
    PROVE  IsInfo(Joined(i, n)) /\ Joined(i, n).epoch = i.epoch /\ Joined(i, n).wepoch = i.wepoch + 1
<1> DEFINE list == i.catchup \ {n}
           r == i.isr \cup {n}
           a == [i EXCEPT !.catchup = list]
           b == [a EXCEPT !.isr = r]
           c == [b EXCEPT !.wepoch = @ + 1]
<1>1. Joined(i, n) = c
  BY DEF Joined
<1> HIDE DEF r, list
<1>2. IsInfo(a) /\ a.epoch = i.epoch /\ a.wepoch = i.wepoch
  BY WithField, Zenon
<1> HIDE DEF a
<1>3. IsInfo(b) /\ b.epoch = a.epoch /\ b.wepoch = a.wepoch
  BY <1>2, WithField, ZenonT(60)
<1> HIDE DEF b
<1>4. IsInfo(c) /\ c.epoch = b.epoch /\ c.wepoch = b.wepoch + 1
  BY <1>3, WithField, Zenon
<1>5. QED BY <1>1, <1>2, <1>3, <1>4

\* A join session that timed out: the same.
LEMMA ShrunkEpoch ==
    ASSUME NEW i, IsInfo(i), NEW ready
    PROVE  IsInfo(Shrunk(i, ready)) /\ Shrunk(i, ready).epoch = i.epoch /\ Shrunk(i, ready).wepoch = i.wepoch + 1
<1> DEFINE r == i.isr \cap ready
           list == i.catchup \cup (i.isr \ ready)
           a == [i EXCEPT !.isr = r]
           b == [a EXCEPT !.catchup = list]
           c == [b EXCEPT !.wepoch = @ + 1]
<1>1. Shrunk(i, ready) = c
  BY DEF Shrunk
<1> HIDE DEF r, list
<1>2. IsInfo(a) /\ a.epoch = i.epoch /\ a.wepoch = i.wepoch
  BY WithField, Zenon
<1> HIDE DEF a
<1>3. IsInfo(b) /\ b.epoch = a.epoch /\ b.wepoch = a.wepoch
  BY <1>2, WithField, ZenonT(60)
<1> HIDE DEF b
<1>4. IsInfo(c) /\ c.epoch = b.epoch /\ c.wepoch = b.wepoch + 1
  BY <1>3, WithField, Zenon
<1>5. QED BY <1>1, <1>2, <1>3, <1>4

\* A new task, and one that goes on, with the info it has or another one.
LEMMA NewTask ==
    ASSUME NEW kind, NEW step, NEW i, NEW s, NEW n, NEW flag
    PROVE  IsTask(Task(kind, step, i, s, n, flag)) /\ Task(kind, step, i, s, n, flag).info = i
BY DEF IsTask, Task

\* A task with one field changed ...
LEMMA WithTaskField ==
    ASSUME NEW t, IsTask(t), NEW v
    PROVE  /\ IsTask([t EXCEPT !.step = v]) /\ [t EXCEPT !.step = v].info = t.info
           /\ IsTask([t EXCEPT !.stale = v]) /\ [t EXCEPT !.stale = v].info = t.info
           /\ IsTask([t EXCEPT !.node = v]) /\ [t EXCEPT !.node = v].info = t.info
           /\ IsTask([t EXCEPT !.info = v]) /\ [t EXCEPT !.info = v].info = v
<1>1. IsTask([t EXCEPT !.step = v]) /\ [t EXCEPT !.step = v].info = t.info
  BY DEF IsTask
<1>2. IsTask([t EXCEPT !.stale = v]) /\ [t EXCEPT !.stale = v].info = t.info
  BY DEF IsTask
<1>3. IsTask([t EXCEPT !.node = v]) /\ [t EXCEPT !.node = v].info = t.info
  BY DEF IsTask
<1>4. IsTask([t EXCEPT !.info = v]) /\ [t EXCEPT !.info = v].info = v
  BY DEF IsTask
<1>5. QED BY <1>1, <1>2, <1>3, <1>4

\* ... and with the fields changed that the steps of nsqlookupd change together.
LEMMA TaskGoesOn ==
    ASSUME NEW t, IsTask(t)
    PROVE  /\ \A step, n : /\ IsTask([t EXCEPT !.step = step, !.node = n])
                           /\ [t EXCEPT !.step = step, !.node = n].info = t.info
           /\ \A step, i : /\ IsTask([t EXCEPT !.step = step, !.info = i])
                           /\ [t EXCEPT !.step = step, !.info = i].info = i
           /\ \A step, i, n : /\ IsTask([t EXCEPT !.step = step, !.info = i, !.node = n])
                              /\ [t EXCEPT !.step = step, !.info = i, !.node = n].info = i
<1> SUFFICES ASSUME NEW step
             PROVE  /\ \A n : /\ IsTask([t EXCEPT !.step = step, !.node = n])
                              /\ [t EXCEPT !.step = step, !.node = n].info = t.info
                    /\ \A i : /\ IsTask([t EXCEPT !.step = step, !.info = i])
                              /\ [t EXCEPT !.step = step, !.info = i].info = i
                    /\ \A i, n : /\ IsTask([t EXCEPT !.step = step, !.info = i, !.node = n])
                                 /\ [t EXCEPT !.step = step, !.info = i, !.node = n].info = i
  BY Zenon
<1> DEFINE a == [t EXCEPT !.step = step]
<1>1. /\ \A n : [t EXCEPT !.step = step, !.node = n] = [a EXCEPT !.node = n]
      /\ \A i : [t EXCEPT !.step = step, !.info = i] = [a EXCEPT !.info = i]
      /\ \A i, n : [t EXCEPT !.step = step, !.info = i, !.node = n] = [[a EXCEPT !.info = i] EXCEPT !.node = n]
  OBVIOUS
<1>2. IsTask(a) /\ a.info = t.info
  BY WithTaskField, Zenon
<1> HIDE DEF a
<1>3. \A v : /\ IsTask([a EXCEPT !.info = v]) /\ [a EXCEPT !.info = v].info = v
             /\ IsTask([a EXCEPT !.node = v]) /\ [a EXCEPT !.node = v].info = t.info
  BY <1>2, WithTaskField, ZenonT(60)
<1>4. \A i, n : /\ IsTask([[a EXCEPT !.info = i] EXCEPT !.node = n])
                /\ [[a EXCEPT !.info = i] EXCEPT !.node = n].info = i
  <2> SUFFICES ASSUME NEW i, NEW n
               PROVE  /\ IsTask([[a EXCEPT !.info = i] EXCEPT !.node = n])
                      /\ [[a EXCEPT !.info = i] EXCEPT !.node = n].info = i
    BY Zenon
  <2> DEFINE b == [a EXCEPT !.info = i]
  <2>1. IsTask(b) /\ b.info = i
    BY <1>3, Zenon
  <2> HIDE DEF b
  <2>2. IsTask([b EXCEPT !.node = n]) /\ [b EXCEPT !.node = n].info = b.info
    BY <2>1, WithTaskField, Zenon
  <2>3. QED BY <2>1, <2>2 DEF b
<1>5. QED BY <1>1, <1>3, <1>4, Zenon

\* What waits is about the info it was made with.
LEMMA WaitingInfo ==
    /\ \A i, s, n : WaitingJoin(i, s, n).info = i
    /\ \A i, s, b : WaitingRevoke(i, s, b).info = i
    /\ \A i : WaitingTimeout(i).info = i
    /\ \A i, to, b : WaitingRemove(i, to, b).info = i
    /\ \A i, to : WaitingMeta(i, to).info = i
BY DEF WaitingJoin, WaitingRevoke, WaitingTimeout, WaitingRemove, WaitingMeta

\* The task that runs takes another step, or ends.
LEMMA StepsOn ==
    ASSUME EpochNamesInfo, task # None,
           \E step, n : task' \in {None, task, [task EXCEPT !.step = step], [task EXCEPT !.stale = TRUE],
                                   [task EXCEPT !.step = step, !.node = n]}
    PROVE  task' # None => IsTask(task') /\ SnapshotOf(info, task'.info)
<1>1. IsTask(task) /\ SnapshotOf(info, task.info)
  BY Zenon DEF EpochNamesInfo
<1>2. \A v : /\ IsTask([task EXCEPT !.step = v]) /\ [task EXCEPT !.step = v].info = task.info
             /\ IsTask([task EXCEPT !.stale = v]) /\ [task EXCEPT !.stale = v].info = task.info
  BY <1>1, WithTaskField, ZenonT(60)
<1>3. \A step, n : /\ IsTask([task EXCEPT !.step = step, !.node = n])
                   /\ [task EXCEPT !.step = step, !.node = n].info = task.info
  BY <1>1, TaskGoesOn, Zenon
<1>4. PICK step, n : task' \in {None, task, [task EXCEPT !.step = step], [task EXCEPT !.stale = TRUE],
                                [task EXCEPT !.step = step, !.node = n]}
  BY Zenon
<1>5. CASE task' = [task EXCEPT !.stale = TRUE]
  BY <1>1, <1>2, <1>5, Zenon
<1>6. CASE task' = [task EXCEPT !.step = step]
  BY <1>1, <1>2, <1>6, Zenon
<1>7. CASE task' = [task EXCEPT !.step = step, !.node = n]
  BY <1>1, <1>3, <1>7, Zenon
<1>8. QED BY <1>1, <1>4, <1>5, <1>6, <1>7, Zenon

-----------------------------------------------------------------------------
(* The steps of the nodes: they read the topic info and never change it.   *)

\* No step of an nsqd changes the topic info or what nsqlookupd holds.
LEMMA NodesLeaveInfo ==
    ASSUME NodeNext
    PROVE  UNCHANGED <<info, task, timer, pending>>
<1> USE DEF etcdVars, nodeVars, lookupVars, ghostVars
<1>1. ASSUME NEW n \in Nodes,
             \/ StartWrite(n) \/ Commit(n) \/ RetryWrite(n) \/ FailWrite(n)
      PROVE  UNCHANGED <<info, task, timer, pending>>
  BY <1>1, ZenonT(60) DEF StartWrite, Commit, RetryWrite, FailWrite
<1>2. ASSUME NEW n \in Nodes,
             \/ StartCatchup(n) \/ CatchupDecide(n) \/ CatchupPull(n) \/ CatchupDone(n)
             \/ CatchupAborts(n) \/ LoadTopic(n) \/ LoadUnrelated(n) \/ ReloadSession(n)
      PROVE  UNCHANGED <<info, task, timer, pending>>
  BY <1>2, Zenon DEF StartCatchup, CatchupDecide, CatchupPull, CatchupDone, CatchupAborts, LoadTopic,
              LoadUnrelated, ReloadSession
<1>3. ASSUME NEW n \in Nodes, CleanTopic(n) \/ Crash(n) \/ LeaveCluster(n) \/ Restart(n)
      PROVE  UNCHANGED <<info, task, timer, pending>>
  BY <1>3 DEF CleanTopic, Crash, LeaveCluster, Stops, Restart
<1>4. ASSUME NEW n \in Nodes, NEW r \in Nodes, SlaveSync(n, r) \/ SlaveSyncFails(n, r)
      PROVE  UNCHANGED <<info, task, timer, pending>>
  BY <1>4 DEF SlaveSync, SlaveSyncFails
<1>5. ASSUME NEW l \in late, SlaveSyncLate(l)
      PROVE  UNCHANGED <<info, task, timer, pending>>
  BY <1>5, Zenon DEF SlaveSyncLate
<1>6. ASSUME NEW q \in requests, SyncToNewLeader(q) \/ AcquireTopicLeader(q)
      PROVE  UNCHANGED <<info, task, timer, pending>>
  BY <1>6 DEF SyncToNewLeader, AcquireTopicLeader
<1>7. QED BY <1>1, <1>2, <1>3, <1>4, <1>5, <1>6, ZenonT(60) DEF NodeNext

-----------------------------------------------------------------------------
(* The steps of nsqlookupd.                                                *)

\* The steps of a task that stores nothing and leaves no goroutine behind.
LEMMA TaskMoves ==
    ASSUME EpochNamesInfo,
           \/ StopLeader \/ StopISR \/ ElectChoose \/ ElectRelease \/ ElectRenotify \/ ElectFails
           \/ TaskMeta \/ TaskSession \/ StartISR \/ StartLeader \/ ResetMeta
    PROVE  Kept
<1> USE DEF etcdVars, nodeVars, ghostVars, At, StepTo, TaskEnds
<1> DEFINE Moves(step, n) == task' \in {None, task, [task EXCEPT !.step = step], [task EXCEPT !.stale = TRUE],
                                        [task EXCEPT !.step = step, !.node = n]}
<1>1. UNCHANGED <<info, timer, pending>> /\ task # None
  BY ZenonT(60) DEF StopLeader, StopISR, ElectChoose, ElectRelease, ElectRenotify, ElectFails, TaskMeta,
         TaskSession, StartISR, StartLeader, ResetMeta
<1>2. \E step, n : Moves(step, n)
  <2>1. CASE StopLeader \/ StopISR
    BY <2>1, ZenonT(60) DEF StopLeader, StopISR
  <2>2. CASE ElectChoose
    BY <2>2, ZenonT(60) DEF ElectChoose
  <2>3. CASE ElectRelease \/ ElectRenotify \/ ElectFails
    BY <2>3, ZenonT(60) DEF ElectRelease, ElectRenotify, ElectFails
  <2>4. CASE TaskMeta \/ TaskSession \/ ResetMeta
    BY <2>4, ZenonT(60) DEF TaskMeta, TaskSession, ResetMeta
  <2>5. CASE StartISR \/ StartLeader
    BY <2>5, Zenon DEF StartISR, StartLeader, AfterStart
  <2>6. QED BY <2>1, <2>2, <2>3, <2>4, <2>5, ZenonT(60)
<1>3. task' # None => IsTask(task') /\ SnapshotOf(info, task'.info)
  BY <1>1, <1>2, StepsOn, Zenon
<1>4. QED BY <1>1, <1>3, Quiet, ZenonT(60)

\* The steps that leave what nsqlookupd remembers alone, or let a goroutine end.
LEMMA RemembersNothing ==
    ASSUME EpochNamesInfo,
           \/ \E n \in Nodes : RetryRpc(n) \/ NodeLost(n)
           \/ \E p \in pending : NotifyLater(p)
           \/ CheckHolder \/ CheckSession \/ CheckLost \/ LookupFailover
    PROVE  Kept
<1> USE DEF etcdVars, nodeVars, ghostVars
<1>1. /\ info' = info /\ pending' \subseteq pending /\ timer' \in {None, timer}
      /\ task' \in {None, task} \/ (task # None /\ task' = [task EXCEPT !.stale = TRUE])
  <2>1. CASE \E n \in Nodes : RetryRpc(n) \/ NodeLost(n)
    BY <2>1 DEF RetryRpc, NodeLost, Unsettles
  <2>2. CASE \E p \in pending : NotifyLater(p)
    BY <2>2, Zenon DEF NotifyLater
  <2>3. CASE CheckHolder \/ CheckSession \/ CheckLost
    BY <2>3 DEF CheckHolder, CheckSession, CheckLost
  <2>4. CASE LookupFailover
    BY <2>4 DEF LookupFailover
  <2>5. QED BY <2>1, <2>2, <2>3, <2>4, Zenon
<1>2. task' # None => task' = task \/ (IsTask(task') /\ SnapshotOf(info, task'.info))
  <2>1. ASSUME task # None, task' = [task EXCEPT !.stale = TRUE]
        PROVE  task' # None => IsTask(task') /\ SnapshotOf(info, task'.info)
    BY <2>1, StepsOn, Zenon
  <2>2. QED BY <1>1, <2>1
<1>3. \A p \in pending' : p \in pending
  BY <1>1
<1>4. timer' # None => timer' = timer
  BY <1>1
<1>5. QED BY <1>1, <1>2, <1>3, <1>4, Quiet, Zenon

\* The steps that start a goroutine with the info just read, or with that of the task.
LEMMA Spawning ==
    ASSUME EpochNamesInfo,
           \/ \E n \in Nodes : NodeJoined(n)
           \/ \E q \in requests : HandleJoinISR(q)
           \/ Compare \/ ElectAcquired \/ TimerFires \/ CheckWrite
    PROVE  Kept
<1> USE DEF etcdVars, nodeVars, ghostVars, At, StepTo, TaskEnds, Spawns
<1>1. SnapshotOf(info, info) /\ (task # None => SnapshotOf(info, task.info))
      /\ (timer # None => SnapshotOf(info, timer))
  BY InfoItself, ZenonT(60) DEF EpochNamesInfo
<1>2. info' = info /\ timer' \in {None, timer}
  BY Zenon DEF NodeJoined, HandleJoinISR, Compare, ElectAcquired, TimerFires, CheckWrite
<1>3. \A p \in pending' : p \in pending \/ SnapshotOf(info, p.info)
  <2>1. CASE \E n \in Nodes : NodeJoined(n)
    <3>1. \A p \in pending' : p \in pending \/ p = WaitingRevoke(info, skey, FALSE)
      BY <2>1, Zenon DEF NodeJoined
    <3>2. WaitingRevoke(info, skey, FALSE).info = info
      BY WaitingInfo, Zenon
    <3>3. QED BY <1>1, <3>1, <3>2, Zenon
  <2>2. CASE \E q \in requests : HandleJoinISR(q)
    <3>1. \A p \in pending' : p \in pending \/ \E n : p = WaitingJoin(info, skey, n)
      BY <2>2 DEF HandleJoinISR
    <3>2. QED BY <1>1, <3>1, WaitingInfo
  <2>3. CASE Compare
    <3>1. task # None /\ \A p \in pending' : p \in pending \/ \E w : p = WaitingRemove(task.info, w, TRUE)
      BY <2>3, Zenon DEF Compare
    <3>2. ASSUME NEW p \in pending' PROVE p \in pending \/ p.info = task.info
      BY <3>1 DEF WaitingRemove
    <3>3. QED BY <1>1, <3>1, <3>2, Zenon
  <2>4. CASE ElectAcquired
    <3>1. WaitingRevoke(info, skey, TRUE).info = info
      BY DEF WaitingRevoke
    <3>2. WaitingRemove(task.info, {task.node}, FALSE).info = task.info
      BY DEF WaitingRemove
    <3>3. task # None /\ \A p \in pending' : \/ p \in pending \/ p = WaitingRevoke(info, skey, TRUE)
                                             \/ p = WaitingRemove(task.info, {task.node}, FALSE)
      BY <2>4, Zenon DEF ElectAcquired
    <3>4. QED BY <1>1, <3>1, <3>2, <3>3, Zenon
  <2>5. CASE TimerFires
    BY <2>5, <1>1, WaitingInfo DEF TimerFires
  <2>6. CASE CheckWrite
    <3>1. \A p \in pending' : p \in pending \/ p = WaitingRevoke(info, skey, TRUE)
      BY <2>6, Zenon DEF CheckWrite
    <3>2. WaitingRevoke(info, skey, TRUE).info = info
      BY DEF WaitingRevoke
    <3>3. QED BY <1>1, <3>1, <3>2, Zenon
  <2>7. QED BY <2>1, <2>2, <2>3, <2>4, <2>5, <2>6
<1>4. \/ task' \in {None, task} \/ (task # None /\ task' = [task EXCEPT !.stale = TRUE])
      \/ task # None /\ task' = [task EXCEPT !.step = "startISR"]
  BY Zenon DEF NodeJoined, HandleJoinISR, Compare, ElectAcquired, TimerFires, CheckWrite, Unsettles
<1>5. task' # None => task' = task \/ (IsTask(task') /\ SnapshotOf(info, task'.info))
  BY <1>4, StepsOn, Zenon
<1>6. timer' # None => timer' = timer
  BY <1>2
<1>7. QED BY <1>2, <1>3, <1>5, <1>6, Quiet, Zenon

-----------------------------------------------------------------------------
(* The steps that store an info.                                           *)

\* A change of the stored info that keeps the write epoch: replicas leave the ISR, or
\* only the catch-up list changes.
LEMMA StoresQuietly ==
    ASSUME EpochNamesInfo, NEW i, IsInfo(i), i.epoch = info.epoch, i.wepoch = info.wepoch,
           i.leader = info.leader, i.isr \subseteq info.isr, info' = Stored(i)
    PROVE  IsInfo(info') /\ InfoMoves
<1>1. /\ IsInfo(Stored(i)) /\ Stored(i).epoch = i.epoch + 1
      /\ Stored(i).wepoch = i.wepoch /\ Stored(i).leader = i.leader /\ Stored(i).isr = i.isr
  BY StoredInfo
<1>2. QED BY <1>1 DEF InfoMoves

\* One under the next write epoch.
LEMMA StoresLoudly ==
    ASSUME EpochNamesInfo, NEW i, IsInfo(i), i.epoch = info.epoch, i.wepoch = info.wepoch + 1,
           info' = Stored(i)
    PROVE  IsInfo(info') /\ InfoMoves
<1>1. IsInfo(Stored(i)) /\ Stored(i).epoch = i.epoch + 1 /\ Stored(i).wepoch = i.wepoch
  BY StoredInfo
<1>2. QED BY <1>1 DEF InfoMoves

\* The comparison of epochs: a snapshot that passes it is the stored info.
LEMMA CurrentIsStored ==
    ASSUME NEW i, SnapshotOf(info, i), Current(i)
    PROVE  i = info
BY DEF SnapshotOf, Current

\* handleRemoveISRNodes.
LEMMA RemovesNodes ==
    ASSUME EpochNamesInfo, NEW nodes, NEW i, SnapshotOf(info, i), NEW catchup, NEW rest, rest \subseteq pending,
           RemoveISRNodes(nodes, i, catchup, rest),
           task' # None => task' = task \/ (IsTask(task') /\ SnapshotOf(info, task'.info)), timer' = timer
    PROVE  Kept
<1>1. CASE pending' = rest /\ info' = info
  <2>1. \A p \in pending' : p \in pending
    BY <1>1
  <2>2. QED BY <1>1, <2>1, Quiet, Zenon
<1>2. CASE Current(i) /\ info' = Stored(Removed(i, nodes, catchup))
           /\ pending' = rest \cup {WaitingMeta(info', Members(info'))}
  <2> DEFINE new == Removed(i, nodes, catchup)
  <2>1. i = info /\ IsInfo(info)
    BY <1>2, CurrentIsStored, InfoItself, Zenon
  <2>2. /\ IsInfo(new) /\ new.epoch = i.epoch /\ new.wepoch = i.wepoch /\ new.leader = i.leader
        /\ new.isr \subseteq i.isr
    BY <2>1, RemovedInfo
  <2> HIDE DEF new
  <2>3. info' = Stored(new)
    BY <1>2, Zenon DEF new
  <2>4. IsInfo(info') /\ InfoMoves
    BY <2>1, <2>2, <2>3, StoresQuietly
  <2>5. \A j : SnapshotOf(info, j) => Remembered(j)
    BY Zenon DEF Remembered
  <2>6. \A p \in pending' : Remembered(p.info)
    <3>1. WaitingMeta(info', Members(info')).info = info'
      BY WaitingInfo, Zenon
    <3>2. \A p \in pending' : p \in pending \/ p = WaitingMeta(info', Members(info'))
      BY <1>2
    <3>3. QED BY <2>5, <3>1, <3>2, Zenon DEF EpochNamesInfo, Remembered
  <2>7. task' # None => IsTask(task') /\ Remembered(task'.info)
    BY <2>5, Zenon DEF EpochNamesInfo
  <2>8. timer' # None => Remembered(timer')
    BY <2>5, Zenon DEF EpochNamesInfo
  <2>9. QED BY <2>4, <2>6, <2>7, <2>8, Remember, Zenon
<1>3. QED BY <1>1, <1>2, Zenon DEF RemoveISRNodes, Spawns

\* AddCatchup, of handleRequestJoinCatchup, handleTopicMigrate and addCatchupNode.
LEMMA AddsToCatchup ==
    ASSUME EpochNamesInfo, NEW n, NEW q, AddsCatchup(n, q), task' = task, timer' = timer
    PROVE  Kept
<1> DEFINE list == info.catchup \cup {n}
           new == [info EXCEPT !.catchup = list]
<1>1. IsInfo(info)
  BY InfoItself
<1>2. info' = info \/ (IsInfo(info') /\ InfoMoves)
  <2>1. info' = info \/ info' = Stored(new)
    BY DEF AddsCatchup
  <2> HIDE DEF list
  <2>2. /\ IsInfo(new) /\ new.epoch = info.epoch /\ new.wepoch = info.wepoch /\ new.leader = info.leader
        /\ new.isr = info.isr
    BY <1>1, WithField, ZenonT(60)
  <2> HIDE DEF new
  <2>3. QED BY <2>1, <2>2, StoresQuietly
<1>3. pending' = pending \cup {WaitingMeta(info', Members(info'))}
  BY DEF AddsCatchup, Spawns
<1>4. \A j : SnapshotOf(info, j) => Remembered(j)
  BY Zenon DEF Remembered
<1>5. \A p \in pending' : Remembered(p.info)
  <2>1. WaitingMeta(info', Members(info')).info = info'
    BY WaitingInfo, Zenon
  <2>2. \A p \in pending' : p \in pending \/ p = WaitingMeta(info', Members(info'))
    BY <1>3
  <2>3. QED BY <1>4, <2>1, <2>2, Zenon DEF EpochNamesInfo, Remembered
<1>6. task' # None => IsTask(task') /\ Remembered(task'.info)
  BY <1>4, Zenon DEF EpochNamesInfo
<1>7. timer' # None => Remembered(timer')
  BY <1>4, Zenon DEF EpochNamesInfo
<1>8. QED BY <1>2, <1>5, <1>6, <1>7, Remember, Zenon

\* A task begins with a snapshot: an election with the info just read, another one with
\* what its goroutine read.
LEMMA TaskBegins ==
    ASSUME EpochNamesInfo, info' = info, NEW i, SnapshotOf(info, i),
           \E kind, step, s, n, flag : task' = Task(kind, step, i, s, n, flag),
           timer' \in {None, timer}, pending' \subseteq pending
    PROVE  Kept
<1>1. IsTask(task') /\ SnapshotOf(info, task'.info)
  BY NewTask
<1>2. \A p \in pending' : p \in pending
  OBVIOUS
<1>3. timer' # None => timer' = timer
  OBVIOUS
<1>4. QED BY <1>1, <1>2, <1>3, Quiet, Zenon

\* The handlers that put a node on the catch-up list.
LEMMA CatchupSteps ==
    ASSUME EpochNamesInfo,
           \/ \E n \in Nodes : CheckMigrate(n) \/ AddCatchupNode(n)
           \/ \E q \in requests : HandleJoinCatchup(q)
    PROVE  Kept
<1>1. (\E n, q : AddsCatchup(n, q)) \/ UNCHANGED <<info, pending>>
  BY Zenon DEF CheckMigrate, AddCatchupNode, HandleJoinCatchup
<1>2. task' = task /\ timer' = timer
  BY Zenon DEF CheckMigrate, AddCatchupNode, HandleJoinCatchup
<1>3. CASE \E n, q : AddsCatchup(n, q)
  BY <1>2, <1>3, AddsToCatchup, Zenon
<1>4. CASE UNCHANGED <<info, pending>>
  BY <1>2, <1>4, Quiet, Zenon
<1>5. QED BY <1>1, <1>3, <1>4, Zenon

\* The handlers that take replicas out of the ISR, and those that begin a task.
LEMMA RemovalSteps ==
    ASSUME EpochNamesInfo,
           \/ \E p \in pending : RemoveLater(p)
           \/ \E n \in Nodes : CheckUnwanted(n)
           \/ CheckFailed
    PROVE  Kept
<1>1. \E nodes, i, catchup, rest : /\ SnapshotOf(info, i) /\ rest \subseteq pending
                                   /\ RemoveISRNodes(nodes, i, catchup, rest)
  <2>1. CASE \E p \in pending : RemoveLater(p)
    <3>1. PICK p \in pending : RemoveLater(p)
      BY <2>1
    <3>2. SnapshotOf(info, p.info)
      BY Zenon DEF EpochNamesInfo
    <3>3. pending \ {p} \subseteq pending
      OBVIOUS
    <3>4. QED BY <3>1, <3>2, <3>3, Zenon DEF RemoveLater
  <2>2. CASE (\E n \in Nodes : CheckUnwanted(n)) \/ CheckFailed
    <3>1. pending \subseteq pending
      OBVIOUS
    <3>2. \E nodes, catchup : RemoveISRNodes(nodes, info, catchup, pending)
      BY <2>2, Zenon DEF CheckUnwanted, CheckFailed
    <3>3. QED BY <3>1, <3>2, InfoItself, Zenon
  <2>3. QED BY <2>1, <2>2
<1>2. task' = task /\ timer' = timer
  BY Zenon DEF RemoveLater, CheckUnwanted, CheckFailed
<1>3. QED BY <1>1, <1>2, RemovesNodes, Zenon

\* handleLeaveFromISR: a replica leaves the ISR, or an election begins.
LEMMA HandleLeaveStep == ASSUME EpochNamesInfo, NEW q \in requests, HandleLeave(q) PROVE Kept
<1>1. CASE UNCHANGED <<info, task, pending, timer>>
  BY <1>1, Quiet, Zenon
<1>2. CASE UNCHANGED <<info, task, timer>> /\ pending' = pending \cup {WaitingMeta(info, info.catchup)}
  <2>1. \A p \in pending' : p \in pending \/ p = WaitingMeta(info, info.catchup)
    BY <1>2
  <2>2. \A p \in pending' : p \in pending \/ SnapshotOf(info, p.info)
    BY <2>1, InfoItself, WaitingInfo
  <2>3. QED BY <1>2, <2>2, Quiet, Zenon
<1>3. CASE UNCHANGED <<info, pending>> /\ BeginsElection(FALSE)
  <2>1. \E kind, step, s, n, flag : task' = Task(kind, step, info, s, n, flag)
    BY <1>3, Zenon DEF BeginsElection
  <2>2. timer' \in {None, timer} /\ pending' \subseteq pending
    BY <1>3 DEF BeginsElection
  <2>3. QED BY <1>3, <2>1, <2>2, InfoItself, TaskBegins, Zenon
<1>4. CASE RemoveISRNodes({q.node}, info, TRUE, pending) /\ UNCHANGED <<task, timer>>
  <2>1. pending \subseteq pending
    BY Zenon
  <2>2. QED BY <1>4, <2>1, InfoItself, RemovesNodes, Zenon
<1>5. QED BY <1>1, <1>2, <1>3, <1>4, Zenon DEF HandleLeave, Spawns

\* handleMoveTopic: the same, by the balancer.
LEMMA HandleMoveStep == ASSUME EpochNamesInfo, NEW n \in Nodes, HandleMoveTopic(n) PROVE Kept
<1>1. CASE UNCHANGED <<info, pending>> /\ BeginsElection(TRUE)
  <2>1. \E kind, step, s, m, flag : task' = Task(kind, step, info, s, m, flag)
    BY <1>1, Zenon DEF BeginsElection
  <2>2. timer' \in {None, timer} /\ pending' \subseteq pending
    BY <1>1 DEF BeginsElection
  <2>3. QED BY <1>1, <2>1, <2>2, InfoItself, TaskBegins, Zenon
<1>2. CASE RemoveISRNodes({n}, info, FALSE, pending) /\ UNCHANGED <<task, timer>>
  <2>1. pending \subseteq pending
    OBVIOUS
  <2>2. QED BY <1>2, <2>1, InfoItself, RemovesNodes, Zenon
<1>3. QED BY <1>1, <1>2, Zenon DEF HandleMoveTopic

\* The tasks that begin: an election of doCheckTopics, a join or a revoke that has the
\* lock, and the last replica that is ready.
LEMMA BeginSteps ==
    ASSUME EpochNamesInfo,
           CheckLeader \/ (\E p \in pending : BeginJoin(p)) \/ \E q \in requests : HandleReady(q)
    PROVE  Kept
<1>1. CASE CheckLeader
  <2>1. \E kind, step, s, m, flag : task' = Task(kind, step, info, s, m, flag)
    BY <1>1, Zenon DEF CheckLeader, BeginsElection
  <2>2. info' = info /\ timer' \in {None, timer} /\ pending' \subseteq pending
    BY <1>1 DEF CheckLeader, BeginsElection, etcdVars
  <2>3. QED BY <2>1, <2>2, InfoItself, TaskBegins, Zenon
<1>2. ASSUME NEW p \in pending, BeginJoin(p) PROVE Kept
  <2>1. SnapshotOf(info, p.info)
    BY Zenon DEF EpochNamesInfo
  <2>2. info' = info /\ timer' \in {None, timer} /\ pending' \subseteq pending
    BY <1>2, Zenon DEF BeginJoin, etcdVars
  <2>3. (\E kind, step, s, n, flag : task' = Task(kind, step, p.info, s, n, flag)) \/ task' = task
    BY <1>2, Zenon DEF BeginJoin
  <2>4. CASE task' = task
    <3>1. (timer' # None => timer' = timer) /\ \A x \in pending' : x \in pending
      BY <2>2
    <3>2. QED BY <2>2, <2>4, <3>1, Quiet, Zenon
  <2>5. QED BY <2>1, <2>2, <2>3, <2>4, TaskBegins, Zenon
<1>3. ASSUME NEW q \in requests, HandleReady(q) PROVE Kept
  <2>1. info' = info /\ timer' = timer /\ pending' = pending
    BY <1>3 DEF HandleReady, etcdVars
  <2>2. (\E kind, step, s, n, flag : task' = Task(kind, step, info, s, n, flag)) \/ task' \in {None, task}
    <3>1. CASE task' = Task("ready", "compare", info, skey, None, FALSE)
      BY <3>1, Zenon
    <3>2. CASE task' = None \/ task' = task
      BY <3>2
    <3>3. task' = Task("ready", "compare", info, skey, None, FALSE) \/ task' = None \/ task' = task
      BY <1>3, Zenon DEF HandleReady
    <3>4. QED BY <3>1, <3>2, <3>3, Zenon
  <2>3. CASE task' \in {None, task}
    <3>1. task' # None => task' = task
      BY <2>3
    <3>2. QED BY <2>1, <3>1, Quiet, Zenon
  <2>4. timer' \in {None, timer} /\ pending' \subseteq pending
    BY <2>1
  <2>5. QED BY <2>1, <2>2, <2>3, <2>4, InfoItself, TaskBegins, Zenon
<1>4. QED BY <1>1, <1>2, <1>3, Zenon

\* makeNewTopicLeaderAcknowledged: the info of the election is compared with the stored
\* one, so the new leader takes over from the stored leader.
LEMMA ElectStoreStep == ASSUME EpochNamesInfo, ElectStore PROVE Kept
<1>1. task # None /\ timer' = timer /\ pending' = pending
  BY DEF ElectStore, At
<1>2. IsTask(task) /\ SnapshotOf(info, task.info)
  BY <1>1, Zenon DEF EpochNamesInfo
<1>3. CASE task' = None /\ info' = info
  BY <1>1, <1>3, Quiet, Zenon
<1>4. CASE /\ Current(task.info) /\ info' = Stored(NewLeaderInfo(task.info, task.node, task.flag))
           /\ task' = [task EXCEPT !.step = "meta", !.info = info', !.node = task.info.leader]
  <2> DEFINE new == NewLeaderInfo(task.info, task.node, task.flag)
  <2>1. task.info = info /\ IsInfo(info)
    BY <1>2, <1>4, CurrentIsStored, InfoItself, Zenon
  <2>2. IsInfo(new) /\ new.epoch = info.epoch /\ new.wepoch = info.wepoch + 1
    BY <2>1, NewLeaderEpoch
  <2> HIDE DEF new
  <2>3. info' = Stored(new)
    BY <1>4, Zenon DEF new
  <2>4. IsInfo(info') /\ InfoMoves
    BY <2>2, <2>3, StoresLoudly
  <2>5. IsTask(task') /\ task'.info = info'
    <3>1. PICK step, n : task' = [task EXCEPT !.step = step, !.info = info', !.node = n]
      BY <1>4, ZenonT(60)
    <3>2. \A st, i, m : /\ IsTask([task EXCEPT !.step = st, !.info = i, !.node = m])
                        /\ [task EXCEPT !.step = st, !.info = i, !.node = m].info = i
      BY <1>2, TaskGoesOn, Zenon
    <3>3. QED BY <3>1, <3>2, Zenon
  <2>6. \A j : SnapshotOf(info, j) \/ j = info' => Remembered(j)
    BY Zenon DEF Remembered
  <2>7. /\ task' # None => IsTask(task') /\ Remembered(task'.info)
        /\ timer' # None => Remembered(timer')
        /\ \A p \in pending' : Remembered(p.info)
    BY <1>1, <2>5, <2>6, Zenon DEF EpochNamesInfo
  <2>8. QED BY <2>4, <2>7, Remember, Zenon
<1>5. QED BY <1>3, <1>4, Zenon DEF ElectStore, TaskEnds

\* A join that could store the new ISR stored it over the stored info; one that could not
\* goes on with an info of an old epoch, and a revoke with the one it has.
LEMMA OpenJoinStep == ASSUME EpochNamesInfo, OpenJoin PROVE Kept
<1>1. task # None /\ pending' = pending
  BY DEF OpenJoin, At
<1>2. IsTask(task) /\ SnapshotOf(info, task.info)
  BY <1>1, ZenonT(60) DEF EpochNamesInfo
<1>3. \A step, i : /\ IsTask([task EXCEPT !.step = step, !.info = i])
                   /\ [task EXCEPT !.step = step, !.info = i].info = i
  BY <1>2, TaskGoesOn, Zenon
<1>4. \A i : OpensWith(i) => IsTask(task') /\ task'.info = i /\ timer' = i
  <2> SUFFICES ASSUME NEW i, OpensWith(i) PROVE IsTask(task') /\ task'.info = i /\ timer' = i
    OBVIOUS
  <2>1. timer' = i
    BY DEF OpensWith
  <2>2. PICK step : task' = [task EXCEPT !.step = step, !.info = i]
    BY Zenon DEF OpensWith
  <2>3. QED BY <1>3, <2>1, <2>2, Zenon
<1>5. \A j : SnapshotOf(info, j) \/ j = info' => Remembered(j)
  BY Zenon DEF Remembered
<1>6. \A p \in pending' : Remembered(p.info)
  BY <1>1, <1>5, Zenon DEF EpochNamesInfo
<1>7. CASE Current(task.info) /\ info' = Stored(Joined(task.info, task.node)) /\ OpensWith(info')
  <2> DEFINE new == Joined(task.info, task.node)
  <2>1. task.info = info /\ IsInfo(info)
    BY <1>2, <1>7, CurrentIsStored, InfoItself, Zenon
  <2>2. IsInfo(new) /\ new.epoch = info.epoch /\ new.wepoch = info.wepoch + 1
    BY <2>1, JoinedEpoch
  <2> HIDE DEF new
  <2>3. info' = Stored(new)
    BY <1>7, Zenon DEF new
  <2>4. IsInfo(info') /\ InfoMoves
    BY <2>2, <2>3, StoresLoudly
  <2>5. IsTask(task') /\ Remembered(task'.info) /\ Remembered(timer')
    BY <1>4, <1>5, <1>7, Zenon
  <2>6. QED BY <1>6, <2>4, <2>5, Remember, Zenon
<1>8. CASE ~Current(task.info) /\ info' = info /\ OpensWith(Joined(task.info, task.node))
  <2> DEFINE new == Joined(task.info, task.node)
  <2>1. IsInfo(task.info) /\ task.info.epoch <= info.epoch
    BY <1>2 DEF SnapshotOf
  <2>2. IsInfo(new) /\ new.epoch = task.info.epoch
    BY <2>1, JoinedEpoch, Zenon
  <2> HIDE DEF new
  <2>3. SnapshotOf(info, new)
    BY <1>8, <2>1, <2>2 DEF SnapshotOf, Current
  <2>4. IsTask(task') /\ task'.info = new /\ timer' = new
    BY <1>4, <1>8, Zenon DEF new
  <2>5. IsTask(task') /\ Remembered(task'.info) /\ Remembered(timer')
    BY <1>5, <2>3, <2>4, Zenon
  <2>6. QED BY <1>6, <1>8, <2>5, Remember, Zenon
<1>9. CASE info' = info /\ OpensWith(task.info)
  <2>1. IsTask(task') /\ Remembered(task'.info) /\ Remembered(timer')
    BY <1>2, <1>4, <1>5, <1>9, Zenon
  <2>2. QED BY <1>6, <1>9, <2>1, Remember, Zenon
<1>10. QED BY <1>7, <1>8, <1>9, Zenon DEF OpenJoin

\* The catch-up list is dropped from the stored info.
LEMMA CloseJoinStep == ASSUME EpochNamesInfo, CloseJoin PROVE Kept
<1> DEFINE new == [task.info EXCEPT !.catchup = {}]
<1>1. task # None /\ pending' = pending /\ timer' = None
  BY DEF CloseJoin, At
<1>2. IsTask(task) /\ SnapshotOf(info, task.info)
  BY <1>1, Zenon DEF EpochNamesInfo
<1>3. CASE task' = None /\ info' = info
  BY <1>1, <1>3, Quiet, Zenon
<1>4. CASE /\ Current(task.info) /\ info' = Stored(new)
           /\ task' = [task EXCEPT !.step = "meta", !.info = info']
  <2>1. task.info = info /\ IsInfo(info)
    BY <1>2, <1>4, CurrentIsStored, InfoItself, Zenon
  <2>2. /\ IsInfo(new) /\ new.epoch = info.epoch /\ new.wepoch = info.wepoch /\ new.leader = info.leader
        /\ new.isr = info.isr
    BY <2>1, WithField, ZenonT(60)
  <2> HIDE DEF new
  <2>3. IsInfo(info') /\ InfoMoves
    BY <1>4, <2>2, StoresQuietly
  <2>4. IsTask(task') /\ task'.info = info'
    <3>1. \A step, i : /\ IsTask([task EXCEPT !.step = step, !.info = i])
                       /\ [task EXCEPT !.step = step, !.info = i].info = i
      BY <1>2, TaskGoesOn, Zenon
    <3>2. QED BY <1>4, <3>1, Zenon
  <2>5. \A j : SnapshotOf(info, j) \/ j = info' => Remembered(j)
    BY Zenon DEF Remembered
  <2>6. /\ task' # None => IsTask(task') /\ Remembered(task'.info)
        /\ \A p \in pending' : Remembered(p.info)
    BY <1>1, <2>4, <2>5, Zenon DEF EpochNamesInfo
  <2>7. QED BY <1>1, <2>3, <2>6, Remember, Zenon
<1>5. QED BY <1>3, <1>4, Zenon DEF CloseJoin, TaskEnds, etcdVars

\* resetJoinISRState: replicas that are not ready leave the stored ISR, under the next
\* write epoch.
LEMMA ResetJoinStep == ASSUME EpochNamesInfo, NEW p \in pending, ResetJoin(p) PROVE Kept
<1> DEFINE ready == p.info.isr \cap join.ready
<1>1. SnapshotOf(info, p.info)
  BY Zenon DEF EpochNamesInfo
<1>2. pending' \subseteq pending /\ timer' \in {None, timer}
  BY DEF ResetJoin
<1>3. (\A x \in pending' : x \in pending) /\ (timer' # None => timer' = timer)
  BY <1>2
<1>4. CASE UNCHANGED <<info, task>>
  BY <1>3, <1>4, Quiet, Zenon
<1>5. CASE task' = Task("timeout", "compare", p.info, NoSession, None, FALSE) /\ info' = info
  <2>1. \E kind, step, s, n, flag : task' = Task(kind, step, p.info, s, n, flag)
    BY <1>5, Zenon
  <2>2. QED BY <1>1, <1>2, <1>5, <2>1, TaskBegins, Zenon
<1>6. CASE /\ Current(p.info) /\ info' = Stored(Shrunk(p.info, ready))
           /\ task' = Task("timeout", "isrMeta", info', NoSession, None, FALSE)
  <2> DEFINE new == Shrunk(p.info, ready)
  <2>1. p.info = info /\ IsInfo(info)
    BY <1>1, <1>6, CurrentIsStored, InfoItself, Zenon
  <2> HIDE DEF ready
  <2>2. IsInfo(new) /\ new.epoch = info.epoch /\ new.wepoch = info.wepoch + 1
    BY <2>1, ShrunkEpoch
  <2> HIDE DEF new
  <2>3. info' = Stored(new)
    BY <1>6, Zenon DEF new
  <2>4. IsInfo(info') /\ InfoMoves
    BY <2>2, <2>3, StoresLoudly, Zenon
  <2>5. IsTask(task') /\ task'.info = info'
    <3>1. \E kind, step, s, n, flag : task' = Task(kind, step, info', s, n, flag)
      BY <1>6, Zenon
    <3>2. QED BY <3>1, NewTask
  <2>6. \A j : SnapshotOf(info, j) \/ j = info' => Remembered(j)
    BY Zenon DEF Remembered
  <2>7. /\ task' # None => IsTask(task') /\ Remembered(task'.info)
        /\ timer' # None => Remembered(timer')
        /\ \A x \in pending' : Remembered(x.info)
    BY <1>3, <2>5, <2>6, Zenon DEF EpochNamesInfo
  <2>8. QED BY <2>4, <2>7, Remember, Zenon
<1>7. QED BY <1>4, <1>5, <1>6, Zenon DEF ResetJoin

-----------------------------------------------------------------------------
(* Together.                                                               *)

\* Every step of nsqlookupd keeps the invariant and changes the topic info as it should.
LEMMA LookupKeeps == ASSUME EpochNamesInfo, LookupNext PROVE Kept
<1>1. CASE TaskStep
  BY <1>1, TaskMoves, Spawning, ElectStoreStep, OpenJoinStep, CloseJoinStep, Zenon DEF TaskStep
<1>2. ASSUME NEW n \in Nodes, RetryRpc(n) \/ NodeLost(n) PROVE Kept
  BY <1>2, RemembersNothing, Zenon
<1>3. ASSUME NEW n \in Nodes, NodeJoined(n) PROVE Kept
  BY <1>3, Spawning, Zenon
<1>4. ASSUME NEW n \in Nodes, CheckMigrate(n) \/ AddCatchupNode(n) PROVE Kept
  BY <1>4, CatchupSteps, Zenon
<1>5. ASSUME NEW n \in Nodes, CheckUnwanted(n) PROVE Kept
  BY <1>5, RemovalSteps, Zenon
<1>6. ASSUME NEW p \in pending, NotifyLater(p) PROVE Kept
  BY <1>6, RemembersNothing, Zenon
<1>7. ASSUME NEW p \in pending, RemoveLater(p) PROVE Kept
  BY <1>7, RemovalSteps, Zenon
<1>8. ASSUME NEW p \in pending, BeginJoin(p) PROVE Kept
  BY <1>8, BeginSteps, Zenon
<1>9. ASSUME NEW q \in requests, HandleJoinCatchup(q) PROVE Kept
  BY <1>9, CatchupSteps, Zenon
<1>10. ASSUME NEW q \in requests, HandleJoinISR(q) PROVE Kept
  BY <1>10, Spawning, Zenon
<1>11. ASSUME NEW q \in requests, HandleReady(q) PROVE Kept
  BY <1>11, BeginSteps, Zenon
<1>12. CASE TimerFires \/ CheckWrite
  BY <1>12, Spawning, Zenon
<1>13. CASE CheckHolder \/ CheckSession \/ CheckLost \/ LookupFailover
  BY <1>13, RemembersNothing, Zenon
<1>14. CASE CheckFailed
  BY <1>14, RemovalSteps, Zenon
<1>15. CASE CheckLeader
  BY <1>15, BeginSteps, Zenon
<1>16. QED BY <1>1, <1>2, <1>3, <1>4, <1>5, <1>6, <1>7, <1>8, <1>9, <1>10, <1>11, <1>12, <1>13, <1>14, <1>15,
             HandleMoveStep, HandleLeaveStep, ResetJoinStep, ZenonT(60) DEF LookupNext

\* So does every step of the cluster.
LEMMA NextKeeps == ASSUME EpochNamesInfo, [Next]_vars PROVE Kept
<1>1. CASE UNCHANGED <<info, task, timer, pending>>
  BY <1>1, Quiet, Zenon
<1>2. CASE NodeNext
  BY <1>1, <1>2, NodesLeaveInfo, Zenon
<1>3. CASE UNCHANGED vars
  BY <1>1, <1>3 DEF vars
<1>4. QED BY <1>2, <1>3, LookupKeeps, Zenon DEF Next

\* A topic just created, with nobody working on it.
LEMMA InitNames == Init => EpochNamesInfo
<1> SUFFICES ASSUME Init PROVE EpochNamesInfo
  BY Zenon
<1>1. task = None /\ timer = None /\ pending = {}
  BY Zenon DEF Init
<1>2. IsInfo(info)
  BY DEF Init, IsInfo
<1>3. QED BY <1>1, <1>2 DEF EpochNamesInfo

\* An epoch of the topic info names one info: what nsqlookupd's goroutines, its timer and
\* its task hold of the topic is the stored info or older than it, however many nodes,
\* faults and goroutines there are.
THEOREM EpochsNameInfos == Spec => []EpochNamesInfo
<1>1. EpochNamesInfo /\ [Next]_vars => EpochNamesInfo'
  BY NextKeeps, Zenon DEF Kept
<1>2. QED BY <1>1, InitNames, PTL DEF Spec

\* Every change of the topic info is made under the next epoch, and under the next write
\* epoch unless the leader stays and the ISR does not grow.
THEOREM WriteEpochs == Spec => WriteEpochMoves
<1>1. EpochNamesInfo /\ [Next]_vars => [InfoMoves]_info
  BY NextKeeps, Zenon DEF Kept
<1>2. QED BY <1>1, EpochsNameInfos, PTL DEF Spec, WriteEpochMoves
=============================================================================
