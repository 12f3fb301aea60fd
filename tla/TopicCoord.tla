----------------------------- MODULE TopicCoord -----------------------------
(***************************************************************************)
(* What an nsqd knows of one topic partition of the cluster, and how the   *)
(* calls it receives from nsqlookupd change that: TopicCoordinator and     *)
(* coordData of consistence/topic_coordinator.go, the handlers of          *)
(* consistence/coordinator_rpc.go and the updates they make through        *)
(* consistence/nsqd_coordinator.go.  Everything here is a function of the  *)
(* coordinator's value c; the modules that extend this one apply it.       *)
(*                                                                         *)
(* A topic info is [leader, isr, catchup, replica, epoch, wepoch]: epoch   *)
(* is the version of the key in etcd, wepoch is EpochForWrite.  A leader   *)
(* session is [node, epoch]; node is None where the code has no LeaderNode. *)
(* A log is the sequence of commit log entries [id, epoch, msg].           *)
(***************************************************************************)
EXTENDS Integers, Sequences, FiniteSets

CONSTANTS Nodes, None

NoInfo == [leader |-> None, isr |-> {}, catchup |-> {}, replica |-> 0, epoch |-> 0, wepoch |-> 0]
NoSession == [node |-> None, epoch |-> 0]

\* A node without a coordinator for the topic, and a coordinator just made
\* (NewTopicCoordinator), which starts with writing disabled.
Unloaded == [loaded |-> FALSE, info |-> NoInfo, session |-> NoSession, disabled |-> TRUE]
Fresh == [Unloaded EXCEPT !.loaded = TRUE]

Members(info) == info.isr \cup info.catchup \cup {info.leader}

\* IsISRReadyForWrite, and the same test wherever nsqlookupd makes it.
Quorum(info) == Cardinality(info.isr) > info.replica \div 2

\* IsMineLeaderSessionReady, checkWriteForLeader and the checks before a write.
SessionReady(c, n) == c.session.node = n
LeadsWrites(c, n) == c.session.node = n /\ c.info.leader = n
CanWrite(c, n) == c.loaded /\ ~c.disabled /\ LeadsWrites(c, n) /\ Quorum(c.info) /\ n \in c.info.isr

\* LoadedIDForgot: a log is loaded without its last id.
LoadedIDForgot(l) == 0

\* GetLastCommitLogID, and nLogID of a log just loaded or appended to by a replica.
LastID(l) == IF l = <<>> THEN 0 ELSE l[Len(l)].id
LoadedID(l) == LastID(l) + 1

---------------------------------------------------------------------------
\* UpdateTopicInfo: new is the info that node n is told of.

NewInISR(c, n, new) == n \notin c.info.isr /\ n \in new.isr
BecomesLeader(c, n, new) == new.leader = n /\ c.info.leader # n

\* The two errors of checkUpdateState: an old epoch, and a change that write has
\* to be disabled for.
OldEpoch(c, new) == new.wepoch < c.info.wepoch \/ new.epoch < c.info.epoch
InvalidChange(c, n, new) ==
    \/ /\ new.wepoch = c.info.wepoch
       /\ new.leader # c.info.leader \/ ~(new.isr \subseteq c.info.isr)
    \/ /\ ~c.disabled /\ ~NewInISR(c, n, new) /\ n \in new.isr
       /\ new.wepoch # c.info.wepoch

checkUpdateState(c, n, new) == ~OldEpoch(c, new) /\ ~InvalidChange(c, n, new)

\* A node the info does not name drops its coordinator; another one makes one when
\* it has none.  Write is disabled before a new ISR member looks at the info, and
\* after a new leader took it.
UpdateTopicInfo(c, n, new) ==
    LET had == IF c.loaded THEN c ELSE Fresh IN
    IF n \notin Members(new) THEN Unloaded
    ELSE IF ~checkUpdateState(had, n, new)
         THEN [had EXCEPT !.disabled = @ \/ NewInISR(had, n, new)]
         ELSE [had EXCEPT !.info = IF new.epoch # @.epoch THEN new ELSE @,
                          !.disabled = @ \/ NewInISR(had, n, new) \/ BecomesLeader(had, n, new)]

\* The call returns an error (and nsqlookupd tries it again later).
UpdateFails(c, n, new) ==
    n \in Members(new) /\ ~checkUpdateState(IF c.loaded THEN c ELSE Fresh, n, new)

\* The call has to take the write lock.
UpdateLocks(c, n, new) ==
    n \in Members(new) /\ (~c.loaded \/ NewInISR(c, n, new) \/ BecomesLeader(c, n, new))

\* The node gives its leader session back: it was the leader and no longer is.
UpdateReleases(c, n, new) ==
    /\ c.loaded /\ c.info.leader = n /\ new.leader # n
    /\ n \in Members(new) => checkUpdateState(c, n, new)

\* The node goes to acquire the leader session: it is the leader and has none.
UpdateAcquires(c, n, new) ==
    new.leader = n /\ ~UpdateFails(c, n, new) /\ ~SessionReady(c, n)

---------------------------------------------------------------------------
\* NotifyTopicLeaderSession: node n is told that s is the leader's session, as a
\* part of the join session js (0 for none).

SessionFails(c, n, s, js) ==
    \/ ~c.loaded
    \/ ~c.disabled /\ js # 0 /\ n \in c.info.isr
    \/ c.info.leader # s.node
    \/ s.epoch < c.session.epoch

NotifyTopicLeaderSession(c, n, s, js) ==
    IF SessionFails(c, n, s, js) THEN c ELSE [c EXCEPT !.session = s]

\* ... and, being in the ISR and not the leader, compares its log with the leader's.
SessionSyncs(c, n, s, js) == ~SessionFails(c, n, s, js) /\ s.node # n /\ n \in c.info.isr

---------------------------------------------------------------------------
\* EnableTopicWrite and DisableTopicWrite; neither looks at an epoch.
EnableTopicWrite(c) == [c EXCEPT !.disabled = FALSE]
DisableTopicWrite(c) == [c EXCEPT !.disabled = TRUE]

\* NotifyReleaseTopicLeader for a session of the given epoch and a topic info of
\* epoch e: the node gives its session back.
ReleaseNotified(c, n, e, sessionEpoch) ==
    /\ c.loaded
    /\ \/ c.session.node = n /\ c.info.leader # n
       \/ /\ c.disabled /\ e >= c.info.epoch /\ c.session.epoch = sessionEpoch
          /\ c.info.leader = n

\* NotifyAcquireTopicLeader for the leader of a topic info of epoch e.
AcquireNotified(c, n, e) == c.loaded /\ c.info.epoch = e /\ c.info.leader = n

---------------------------------------------------------------------------
\* checkWriteForRpcCall: why a replica refuses a write of leader n before it looks
\* at anything else.
RefusesCall(c, n, wepoch) == ~c.loaded \/ c.info.wepoch # wepoch \/ c.info.leader # n
=============================================================================
