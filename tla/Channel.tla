------------------------------ MODULE Channel ------------------------------
(***************************************************************************)
(* One nsqd channel (nsqd/channel.go) between the disk queue it reads, the *)
(* client connections it feeds (nsqdserver/protocol_v2.go), the in-flight  *)
(* scanner and the administrative calls that reset it.                     *)
(*                                                                         *)
(* Processes, each a goroutine of the server:                              *)
(*   - the pump (messagePump): reads the queue and offers one message at a *)
(*     time on the unbuffered clientMsgChan;                               *)
(*   - one connection per client: takes an offered message, checks it,     *)
(*     puts it in flight and sends it; FIN, REQ, close;                    *)
(*   - the scanner (processInFlightQueue): times messages out, moves the   *)
(*     waiting requeues, repairs, resets a reader that is stuck;           *)
(*   - the administrator: SetConsumeOffset, SetOrdered, Skip, and          *)
(*     DisableConsume, called when the node stops or starts leading;       *)
(*   - the replication link that moves the cursor of a follower.           *)
(*                                                                         *)
(* A message is its position in the queue: message m occupies [m, m+1).    *)
(* Time is abstract: a message in flight may time out at any scan.         *)
(***************************************************************************)
EXTENDS Integers, Sequences, FiniteSets, IntervalHash

CONSTANTS
    Clients,         \* client connections
    MaxMsgs,         \* bound: messages published
    MaxConfirmWin,   \* option.MaxConfirmWin
    ReqCap,          \* capacity of requeuedMsgChan
    ResetCap,        \* capacity of readerChanged
    SeekBeyond,      \* how far past the reader's end an offset reset may aim
    StartMsgs,       \* messages in the queue when the channel is opened
    StartDisabled,   \* is the channel opened on a follower?
    OrderedTopic,    \* is the topic ordered? then every client subscribes ordered
    Ops,             \* the optional operations that occur in this instance
    MaxAdmin         \* bound: administrative calls made

ASSUME ConstantsAssumption ==
    /\ MaxMsgs \in Nat /\ MaxConfirmWin \in Nat
    /\ ReqCap \in Nat \ {0} /\ ResetCap \in Nat \ {0}
    /\ SeekBeyond \in Nat /\ MaxAdmin \in Nat /\ StartMsgs \in 0 .. MaxMsgs
    /\ StartDisabled \in BOOLEAN /\ OrderedTopic \in BOOLEAN

\* The owner of a message in flight is told from the two marks used for none.
ASSUME ClientsAssumption == "absent" \notin Clients /\ "deferred" \notin Clients

VARIABLES
    queueEnd, readPos, confirmed,       \* diskQueueReader: end, read and confirmed positions
    confirmedMsgs, waitingConfirm,      \* finished above confirmed; its cached length
    inFlight,                           \* message -> owner, "deferred" or "absent"
    requeuedMsgChan,                    \* buffered channel of messages to redeliver
    waitingRequeueChanMsgs,             \* messages believed to be in that channel
    waitingRequeueMsgs,                 \* messages waiting for room in it
    tryReadBackend, endUpdatedChan,     \* wake-up channels of capacity 1
    needNotifyRead, readerChanged,      \* pump asked to be woken; queued reader resets
    consumeDisabled, requireOrder, skipped,
    clients, conn, hand, checked,       \* registered clients; connection state; message in hand
    pc, msg, lastData, readBackendWait, \* the pump's locals
    needResetReader,
    pumpDrain,                          \* why the pump is draining: "keep", "clear", "seek"
    scanPc,                             \* the scanner
    adminPc, adminClear, adminCount,    \* the administrator
    done                                \* history: messages finished or passed over

backend  == <<queueEnd, readPos, confirmed>>
confirms == <<confirmedMsgs, waitingConfirm>>
requeues == <<requeuedMsgChan, waitingRequeueChanMsgs, waitingRequeueMsgs>>
signals  == <<tryReadBackend, endUpdatedChan, needNotifyRead, readerChanged>>
modes    == <<consumeDisabled, requireOrder, skipped>>
session  == <<clients, conn, hand, checked>>
pump     == <<pc, msg, lastData, readBackendWait, needResetReader, pumpDrain>>
admin    == <<adminPc, adminClear, adminCount>>
vars == <<backend, confirms, inFlight, requeues, signals, modes, session, pump, scanPc, admin, done>>

Msgs  == 0 .. MaxMsgs - 1
NoMsg == -1

\* What readerChanged carries: a position to reset to, or one of the two
\* "back to the confirmed position" requests (offset -1 in the code).
ResetKeep  == -1      \* resetChannelData{-1, 0, false}
ResetClear == -2      \* resetChannelData{-1, 0, true}

Init ==
    /\ queueEnd = StartMsgs /\ readPos = 0 /\ confirmed = 0
    /\ confirmedMsgs = NewIntervalHash /\ waitingConfirm = 0
    /\ inFlight = [m \in Msgs |-> "absent"]
    /\ requeuedMsgChan = <<>> /\ waitingRequeueChanMsgs = {} /\ waitingRequeueMsgs = {}
    /\ tryReadBackend = FALSE /\ endUpdatedChan = FALSE
    /\ needNotifyRead = FALSE /\ readerChanged = <<>>
    /\ consumeDisabled = StartDisabled /\ requireOrder = FALSE /\ skipped = FALSE
    /\ clients = {} /\ conn = [c \in Clients |-> "none"]
    /\ hand = [c \in Clients |-> NoMsg] /\ checked = {}
    /\ pc = "top" /\ msg = NoMsg /\ lastData = NoMsg
    /\ readBackendWait = FALSE /\ needResetReader = 0 /\ pumpDrain = "none"
    /\ scanPc = "clean"
    /\ adminPc = "idle" /\ adminClear = FALSE /\ adminCount = 0
    /\ done = {}
-----------------------------------------------------------------------------
(* Operations shared by several processes.                                 *)

\* Non-blocking sends on readerChanged: what finds no room is dropped.
SendResets(rs) ==
    readerChanged' = SubSeq(readerChanged \o rs, 1, Lower(ResetCap, Len(readerChanged \o rs)))
SendReset(r) == SendResets(<<r>>)

\* doRequeue, under inFlightMutex: into requeuedMsgChan if there is room,
\* otherwise into the overflow map the scanner empties later.
DoRequeueMutant(m) ==      \* drops the message when the channel is full
    IF Len(requeuedMsgChan) < ReqCap
    THEN /\ requeuedMsgChan' = Append(requeuedMsgChan, m)
         /\ waitingRequeueChanMsgs' = waitingRequeueChanMsgs \cup {m}
         /\ UNCHANGED waitingRequeueMsgs
    ELSE UNCHANGED requeues
DoRequeue(m) ==
    IF Len(requeuedMsgChan) < ReqCap
    THEN /\ requeuedMsgChan' = Append(requeuedMsgChan, m)
         /\ waitingRequeueChanMsgs' = waitingRequeueChanMsgs \cup {m}
         /\ UNCHANGED waitingRequeueMsgs
    ELSE /\ waitingRequeueMsgs' = waitingRequeueMsgs \cup {m}
         /\ UNCHANGED <<requeuedMsgChan, waitingRequeueChanMsgs>>

\* ConfirmRead refuses to move past what has been read.
ConfirmReadOKMutant(offset) == TRUE      \* no check against the read position
ConfirmReadOK(offset) == offset <= readPos

\* ConfirmBackendQueue, under confirmMutex.  A merged interval that reaches down
\* to the confirmed position moves it up and leaves the map, unless ConfirmRead
\* fails: then the interval stays.
Merged(m) == MergedInterval(confirmedMsgs, m, m + 1)
ReducesMutant(m) == m >= confirmed /\ ConfirmReadOK(Merged(m)[2])   \* a gap below is not looked for
Reduces(m) == m >= confirmed /\ Merged(m)[1] <= confirmed /\ ConfirmReadOK(Merged(m)[2])
ConfirmedMsgsAfter(m) ==
    LET added == AddOrMerge(confirmedMsgs, m, m + 1)
    IN  IF m < confirmed THEN confirmedMsgs
        ELSE IF Reduces(m) THEN DeleteInterval(added, Merged(m)) ELSE added

ConfirmBackendQueue(m) ==
    /\ confirmed' = IF Reduces(m) THEN Merged(m)[2] ELSE confirmed
    /\ confirmedMsgs' = ConfirmedMsgsAfter(m)
    /\ waitingConfirm' = IF m < confirmed THEN waitingConfirm ELSE HashLen(ConfirmedMsgsAfter(m))

\* Does ConfirmBackendQueue wake the pump?
WakesReader(m) ==
    /\ Reduces(m) /\ HashLen(ConfirmedMsgsAfter(m)) < MaxConfirmWin \div 2
    /\ needNotifyRead /\ ~requireOrder

\* The sections of drainChannelWaiting, which the pump and DisableConsume both
\* run: initPQ, the confirmed intervals, the message channels and requeue maps.
DrainFlight == inFlight' = [m \in Msgs |-> "absent"]
DrainConfirmed(clear) ==
    LET kept == IF clear THEN NewIntervalHash ELSE DeleteLower(confirmedMsgs, confirmed)
    IN  confirmedMsgs' = kept /\ waitingConfirm' = HashLen(kept)
DrainWaiting ==
    requeuedMsgChan' = <<>> /\ waitingRequeueMsgs' = {} /\ waitingRequeueChanMsgs' = {}
-----------------------------------------------------------------------------
(* The topic: UpdateQueueEnd after a message is committed and flushed.     *)

UpdateQueueEnd ==
    /\ queueEnd < MaxMsgs
    /\ queueEnd' = queueEnd + 1
    /\ endUpdatedChan' = (endUpdatedChan \/ ~consumeDisabled)
    /\ UNCHANGED <<readPos, confirmed, confirms, inFlight, requeues, tryReadBackend, needNotifyRead,
                   readerChanged, modes, session, pump, scanPc, admin, done>>
-----------------------------------------------------------------------------
(* The pump.  "top" is the head of the loop; "read" the same after a reset,  *)
(* where the window is not looked at; "selectNil", "selectData", "selectEnd" *)
(* the first select with neither, the message read ahead, or a wait for new  *)
(* data armed; "check" and "accepted" the tests after it; "dispatch" the     *)
(* offer on clientMsgChan.                                                   *)

NothingTracked ==
    (\A m \in Msgs : inFlight[m] = "absent") /\ waitingRequeueMsgs = {} /\ waitingRequeueChanMsgs = {}

\* A requested reset: the reader goes back to the confirmed position, and the
\* decision is made whether the finished intervals are forgotten too.
PumpReset ==
    /\ pc = "top" /\ needResetReader > 0
    /\ readPos' = confirmed
    /\ needResetReader' = 0 /\ readBackendWait' = FALSE
    /\ pumpDrain' = IF \/ waitingConfirm > MaxConfirmWin /\ NothingTracked
                       \/ requireOrder
                       \/ needResetReader = 2
                    THEN "clear" ELSE "keep"
    /\ pc' = "drainFlight"
    /\ UNCHANGED <<queueEnd, confirmed, confirms, inFlight, requeues, signals, modes, session, msg,
                   lastData, scanPc, admin, done>>

PumpDrainFlight ==
    /\ pc = "drainFlight" /\ pc' = "drainConfirmed"
    /\ DrainFlight
    /\ UNCHANGED <<backend, confirms, requeues, signals, modes, session, msg, lastData, readBackendWait,
                   needResetReader, pumpDrain, scanPc, admin, done>>

PumpDrainConfirmedMutant ==      \* an offset reset keeps the finished intervals
    /\ pc = "drainConfirmed" /\ pc' = "drainWaiting"
    /\ DrainConfirmed(pumpDrain = "clear")
    /\ UNCHANGED <<backend, inFlight, requeues, signals, modes, session, msg, lastData, readBackendWait,
                   needResetReader, pumpDrain, scanPc, admin, done>>
PumpDrainConfirmed ==
    /\ pc = "drainConfirmed" /\ pc' = "drainWaiting"
    /\ DrainConfirmed(pumpDrain # "keep")
    /\ UNCHANGED <<backend, inFlight, requeues, signals, modes, session, msg, lastData, readBackendWait,
                   needResetReader, pumpDrain, scanPc, admin, done>>

\* The last section also throws away the message read ahead.
PumpDrainWaiting ==
    /\ pc = "drainWaiting" /\ pc' = IF pumpDrain = "seek" THEN "top" ELSE "read"
    /\ DrainWaiting /\ lastData' = NoMsg /\ pumpDrain' = "none"
    /\ UNCHANGED <<backend, confirms, inFlight, signals, modes, session, msg, readBackendWait,
                   needResetReader, scanPc, admin, done>>

\* The loop head while an ordered message is out, or when too many intervals
\* wait for confirmation: seen in one step, announced in the next.
PumpWait ==
    /\ pc = "top" /\ needResetReader = 0
    /\ readBackendWait \/ waitingConfirm > MaxConfirmWin
    /\ pc' = IF readBackendWait THEN "selectNil" ELSE "hold"
    /\ UNCHANGED <<backend, confirms, inFlight, requeues, signals, modes, session, msg, lastData,
                   readBackendWait, needResetReader, pumpDrain, scanPc, admin, done>>

PumpHold ==
    /\ pc = "hold" /\ pc' = "selectNil"
    /\ needNotifyRead' = TRUE
    /\ UNCHANGED <<backend, confirms, inFlight, requeues, tryReadBackend, endUpdatedChan, readerChanged,
                   modes, session, msg, lastData, readBackendWait, needResetReader, pumpDrain,
                   scanPc, admin, done>>

\* TryReadOne, unless consuming is disabled or a message is already read ahead.
PumpRead ==
    /\ \/ pc = "read"
       \/ pc = "top" /\ needResetReader = 0 /\ ~readBackendWait /\ waitingConfirm <= MaxConfirmWin
    /\ \/ /\ consumeDisabled \/ lastData # NoMsg
          /\ pc' = IF consumeDisabled THEN "selectNil" ELSE "selectData"
          /\ UNCHANGED <<lastData, readPos>>
       \/ /\ ~consumeDisabled /\ lastData = NoMsg /\ readPos < queueEnd
          /\ lastData' = readPos /\ readPos' = readPos + 1
          /\ pc' = "selectData"
       \/ /\ ~consumeDisabled /\ lastData = NoMsg /\ readPos >= queueEnd
          /\ pc' = "selectEnd"
          /\ UNCHANGED <<lastData, readPos>>
    /\ UNCHANGED <<queueEnd, confirmed, confirms, inFlight, requeues, signals, modes, session, msg,
                   readBackendWait, needResetReader, pumpDrain, scanPc, admin, done>>

\* The cases of the first select.
Selecting == pc \in {"selectNil", "selectData", "selectEnd"}

PumpTakeRequeued ==
    /\ Selecting /\ requeuedMsgChan # <<>>
    /\ msg' = Head(requeuedMsgChan) /\ requeuedMsgChan' = Tail(requeuedMsgChan)
    /\ pc' = "check"
    /\ UNCHANGED <<backend, confirms, inFlight, waitingRequeueChanMsgs, waitingRequeueMsgs, signals,
                   modes, session, lastData, readBackendWait, needResetReader, pumpDrain,
                   scanPc, admin, done>>

PumpTakeData ==
    /\ pc = "selectData" /\ pc' = "check"
    /\ msg' = lastData /\ lastData' = NoMsg
    /\ UNCHANGED <<backend, confirms, inFlight, requeues, signals, modes, session, readBackendWait,
                   needResetReader, pumpDrain, scanPc, admin, done>>

PumpTryRead ==
    /\ Selecting /\ tryReadBackend
    /\ tryReadBackend' = FALSE /\ needNotifyRead' = FALSE /\ readBackendWait' = FALSE
    /\ pc' = "top"
    /\ UNCHANGED <<backend, confirms, inFlight, requeues, endUpdatedChan, readerChanged, modes, session,
                   msg, lastData, needResetReader, pumpDrain, scanPc, admin, done>>

PumpEndUpdated ==
    /\ pc = "selectEnd" /\ endUpdatedChan
    /\ endUpdatedChan' = FALSE /\ pc' = "top"
    /\ UNCHANGED <<backend, confirms, inFlight, requeues, tryReadBackend, needNotifyRead, readerChanged,
                   modes, session, msg, lastData, readBackendWait, needResetReader, pumpDrain,
                   scanPc, admin, done>>

\* resetChannelReader, in either select.  A message being offered is let go of
\* in all three cases, also when the reset fails.
TakesReset == (Selecting \/ pc = "dispatch") /\ readerChanged # <<>>

PumpResetRequested ==
    /\ TakesReset /\ Head(readerChanged) \in {ResetKeep, ResetClear}
    /\ needResetReader' = IF Head(readerChanged) = ResetClear THEN 2 ELSE 1
    /\ readerChanged' = Tail(readerChanged) /\ msg' = NoMsg /\ pc' = "top"
    /\ UNCHANGED <<backend, confirms, inFlight, requeues, tryReadBackend, endUpdatedChan,
                   needNotifyRead, modes, session, lastData, readBackendWait, pumpDrain, scanPc,
                   admin, done>>

\* ResetReadToOffset succeeds up to the end the reader knows.  From here on the
\* messages below the offset count as passed, those above it as not finished.
SeekDone ==
    /\ TakesReset /\ Head(readerChanged) \in 0 .. queueEnd
    /\ readPos' = Head(readerChanged) /\ confirmed' = Head(readerChanged)
    /\ done' = 0 .. Head(readerChanged) - 1
    /\ pumpDrain' = "seek" /\ readBackendWait' = FALSE
    /\ readerChanged' = Tail(readerChanged) /\ msg' = NoMsg /\ pc' = "drainFlight"
    /\ UNCHANGED <<queueEnd, confirms, inFlight, requeues, tryReadBackend, endUpdatedChan,
                   needNotifyRead, modes, session, lastData, needResetReader, scanPc, admin>>

SeekFails ==
    /\ TakesReset /\ Head(readerChanged) > queueEnd
    /\ readBackendWait' = FALSE
    /\ readerChanged' = Tail(readerChanged) /\ msg' = NoMsg /\ pc' = "top"
    /\ UNCHANGED <<backend, confirms, inFlight, requeues, tryReadBackend, endUpdatedChan,
                   needNotifyRead, modes, session, lastData, needResetReader, pumpDrain, scanPc,
                   admin, done>>

PumpSeek == IF TakesReset /\ Head(readerChanged) > queueEnd THEN SeekFails ELSE SeekDone

\* The tests between the two selects: drop, ask for a reset, confirm a skipped
\* message, or offer it.  Consuming may become disabled after the first of them.
OutOfOrderMutant == requireOrder /\ msg < confirmed      \* a gap is let through
OutOfOrder == requireOrder /\ msg # confirmed

PumpDrop ==
    /\ pc = "check" /\ consumeDisabled
    /\ msg' = NoMsg /\ pc' = "top"
    /\ UNCHANGED <<backend, confirms, inFlight, requeues, signals, modes, session, lastData,
                   readBackendWait, needResetReader, pumpDrain, scanPc, admin, done>>

PumpAccept ==
    /\ pc = "check" /\ ~consumeDisabled
    /\ pc' = "accepted"
    /\ UNCHANGED <<backend, confirms, inFlight, requeues, signals, modes, session, msg, lastData,
                   readBackendWait, needResetReader, pumpDrain, scanPc, admin, done>>

PumpOutOfOrderMutant ==      \* drops the message without a reset
    /\ pc = "accepted" /\ OutOfOrder
    /\ msg' = NoMsg /\ pc' = "top"
    /\ UNCHANGED <<backend, confirms, inFlight, requeues, signals, modes, session, lastData,
                   needResetReader, readBackendWait, pumpDrain, scanPc, admin, done>>
PumpOutOfOrder ==
    /\ pc = "accepted" /\ OutOfOrder
    /\ needResetReader' = 2
    /\ msg' = NoMsg /\ pc' = "top"
    /\ UNCHANGED <<backend, confirms, inFlight, requeues, signals, modes, session, lastData,
                   readBackendWait, pumpDrain, scanPc, admin, done>>

PumpSkip ==
    /\ pc = "accepted" /\ ~OutOfOrder /\ skipped
    /\ ConfirmBackendQueue(msg) /\ done' = done \cup {msg}
    /\ tryReadBackend' = (tryReadBackend \/ WakesReader(msg))
    /\ waitingRequeueChanMsgs' = waitingRequeueChanMsgs \ {msg}
    /\ msg' = NoMsg /\ pc' = "top"
    /\ UNCHANGED <<queueEnd, readPos, inFlight, requeuedMsgChan, waitingRequeueMsgs, endUpdatedChan,
                   needNotifyRead, readerChanged, modes, session, lastData, readBackendWait,
                   needResetReader, pumpDrain, scanPc, admin>>

PumpOffer ==
    /\ pc = "accepted" /\ ~OutOfOrder /\ ~skipped
    /\ needNotifyRead' = (needNotifyRead \/ requireOrder)
    /\ readBackendWait' = (readBackendWait \/ requireOrder)
    /\ pc' = "dispatch"
    /\ UNCHANGED <<backend, confirms, inFlight, requeues, tryReadBackend, endUpdatedChan,
                   readerChanged, modes, session, msg, lastData, needResetReader, pumpDrain, scanPc,
                   admin, done>>

Pump ==
    \/ PumpReset \/ PumpDrainFlight \/ PumpDrainConfirmed \/ PumpDrainWaiting
    \/ PumpWait \/ PumpHold \/ PumpRead
    \/ PumpTakeRequeued \/ PumpTakeData \/ PumpTryRead \/ PumpEndUpdated
    \/ PumpResetRequested \/ PumpSeek
    \/ PumpDrop \/ PumpAccept \/ PumpOutOfOrder \/ PumpSkip \/ PumpOffer
-----------------------------------------------------------------------------
(* Client connections.  conn[c] is "none", "open", "closing" (Exit called or *)
(* the peer is gone), "requeue" (its messagePump has stopped and its messages *)
(* are handed back one by one) or "gone" (that is done or was skipped).      *)

\* SUB: AddClient, and SetOrdered(true) on an ordered topic.  A client id is never
\* used by two connections.
Sub(c) ==
    /\ conn[c] = "none" /\ ~consumeDisabled /\ adminPc = "idle"
    /\ \A m \in Msgs : inFlight[m] # c
    /\ conn' = [conn EXCEPT ![c] = "open"] /\ clients' = clients \cup {c}
    /\ requireOrder' = (requireOrder \/ OrderedTopic)
    /\ SendResets(IF OrderedTopic /\ ~requireOrder THEN <<ResetClear>> ELSE <<>>)
    /\ UNCHANGED <<backend, confirms, inFlight, requeues, tryReadBackend, endUpdatedChan,
                   needNotifyRead, consumeDisabled, skipped, hand, checked, pump, scanPc, admin, done>>

\* The connection's messagePump receives the offered message.
ClientTake(c) ==
    /\ conn[c] \in {"open", "closing"} /\ hand[c] = NoMsg
    /\ pc = "dispatch"
    /\ hand' = [hand EXCEPT ![c] = msg]
    /\ msg' = NoMsg /\ pc' = "top"
    /\ UNCHANGED <<backend, confirms, inFlight, requeues, signals, modes, clients, conn, checked,
                   lastData, readBackendWait, needResetReader, pumpDrain, scanPc, admin, done>>

IsConfirmed(m) == IsCompleteOverlap(confirmedMsgs, m, m + 1)

\* ContinueConsumeForOrder
ContinuesOrderedMutant == FALSE      \* FIN does not wake an ordered pump
ContinuesOrdered == requireOrder /\ needNotifyRead

\* Before it is put in flight: a message known to be finished is dropped.
ClientCheck(c) ==
    /\ hand[c] # NoMsg /\ c \notin checked
    /\ \/ /\ ~IsConfirmed(hand[c])
          /\ checked' = checked \cup {c}
          /\ UNCHANGED <<hand, waitingRequeueChanMsgs, tryReadBackend>>
       \/ /\ IsConfirmed(hand[c])
          /\ hand' = [hand EXCEPT ![c] = NoMsg]
          /\ waitingRequeueChanMsgs' = waitingRequeueChanMsgs \ {hand[c]}
          /\ tryReadBackend' = (tryReadBackend \/ ContinuesOrdered)
          /\ UNCHANGED checked
    /\ UNCHANGED <<backend, confirms, inFlight, requeuedMsgChan, waitingRequeueMsgs, endUpdatedChan,
                   needNotifyRead, readerChanged, modes, clients, conn, pump, scanPc, admin, done>>

\* A client with a sample rate leaves messages out: they are confirmed unsent.
\* An ordered subscription of such a client is refused.
ClientSample(c) ==
    /\ "sample" \in Ops /\ ~OrderedTopic
    /\ hand[c] # NoMsg /\ c \notin checked
    /\ ConfirmBackendQueue(hand[c]) /\ done' = done \cup {hand[c]}
    /\ tryReadBackend' = (tryReadBackend \/ WakesReader(hand[c]))
    /\ waitingRequeueChanMsgs' = waitingRequeueChanMsgs \ {hand[c]}
    /\ hand' = [hand EXCEPT ![c] = NoMsg]
    /\ UNCHANGED <<queueEnd, readPos, inFlight, requeuedMsgChan, waitingRequeueMsgs, endUpdatedChan,
                   needNotifyRead, readerChanged, modes, clients, conn, checked, pump, scanPc,
                   admin>>

\* StartInFlightTimeout and SendMessage; the copy is dropped if consuming is
\* disabled or another copy is in flight.
ClientPush(c) ==
    /\ c \in checked
    /\ checked' = checked \ {c} /\ hand' = [hand EXCEPT ![c] = NoMsg]
    /\ IF consumeDisabled \/ inFlight[hand[c]] # "absent"
       THEN UNCHANGED <<inFlight, waitingRequeueChanMsgs>>
       ELSE /\ inFlight' = [inFlight EXCEPT ![hand[c]] = c]
            /\ waitingRequeueChanMsgs' = waitingRequeueChanMsgs \ {hand[c]}
    /\ UNCHANGED <<backend, confirms, requeuedMsgChan, waitingRequeueMsgs, signals, modes, clients,
                   conn, pump, scanPc, admin, done>>

\* internalFinishMessage: out of flight and confirmed under inFlightMutex.
Finish(m) ==
    /\ inFlight' = [inFlight EXCEPT ![m] = "absent"]
    /\ ConfirmBackendQueue(m) /\ done' = done \cup {m}
    /\ tryReadBackend' = (tryReadBackend \/ WakesReader(m) \/ ContinuesOrdered)
    /\ UNCHANGED <<queueEnd, readPos, requeues, endUpdatedChan, needNotifyRead, readerChanged,
                   modes, session, pump, scanPc>>

\* FIN
Fin(c, m) ==
    /\ inFlight[m] = c /\ conn[c] \in {"open", "closing"}
    /\ Finish(m) /\ UNCHANGED admin

Requeue(c, m) ==
    /\ inFlight[m] = c
    /\ inFlight' = [inFlight EXCEPT ![m] = "absent"]
    /\ DoRequeue(m)
    /\ UNCHANGED <<backend, confirms, signals, modes, session, pump, scanPc, admin, done>>

\* REQ with no delay
Req(c, m) == "req" \in Ops /\ conn[c] \in {"open", "closing"} /\ Requeue(c, m)

DeferredCount == Cardinality({m \in Msgs : inFlight[m] = "deferred"})
IsTooMuchDeferredInMem ==
    /\ readPos - confirmed >= MaxConfirmWin
    /\ 2 * DeferredCount > readPos - confirmed

\* REQ with a delay: the message stays in flight, owned by nobody.  The delay is
\* ignored, and the REQ with it, on an ordered topic.
ReqDefer(c, m) ==
    /\ "defer" \in Ops /\ ~OrderedTopic
    /\ inFlight[m] = c /\ conn[c] \in {"open", "closing"}
    /\ ~IsTooMuchDeferredInMem
    /\ inFlight' = [inFlight EXCEPT ![m] = "deferred"]
    /\ UNCHANGED <<backend, confirms, requeues, signals, modes, session, pump, scanPc, admin, done>>

\* TryWakeupRead, from the heartbeat of a ready client.
Heartbeat(c) ==
    /\ "heartbeat" \in Ops
    /\ conn[c] = "open" /\ hand[c] = NoMsg /\ ~consumeDisabled /\ ~requireOrder
    /\ tryReadBackend' = TRUE
    /\ UNCHANGED <<backend, confirms, inFlight, requeues, endUpdatedChan, needNotifyRead,
                   readerChanged, modes, session, pump, scanPc, admin, done>>

\* The peer closes the connection or a send fails.
Close(c) ==
    /\ "close" \in Ops
    /\ conn[c] = "open" /\ conn' = [conn EXCEPT ![c] = "closing"]
    /\ UNCHANGED <<backend, confirms, inFlight, requeues, signals, modes, clients, hand, checked,
                   pump, scanPc, admin, done>>

\* IOLoop after its messagePump stopped: RequeueClientMessages does nothing when
\* consuming is disabled.
Stopped(c) ==
    /\ conn[c] = "closing" /\ hand[c] = NoMsg
    /\ conn' = [conn EXCEPT ![c] = IF consumeDisabled THEN "gone" ELSE "requeue"]
    /\ UNCHANGED <<backend, confirms, inFlight, requeues, signals, modes, clients, hand, checked,
                   pump, scanPc, admin, done>>

RequeueClientMessage(c, m) == conn[c] = "requeue" /\ Requeue(c, m)

RemoveClient(c) ==
    /\ conn[c] \in {"gone", "requeue"}
    /\ conn[c] = "requeue" => \A m \in Msgs : inFlight[m] # c
    /\ adminPc = "idle"
    /\ clients' = clients \ {c} /\ conn' = [conn EXCEPT ![c] = "none"]
    /\ UNCHANGED <<backend, confirms, inFlight, requeues, signals, modes, hand, checked, pump,
                   scanPc, admin, done>>

Client(c) ==
    \/ Sub(c) \/ ClientTake(c) \/ ClientCheck(c) \/ ClientSample(c) \/ ClientPush(c)
    \/ Heartbeat(c) \/ Close(c) \/ Stopped(c) \/ RemoveClient(c)
    \/ \E m \in Msgs : Fin(c, m) \/ Req(c, m) \/ ReqDefer(c, m) \/ RequeueClientMessage(c, m)
-----------------------------------------------------------------------------
(* The scanner, processInFlightQueue.  One pass times messages out, then      *)
(* ends in two steps.  "clean" and "dirty" say whether the pass has timed a   *)
(* message out, "quietTail" that it then saw nothing in flight or on its way. *)

\* Any message in flight may be the one whose time has come.
ScanTimeout(m) ==
    /\ "timeout" \in Ops
    /\ scanPc \in {"clean", "dirty"} /\ ~consumeDisabled
    /\ inFlight[m] # "absent"
    /\ inFlight' = [inFlight EXCEPT ![m] = "absent"]
    /\ DoRequeue(m)
    /\ scanPc' = "dirty"
    /\ UNCHANGED <<backend, confirms, signals, modes, session, pump, admin, done>>

\* No further timeout: move waiting messages into requeuedMsgChan until it is
\* full, in map order.  waitingDeliveryState is "the pump is offering a message".
ScanRequeueMutant ==      \* leaves the waiting messages where they are
    /\ scanPc \in {"clean", "dirty"} /\ scanPc' = "tail"
    /\ UNCHANGED <<backend, confirms, inFlight, requeues, signals, modes, session, pump, admin, done>>
ScanRequeue ==
    /\ scanPc \in {"clean", "dirty"}
    /\ scanPc' = IF /\ scanPc = "clean" /\ pc # "dispatch"
                    /\ requeuedMsgChan = <<>> /\ waitingRequeueMsgs = {}
                    /\ consumeDisabled \/ \A m \in Msgs : inFlight[m] = "absent"
                 THEN "quietTail" ELSE "tail"
    /\ IF consumeDisabled
       THEN UNCHANGED requeues
       ELSE LET room == ReqCap - Len(requeuedMsgChan)
                cnt  == Lower(room, Cardinality(waitingRequeueMsgs))
            IN  \E q \in [1 .. cnt -> waitingRequeueMsgs] :
                    /\ \A i, j \in 1 .. cnt : i # j => q[i] # q[j]
                    /\ requeuedMsgChan' = requeuedMsgChan \o q
                    /\ waitingRequeueMsgs' = waitingRequeueMsgs \ {q[i] : i \in 1 .. cnt}
                    /\ waitingRequeueChanMsgs' = waitingRequeueChanMsgs \cup {q[i] : i \in 1 .. cnt}
    /\ UNCHANGED <<backend, confirms, inFlight, signals, modes, session, pump, admin, done>>

\* Intervals below the confirmed position are forgotten (the cached length is not
\* refreshed), and so are history entries that no interval backs: these ask for
\* a reset.  Then, if nothing is in flight, requeued or offered and still the
\* window is full, the reader is reset and the intervals are given up.
Unbacked(ih) == {s \in DOMAIN ih.historyMsg : ~QueryExist(ih, s, ih.historyMsg[s])}
Stuck ==
    scanPc = "quietTail" /\ clients # {} /\ waitingConfirm >= MaxConfirmWin /\ pc # "dispatch"

\* The condition has to hold for resetReaderTimeoutSec.  With "patience" that is
\* longer than the pump and the connections take for what they have at hand;
\* without, the time may have elapsed whenever the condition is seen.
TimeElapsed ==
    "patience" \in Ops => /\ Selecting /\ pc # "selectData" /\ ~tryReadBackend
                          /\ requeuedMsgChan = <<>> /\ waitingRequeueMsgs = {}
                          /\ \A c \in Clients : hand[c] = NoMsg
                          /\ \A m \in Msgs : inFlight[m] = "absent"

ScanTail ==
    /\ scanPc \in {"tail", "quietTail"} /\ scanPc' = "clean"
    /\ LET kept == DeleteLower(confirmedMsgs, confirmed)
       IN  /\ confirmedMsgs' = [kept EXCEPT !.historyMsg = Without(kept.historyMsg, Unbacked(kept))]
           /\ SendResets((IF Unbacked(kept) # {} THEN <<ResetKeep>> ELSE <<>>)
                         \o (IF Stuck /\ TimeElapsed THEN <<ResetClear>> ELSE <<>>))
    /\ UNCHANGED <<backend, waitingConfirm, inFlight, requeues, tryReadBackend, endUpdatedChan,
                   needNotifyRead, modes, session, pump, admin, done>>

Scanner == (\E m \in Msgs : ScanTimeout(m)) \/ ScanRequeue \/ ScanTail
-----------------------------------------------------------------------------
(* The administrator.                                                       *)

AdminCall(op) ==
    /\ op \in Ops /\ adminPc = "idle" /\ adminCount < MaxAdmin
    /\ adminCount' = adminCount + 1

\* SetConsumeOffset, from the first client's SUB or forced.  The offset comes
\* from the commit log, which may be ahead of the end the reader knows.
SetConsumeOffset(offset) ==
    /\ AdminCall("offset") /\ ~consumeDisabled
    /\ SendReset(offset)
    /\ UNCHANGED <<backend, confirms, inFlight, requeues, tryReadBackend, endUpdatedChan,
                   needNotifyRead, modes, session, pump, scanPc, adminPc, adminClear, done>>

SetOrdered ==
    /\ AdminCall("order") /\ ~requireOrder
    /\ requireOrder' = TRUE /\ SendReset(ResetClear)
    /\ UNCHANGED <<backend, confirms, inFlight, requeues, tryReadBackend, endUpdatedChan,
                   needNotifyRead, consumeDisabled, skipped, session, pump, scanPc, adminPc,
                   adminClear, done>>

UnsetOrdered ==
    /\ AdminCall("unorder") /\ clients = {}
    /\ requireOrder' = FALSE /\ tryReadBackend' = TRUE
    /\ UNCHANGED <<backend, confirms, inFlight, requeues, endUpdatedChan, needNotifyRead,
                   readerChanged, consumeDisabled, skipped, session, pump, scanPc, adminPc,
                   adminClear, done>>

\* Skip and UnSkip
DoSkip ==
    /\ AdminCall("skip")
    /\ skipped' = ~skipped
    /\ UNCHANGED <<backend, confirms, inFlight, requeues, signals, consumeDisabled, requireOrder,
                   session, pump, scanPc, adminPc, adminClear, done>>

\* internalRequeueToEnd: a copy was stored in the delayed queue, now whoever owns
\* the message loses it and it is confirmed.
RequeueToEnd(m) ==
    /\ AdminCall("toend") /\ UNCHANGED <<adminPc, adminClear>>
    /\ ~requireOrder /\ inFlight[m] # "absent"
    /\ Finish(m)

\* DisableConsume(true) holds the channel's lock to its end: the flag, Exit on
\* every client, then the drain (which cannot reach what the pump has read ahead).
DisableConsume ==
    /\ AdminCall("disable") /\ ~consumeDisabled
    /\ consumeDisabled' = TRUE
    /\ conn' = [c \in Clients |-> IF c \in clients /\ conn[c] = "open" THEN "closing" ELSE conn[c]]
    /\ clients' = {} /\ adminClear' = requireOrder /\ adminPc' = "drainFlight"
    /\ UNCHANGED <<backend, confirms, inFlight, requeues, signals, requireOrder, skipped, hand,
                   checked, pump, scanPc, done>>

AdminDrainFlight ==
    /\ adminPc = "drainFlight" /\ adminPc' = "drainConfirmed"
    /\ DrainFlight
    /\ UNCHANGED <<backend, confirms, requeues, signals, modes, session, pump, scanPc, adminClear,
                   adminCount, done>>

AdminDrainConfirmed ==
    /\ adminPc = "drainConfirmed" /\ adminPc' = "drainWaiting"
    /\ DrainConfirmed(adminClear)
    /\ UNCHANGED <<backend, inFlight, requeues, signals, modes, session, pump, scanPc, adminClear,
                   adminCount, done>>

\* Receive what the pump offers on clientMsgChan.
TakeOffered ==
    /\ msg' = IF pc = "dispatch" THEN NoMsg ELSE msg
    /\ pc'  = IF pc = "dispatch" THEN "top" ELSE pc
    /\ UNCHANGED <<backend, confirms, inFlight, signals, modes, session, lastData, readBackendWait,
                   needResetReader, pumpDrain, scanPc, adminCount, done>>

AdminDrainWaiting ==
    /\ adminPc = "drainWaiting" /\ adminPc' = "idle" /\ adminClear' = FALSE
    /\ TakeOffered /\ DrainWaiting

\* DisableConsume(false): clear the flag, empty the message channels, and ask for
\* the reader to go back to the confirmed position.
EnableConsume ==
    /\ AdminCall("disable") /\ consumeDisabled
    /\ consumeDisabled' = FALSE /\ adminPc' = "enableDrain"
    /\ UNCHANGED <<backend, confirms, inFlight, requeues, signals, requireOrder, skipped, session,
                   pump, scanPc, adminClear, done>>

EnableDrain ==
    /\ adminPc = "enableDrain" /\ adminPc' = "enableReset"
    /\ TakeOffered /\ requeuedMsgChan' = <<>>
    /\ waitingRequeueChanMsgs' = waitingRequeueChanMsgs \
            ({requeuedMsgChan[i] : i \in DOMAIN requeuedMsgChan} \cup (IF pc = "dispatch" THEN {msg} ELSE {}))
    /\ UNCHANGED <<waitingRequeueMsgs, adminClear>>

EnableResetMutant ==      \* does not ask for the reader to go back
    /\ adminPc = "enableReset" /\ adminPc' = "idle"
    /\ UNCHANGED <<backend, confirms, inFlight, requeues, signals, modes, session, pump, scanPc,
                   adminClear, adminCount, done>>
EnableReset ==
    /\ adminPc = "enableReset" /\ adminPc' = "idle"
    /\ SendReset(ResetKeep)
    /\ UNCHANGED <<backend, confirms, inFlight, requeues, tryReadBackend, endUpdatedChan,
                   needNotifyRead, modes, session, pump, scanPc, adminClear, adminCount, done>>

\* DisableConsume(false) on a channel that is already enabled.
EnableAgain ==
    /\ AdminCall("enable") /\ ~consumeDisabled
    /\ tryReadBackend' = TRUE
    /\ UNCHANGED <<backend, confirms, inFlight, requeues, endUpdatedChan, needNotifyRead,
                   readerChanged, modes, session, pump, scanPc, adminPc, adminClear, done>>
-----------------------------------------------------------------------------
(* A follower's channel: the leader sends its confirmed position and may add *)
(* the intervals it knows to be finished (at most one here).                 *)

UpdateConfirmedInterval(list) ==
    LET base == IF HashLen(confirmedMsgs) # 0 THEN NewIntervalHash ELSE confirmedMsgs
    IN  IF list = <<>> THEN base ELSE AddOrMerge(base, list[1], list[2])

\* ConfirmBackendQueueOnSlave after UpdateConfirmedInterval.  Moving backward
\* leaves the intervals alone.
UpdateChannelOffset(offset, allowBackward, updates, list) ==
    /\ "slave" \in Ops /\ adminCount < MaxAdmin /\ adminCount' = adminCount + 1
    /\ consumeDisabled
    /\ LET ih == IF updates THEN UpdateConfirmedInterval(list) ELSE confirmedMsgs
           moves == allowBackward \/ offset >= confirmed
           cleans == ~allowBackward /\ offset >= confirmed
       IN  /\ readPos' = IF moves THEN offset ELSE readPos
           /\ confirmed' = IF moves THEN offset ELSE confirmed
           /\ confirmedMsgs' = IF cleans THEN DeleteLower(ih, offset) ELSE ih
           /\ waitingConfirm' = IF cleans THEN HashLen(DeleteLower(ih, offset)) ELSE waitingConfirm
    /\ done' = done \cup (0 .. offset - 1)
                    \cup (IF updates /\ list # <<>> THEN list[1] .. list[2] - 1 ELSE {})
    /\ UNCHANGED <<queueEnd, inFlight, requeues, signals, modes, session, pump, scanPc, adminPc,
                   adminClear>>

IntervalLists == {<<>>} \cup {l \in (0 .. queueEnd) \X (0 .. queueEnd) : l[1] < l[2]}

Admin ==
    \/ \E offset \in 0 .. queueEnd + SeekBeyond : SetConsumeOffset(offset)
    \/ SetOrdered \/ UnsetOrdered \/ DoSkip
    \/ \E m \in Msgs : RequeueToEnd(m)
    \/ DisableConsume \/ AdminDrainFlight \/ AdminDrainConfirmed \/ AdminDrainWaiting
    \/ EnableConsume \/ EnableDrain \/ EnableReset \/ EnableAgain
    \/ \E offset \in 0 .. queueEnd, back, updates \in BOOLEAN, list \in IntervalLists :
           UpdateChannelOffset(offset, back, updates, list)
-----------------------------------------------------------------------------
Next == UpdateQueueEnd \/ Pump \/ (\E c \in Clients : Client(c)) \/ Scanner \/ Admin

Spec == Init /\ [][Next]_vars

\* The scheduling the server gives: goroutines that can run do run, a Go select
\* does not starve a case that keeps being ready, scans and heartbeats recur, a
\* message that stays in flight times out, and a client that keeps being sent a
\* message finishes it at last.
Connection(c) == Sub(c) \/ ClientCheck(c) \/ ClientPush(c) \/ Stopped(c) \/ RemoveClient(c)
ScanPass == ScanRequeue \/ ScanTail

Fairness ==
    /\ WF_vars(Pump) /\ WF_vars(ScanPass)
    /\ SF_vars(PumpTakeRequeued) /\ SF_vars(PumpTakeData) /\ SF_vars(PumpTryRead)
    /\ \A c \in Clients : WF_vars(Connection(c)) /\ SF_vars(ClientTake(c)) /\ WF_vars(Heartbeat(c))
    /\ \A m \in Msgs : SF_vars(ScanTimeout(m)) /\ SF_vars(\E c \in Clients : Fin(c, m))

FairSpec == Spec /\ Fairness

\* Enough where nothing times out and nothing is requeued.
PlainFairness ==
    /\ WF_vars(Pump) /\ WF_vars(ScanPass) /\ SF_vars(PumpTryRead) /\ SF_vars(PumpTakeData)
    /\ \A c \in Clients : /\ WF_vars(Connection(c)) /\ WF_vars(ClientTake(c)) /\ WF_vars(Heartbeat(c))
                         /\ WF_vars(\E m \in Msgs : Fin(c, m))

PlainFairSpec == Spec /\ PlainFairness
-----------------------------------------------------------------------------
(* Properties.                                                             *)

Positions == 0 .. MaxMsgs
DrainPcs  == {"drainFlight", "drainConfirmed", "drainWaiting"}

\* The types of the variables, and the cursor inside the queue.
Resets == {ResetKeep, ResetClear} \cup Nat

CursorTypes ==
    /\ queueEnd \in Positions /\ readPos \in Positions /\ confirmed \in Positions
    /\ confirmed <= readPos /\ readPos <= queueEnd
ConfirmTypes ==
    /\ DOMAIN confirmedMsgs.elems \subseteq Positions
    /\ DOMAIN confirmedMsgs.historyMsg \subseteq Positions
    /\ waitingConfirm \in Nat
FlightTypes == inFlight \in [Msgs -> Clients \cup {"absent", "deferred"}]
RequeueTypes ==
    /\ requeuedMsgChan \in Seq(Msgs)
    /\ waitingRequeueChanMsgs \subseteq Msgs /\ waitingRequeueMsgs \subseteq Msgs
SignalTypes ==
    /\ tryReadBackend \in BOOLEAN /\ endUpdatedChan \in BOOLEAN /\ needNotifyRead \in BOOLEAN
    /\ readerChanged \in Seq(Resets)
ModeTypes == consumeDisabled \in BOOLEAN /\ requireOrder \in BOOLEAN /\ skipped \in BOOLEAN
SessionTypes ==
    /\ clients \subseteq Clients
    /\ conn \in [Clients -> {"none", "open", "closing", "requeue", "gone"}]
    /\ hand \in [Clients -> Msgs \cup {NoMsg}] /\ checked \subseteq Clients
PumpTypes ==
    /\ pc \in {"top", "hold", "read", "selectNil", "selectData", "selectEnd", "check", "accepted",
               "dispatch"} \cup DrainPcs
    /\ msg \in Msgs \cup {NoMsg} /\ lastData \in Msgs \cup {NoMsg}
    /\ readBackendWait \in BOOLEAN /\ needResetReader \in 0 .. 2
    /\ pumpDrain \in {"none", "keep", "clear", "seek"}
ScanTypes == scanPc \in {"clean", "dirty", "tail", "quietTail"}
AdminTypes ==
    /\ adminPc \in DrainPcs \cup {"idle", "enableDrain", "enableReset"}
    /\ adminClear \in BOOLEAN /\ adminCount \in Nat

TypeOK ==
    /\ CursorTypes /\ ConfirmTypes /\ FlightTypes /\ RequeueTypes /\ SignalTypes /\ ModeTypes
    /\ SessionTypes /\ PumpTypes /\ ScanTypes /\ AdminTypes /\ done \subseteq Nat

\* Every message below the confirmed position was finished by a client, skipped,
\* or passed over by an explicit move of the cursor: whatever the interleaving of
\* FIN, timeouts, resets and drains, ConfirmBackendQueue never confirms a message
\* nobody finished.
ConfirmedOnlyDone == \A m \in Msgs : m < confirmed => m \in done

\* Why ConfirmedOnlyDone is kept: the stored intervals are made of finished
\* messages too, except after an offset reset and before it has emptied the map,
\* when the read position keeps every confirmation from succeeding.
SeekUnderWay == pumpDrain = "seek" /\ pc \in {"drainFlight", "drainConfirmed"}
MapInv ==
    /\ Shaped(confirmedMsgs.elems, Positions)
    /\ IF SeekUnderWay THEN readPos = confirmed ELSE Covered(confirmedMsgs) \subseteq done
\* The pump has a message whenever it handles one.
HoldInv ==
    /\ pc \in {"check", "accepted", "dispatch"} => msg \in Msgs
    /\ pc = "selectData" => lastData \in Msgs
DoneInv == ConfirmedOnlyDone /\ MapInv /\ HoldInv

CursorInv == TypeOK /\ DoneInv

Tracked(m) ==
    \/ IsConfirmed(m) \/ m \in Covered(confirmedMsgs) \/ inFlight[m] # "absent"
    \/ m \in waitingRequeueMsgs \/ \E i \in DOMAIN requeuedMsgChan : requeuedMsgChan[i] = m
    \/ msg = m \/ lastData = m \/ \E c \in Clients : hand[c] = m

ResetPending ==
    \/ consumeDisabled \/ needResetReader > 0 \/ adminPc \in {"enableDrain", "enableReset"}
    \/ \E i \in DOMAIN readerChanged : readerChanged[i] <= queueEnd

\* A message that was read and is not confirmed is somewhere the channel will
\* deliver or confirm it from, or a reset of the reader is on its way: no drop in
\* the pump, the connections, the drains or a full channel loses it.
NoMessageLost ==
    \A m \in Msgs : confirmed <= m /\ m < readPos => Tracked(m) \/ ResetPending

\* On an ordered topic a client is only ever sent the message at the confirmed
\* position, or one that is confirmed already: no requeue, timeout, drain or late
\* push puts a message in flight ahead of one that is not finished.
OrderedDelivery ==
    OrderedTopic => \A m \in Msgs : inFlight[m] \in Clients => m <= confirmed

\* The channel implements the cursor: whatever its processes do, its position
\* moves like that of ChannelCursor.
Cursor == INSTANCE ChannelCursor
    WITH MaxMsgs <- MaxMsgs, queueEnd <- queueEnd, confirmed <- confirmed, done <- done
CursorRefinement == Cursor!CursorSpec

\* Every published message is confirmed in the end, if clients keep finishing
\* what they are sent: no lost wake-up between the pump and FIN, no message stuck
\* in a requeue queue, no window that stays full.
EventuallyConfirmed == \A m \in Msgs : m < queueEnd ~> confirmed > m
=============================================================================
