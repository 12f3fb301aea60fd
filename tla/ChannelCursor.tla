--------------------------- MODULE ChannelCursor ---------------------------
(***************************************************************************)
(* What a channel promises about its consume position (the confirmed       *)
(* offset of nsqd/channel.go, persisted and replicated as the channel's    *)
(* progress): it is a prefix of the queue made of messages that are done.  *)
(* A message becomes done when a client finishes it, and the position only *)
(* ever passes done messages.  It moves back only when someone asks for it: *)
(* Seek on the leader, Follow on a replica.                                *)
(***************************************************************************)
EXTENDS Integers

CONSTANT MaxMsgs

VARIABLES queueEnd, confirmed, done

cursorVars == <<queueEnd, confirmed, done>>

\* c is a position all of whose predecessors are in d.
Prefix(c, d) == \A m \in 0 .. c - 1 : m \in d

CursorInit == queueEnd \in 0 .. MaxMsgs /\ confirmed = 0 /\ done = {}

Publish == queueEnd < MaxMsgs /\ queueEnd' = queueEnd + 1 /\ UNCHANGED <<confirmed, done>>

\* Message m is finished, and the position moves up as far as it likes over
\* messages that are done.
FinishOne(m) ==
    /\ done' = done \cup {m}
    /\ confirmed' \in confirmed .. queueEnd /\ Prefix(confirmed', done')
    /\ UNCHANGED queueEnd

\* SetConsumeOffset: consuming starts again at offset.
Seek(offset) ==
    /\ confirmed' = offset /\ done' = 0 .. offset - 1
    /\ UNCHANGED queueEnd

\* A replica is told the leader's position, and may be told what else is done.
Follow(offset, also) ==
    /\ done' = done \cup (0 .. offset - 1) \cup also
    /\ confirmed' \in {confirmed, offset}
    /\ UNCHANGED queueEnd

CursorNext ==
    \/ Publish
    \/ \E m \in 0 .. queueEnd - 1 : FinishOne(m)
    \/ \E offset \in 0 .. queueEnd : Seek(offset)
    \/ \E offset \in 0 .. queueEnd, also \in SUBSET (0 .. queueEnd - 1) : Follow(offset, also)

CursorSpec == CursorInit /\ [][CursorNext]_cursorVars
=============================================================================
