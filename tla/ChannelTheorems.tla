-------------------------- MODULE ChannelTheorems --------------------------
(***************************************************************************)
(* The theorems about Channel, for any number of clients and messages: the *)
(* types and the confirmed position (from ChannelProofs), and what is not  *)
(* lost, the order of delivery and the refinement of ChannelCursor (from   *)
(* ChannelKept).                                                           *)
(***************************************************************************)
EXTENDS ChannelKept, FiniteSetTheorems

-----------------------------------------------------------------------------
(* The theorems.                                                           *)

\* A set of positions can be counted.
LEMMA CountsAreFinite == FiniteCounts
<1>1. IsFiniteSet(Positions)
  BY ConstantsAssumption, FS_Interval DEF Positions
<1>2. QED BY <1>1, FS_Subset, FS_CardinalityType, FS_EmptySet, ZenonT(60) DEF FiniteCounts

\* The inductive invariant: types, and stored intervals made of finished messages
\* except while an offset reset is emptying the map.
THEOREM CursorInvariant == Spec => []CursorInv
<1>1. CursorInv /\ [Next]_vars => CursorInv'
  BY NextCursor, CountsAreFinite, Zenon
<1>2. QED BY <1>1, InitCursor, PTL DEF Spec

\* Every variable keeps its type and the cursor stays in order,
\* confirmed <= read <= end, for any number of clients and messages.
THEOREM TypeCorrect == Spec => []TypeOK
<1>1. CursorInv => TypeOK
  BY ZenonT(60) DEF CursorInv
<1>2. QED BY <1>1, CursorInvariant, PTL

\* No interleaving of the pump, the connections, the scanner, the administrator and
\* the replication link moves the confirmed position over a message that nobody
\* finished, for any number of clients and messages.
THEOREM ConfirmedAreDone == Spec => []ConfirmedOnlyDone
<1>1. CursorInv => ConfirmedOnlyDone
  BY DEF CursorInv, DoneInv
<1>2. QED BY <1>1, CursorInvariant, PTL

\* As long as offset resets aim at messages the reader knows of, nothing that was
\* read and is not confirmed is lost: drops in the pump and the connections, full
\* channels, drains, timeouts, the repairs of the scanner and changes of role leave
\* it where it will be delivered or confirmed from, or a reset of the reader is due.
\* For any number of clients and messages, and any capacity of the channels.
THEOREM NothingLost ==
    ASSUME SeekBeyond = 0
    PROVE  Spec => []NoMessageLost
<1>1. KeptInv /\ [Next]_vars => KeptInv'
  BY NextKept, CountsAreFinite, Zenon
<1>2. KeptInv => NoMessageLost
  BY Zenon DEF KeptInv
<1>3. QED BY <1>1, <1>2, InitKept, PTL DEF Spec

\* On an ordered topic no requeue, timeout, scan, skip or late push puts a message in
\* flight ahead of one that is not finished, as long as no offset reset, change of role
\* or leader's position moves the cursor and the channel stays ordered.  For any number
\* of clients and messages.
THEOREM DeliveredInOrder ==
    ASSUME Steady
    PROVE  Spec => []OrderedDelivery
<1>1. CASE OrderedTopic
  <2>1. OrderInv /\ [Next]_vars => OrderInv'
    BY <1>1, NextOrdered, CountsAreFinite, ZenonT(60)
  <2>2. OrderInv => OrderedDelivery
    BY ClientsAssumption, Zenon DEF OrderInv, InTurn, OrderedDelivery
  <2>3. QED BY <2>1, <2>2, InitOrdered, PTL DEF Spec
<1>2. CASE ~OrderedTopic
  <2>1. OrderedDelivery
    BY <1>2, Zenon DEF OrderedDelivery
  <2>2. QED BY <2>1, PTL
<1>3. QED BY <1>1, <1>2, Zenon

\* The channel implements ChannelCursor: its consume position passes a message only
\* when that message is finished, skipped or passed over on request, moves back only
\* on request, and messages are finished only after they were published.
THEOREM ChannelImplementsCursor == Spec => CursorRefinement
<1>1. Init => RefineInv /\ Cursor!CursorInit
  BY InitRefines, Zenon
<1>2. RefineInv /\ [Next]_vars => RefineInv' /\ [Cursor!CursorNext]_(Cursor!cursorVars)
  BY NextRefines, CountsAreFinite, Zenon DEF CursorStep
<1>3. QED BY <1>1, <1>2, PTL DEF Spec, CursorRefinement, Cursor!CursorSpec
=============================================================================
