---------------------------- MODULE MCDelayQueue ----------------------------
(***************************************************************************)
(* DelayQueue for TLC.                                                     *)
(***************************************************************************)
EXTENDS DelayQueue

\* Two requeues of one message, with a report that comes late and with a fault; a
\* fault and a report together; two messages requeued at once; and a reset of the
\* reader below a message that is in the delayed queue.
MCInstances ==
    {[msgs |-> 1, time |-> 2, copies |-> 2, updates |-> 1, admin |-> 0, faults |-> 0],
     [msgs |-> 1, time |-> 2, copies |-> 2, updates |-> 0, admin |-> 0, faults |-> 1],
     [msgs |-> 1, time |-> 1, copies |-> 1, updates |-> 1, admin |-> 0, faults |-> 1],
     [msgs |-> 1, time |-> 1, copies |-> 1, updates |-> 1, admin |-> 1, faults |-> 0],
     [msgs |-> 2, time |-> 2, copies |-> 2, updates |-> 0, admin |-> 0, faults |-> 0],
     [msgs |-> 2, time |-> 1, copies |-> 1, updates |-> 0, admin |-> 1, faults |-> 0]}
=============================================================================
