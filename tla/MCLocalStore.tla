---------------------------- MODULE MCLocalStore ----------------------------
(***************************************************************************)
(* LocalStore for TLC.                                                     *)
(***************************************************************************)
EXTENDS LocalStore

\* A leader whose log starts at its second segment, with the message at offset 2.
MCSyncStarts == {[cnt |-> 2, idx |-> 1, off |-> 2]}

\* Retention needs a queue of several files, and is checked with one crash or
\* change of role; the others with two.
MCInstances ==
    {[preload |-> 4, ids |-> 6, turns |-> 1],
     [preload |-> 3, ids |-> 4, turns |-> 2],
     [preload |-> 1, ids |-> 3, turns |-> 2]}

MCFromEmpty == {[preload |-> 0, ids |-> 4, turns |-> 0]}
=============================================================================
