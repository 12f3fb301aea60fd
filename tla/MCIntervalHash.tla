--------------------------- MODULE MCIntervalHash ---------------------------
(***************************************************************************)
(* The interval map under the calls a channel makes of it, next to the set *)
(* it stands for.  Messages have different sizes and are finished in any   *)
(* order and more than once.                                               *)
(***************************************************************************)
EXTENDS IntervalHash

CONSTANT Cuts            \* the offsets at which messages start or end

ASSUME CutsAssumption == Cuts \subseteq Nat /\ 0 \in Cuts /\ IsFiniteSet(Cuts)

VARIABLES
    ih,                  \* the interval map
    low,                 \* the confirmed position
    finished             \* reference: the messages finished since the start

hashVars == <<ih, low, finished>>

\* A message is an interval between neighbouring cuts.
Messages == {i \in Cuts \X Cuts : i[1] < i[2] /\ \A c \in Cuts : c <= i[1] \/ i[2] <= c}

HashInit == ih = NewIntervalHash /\ low = 0 /\ finished = {}

\* ConfirmBackendQueue where ConfirmRead succeeds.
Confirm(i) ==
    LET added  == AddOrMerge(ih, i[1], i[2])
        merged == MergedInterval(ih, i[1], i[2])
    IN  /\ i[1] >= low
        /\ finished' = finished \cup {i}
        /\ IF merged[1] <= low
           THEN low' = merged[2] /\ ih' = DeleteInterval(added, merged)
           ELSE low' = low /\ ih' = added

\* The scanner's cleaning, and a follower's position moving up to a cut.
Clean == ih' = DeleteLower(ih, low) /\ UNCHANGED <<low, finished>>
MoveUp(c) ==
    /\ c \in Cuts /\ c > low
    /\ low' = c /\ ih' = DeleteLower(ih, c)
    /\ finished' = finished \cup {i \in Messages : i[2] <= c}

HashNext == (\E i \in Messages : Confirm(i)) \/ Clean \/ (\E c \in Cuts : MoveUp(c))

HashSpec == HashInit /\ [][HashNext]_hashVars
-----------------------------------------------------------------------------
Points(is) == UNION {i[1] .. i[2] - 1 : i \in is}

\* The map's shape: what is stored under a key begins or ends there and is stored
\* under its other end too, so that Len, half the number of keys, counts the
\* stored intervals.
WellFormed ==
    /\ Shaped(ih.elems, Cuts) /\ BothEnds(ih.elems)
    /\ HashLen(ih) = Cardinality({ih.elems[k] : k \in DOMAIN ih.elems})

\* Above the confirmed position the map covers exactly the finished messages: no
\* merge, deletion or repeated finish adds a message or forgets one.
CoversFinished ==
    {p \in Covered(ih) : p >= low} = {p \in Points(finished) : p >= low}

\* Neighbours are always merged: no stored interval begins where another ends, so
\* that the confirmed position can pass over all of them at once.
NeverTouching ==
    \A j, k \in DOMAIN ih.elems : ih.elems[j][2] # ih.elems[k][1]

\* IsCompleteOverlap, which decides whether a message is delivered again, is
\* right about every message above the confirmed position.
OverlapExact ==
    \A i \in Messages : i[1] >= low => (IsCompleteOverlap(ih, i[1], i[2]) <=> i \in finished)
=============================================================================
