----------------------------- MODULE MCCluster -----------------------------
\* Instances of Cluster: three nodes, one topic partition, and a budget of faults.
EXTENDS Cluster, TLC

Symmetry == Permutations(Nodes)

Budget(replica, writes, epoch, crash, lose, moves, slow) ==
    [replica |-> replica, writes |-> writes, epoch |-> epoch, crash |-> crash,
     lost |-> lose, moves |-> moves, slow |-> slow]

\* A node of three replicas crashes or leaves during a write and comes back.
CrashInWrite == Budget(3, 1, 4, 1, 0, 0, 0)
\* A replica is moved to the third node during a write.
MoveInWrite == Budget(2, 1, 5, 0, 0, 1, 0)
\* A call to a node is lost, with and without writes.
LostCall == Budget(3, 0, 4, 0, 1, 0, 0)
LostInWrite == Budget(2, 2, 2, 0, 1, 0, 0)
\* A join session times out though every node is up.
SlowJoin == Budget(3, 0, 4, 0, 0, 1, 1)
\* A replica is moved away and back.
MoveTwice == Budget(2, 0, 4, 0, 0, 2, 0)

Faults == {CrashInWrite, MoveInWrite, LostCall, LostInWrite, SlowJoin, MoveTwice}
=============================================================================
