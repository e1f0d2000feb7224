-------------------------- MODULE ArtifactSnapshots --------------------------
(***************************************************************************)
(* What the leases of artifacts/lease.py promise, without any lock: a read *)
(* of several artifacts sees, from its first byte to its last, the trees   *)
(* that were published at one instant, and nothing it reads is replaced    *)
(* before it is done.                                                      *)
(***************************************************************************)
CONSTANTS
    Processes,   \* readers and publishers
    Roots,       \* artifact directories
    Trees,       \* published directory trees
    NoTree       \* the process is not reading the artifact

VARIABLES
    tree,   \* [Roots -> the tree published under that name]
    view    \* [Processes -> [Roots -> the tree it reads, or NoTree]]

vars == <<tree, view>>

Nothing == [r \in Roots |-> NoTree]

Init ==
    /\ tree \in [Roots -> Trees]
    /\ view = [p \in Processes |-> Nothing]

\* One cut through the published trees.
Read(p, reads) ==
    /\ view[p] = Nothing
    /\ view' = [view EXCEPT ![p] = [r \in Roots |-> IF r \in reads THEN tree[r] ELSE NoTree]]
    /\ UNCHANGED tree

Leave(p) ==
    /\ view' = [view EXCEPT ![p] = Nothing]
    /\ UNCHANGED tree

Publish(r) ==
    /\ \A p \in Processes : view[p][r] = NoTree
    /\ \E t \in Trees \ {tree[r]} : tree' = [tree EXCEPT ![r] = t]
    /\ UNCHANGED view

Next ==
    \/ \E p \in Processes : Leave(p) \/ \E reads \in SUBSET Roots : Read(p, reads)
    \/ \E r \in Roots : Publish(r)

Spec == Init /\ [][Next]_vars
=============================================================================
