--------------------------- MODULE MCArtifactLease ---------------------------
(***************************************************************************)
(* Instances of ArtifactLease: two artifacts, in domains of their own, in  *)
(* domains with one gate, or in one domain.                                *)
(***************************************************************************)
EXTENDS ArtifactLease, TLC

CONSTANTS p1, p2, p3   \* processes

\* Directories of the instances, and what is above each.
MCDirectories == {"/", "/data", "/work", "/srv", "/srv/a", "/home", "/home/u"}

Above == [d \in MCDirectories |->
            CASE d = "/srv/a" -> "/srv" [] d = "/home/u" -> "/home" [] OTHER -> "/"]

OwnGates  == (1 :> "/srv/a")  @@ (2 :> "/home/u") @@ (3 :> "/srv/a")
OneGate   == (1 :> "/data")   @@ (2 :> "/work")
OneDomain == (1 :> "/home/u") @@ (2 :> "/home/u")

Read(reads)          == [write |-> None, reads |-> reads]
Publish(root, reads) == [write |-> root, reads |-> reads]

Everyone(operations) == [p \in Processes |-> operations]

\* A loader of two artifacts, a publisher that reads an artifact elsewhere and
\* one in its own domain while it publishes, and one that reads nothing.
Pipeline == Everyone({Read({1, 2}), Publish(1, {2, 3}), Publish(2, {})})
\* One process in each part, every one of them again and again.
Parts    == (p1 :> {Read({1}), Read({1, 2})}) @@ (p2 :> {Publish(1, {2, 3})}) @@ (p3 :> {Publish(2, {})})
\* A loader of two artifacts and a publisher of the second.
Pair     == Everyone({Read({1, 2}), Publish(2, {})})
\* A publisher that reads another artifact.
Nested   == Everyone({Publish(1, {2})})

Symmetry == Permutations(Processes)
=============================================================================
