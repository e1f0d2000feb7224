--------------------------- MODULE MCControlStore ---------------------------
(* Small instances of ControlStore for TLC. *)
EXTENDS ControlStore, TLC

CONSTANTS x1, x2, p1, p2, alice, bob, carol, dave, r1, r2, r3

\* One approval is enough, and every instant lies in every plan's window.
OneApproval  == [p \in Plans |-> 1]
FromStart    == [p \in Plans |-> 0]
NeverExpires == [p \in Plans |-> Horizon + 1]
ByNobody     == [p \in Plans |-> None]
Alone        == [a \in Approvers |-> a]
AtStart      == [r \in Requests |-> 0]

\* A high-risk plan: two approvals from two groups, the requester is one of the
\* registered approvers, and the window [1, 3) is wider than a token's life.
TwoApprovals == [p \in Plans |-> 2]
FromOne      == [p \in Plans |-> 1]
UntilThree   == [p \in Plans |-> 3]
ByAlice      == [p \in Plans |-> alice]
Teams        == [a \in Approvers |-> IF a \in {alice, bob} THEN "ops" ELSE "risk"]
Spread       == [r \in Requests |-> IF r = r1 THEN 1 ELSE IF r = r2 THEN 2 ELSE 3]

Symmetry == Permutations(Executors)

\* Where one approval is enough, every plan, nonce and ledger is like any other.
FullSymmetry == Symmetry \cup Permutations(Plans) \cup Permutations(Nonces)
                         \cup Permutations(Ledgers)
=============================================================================
