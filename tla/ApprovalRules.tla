--------------------------- MODULE ApprovalRules ---------------------------
(***************************************************************************)
(* The pure part of the human approval workflow of paic.remediation:       *)
(* decisions, the deterministic evaluation of an approval ledger, token    *)
(* issue and token verification (remediation/approval.py).                 *)
(*                                                                         *)
(* A hash is modelled by what it identifies: an approval snapshot is the   *)
(* set of decisions it digests (evaluate_approval sorts them first), a     *)
(* plan hash is the plan.  HMACs are taken to be unforgeable, so only      *)
(* issued tokens and attested decisions occur.  Instants are naturals.     *)
(***************************************************************************)
EXTENDS Integers, FiniteSets

CONSTANTS
    Plans,          \* immutable remediation plans, named by their plan_sha256
    Approvers,      \* the identities of the trusted approver registry
    Nonces,         \* token nonces
    Horizon,        \* the instants are 0..Horizon
    GroupOf,        \* [Approvers -> groups]: ApproverIdentity.approver_group
    Requester,      \* [Plans -> identities]: RemediationPlan.requested_by
    RequestedAt,    \* [Plans -> instants]
    ExpiresAt,      \* [Plans -> naturals]: the first instant after the window
    Required,       \* [Plans -> 1, 2, ...]: required_approvals
    HighRisk,       \* the plans whose risk_level is "high"
    Denied,         \* the plans whose status is "denied"
    TokenTtl,       \* approval.token_ttl_minutes
    SelfApproval,   \* approval.allow_requester_approval
    DistinctGroups  \* approval.require_distinct_groups_for_high_risk

Instants == 0 .. Horizon

ASSUME RulesAssumption ==
    /\ IsFiniteSet(Approvers)
    /\ Horizon \in Nat
    /\ RequestedAt \in [Plans -> Instants]
    /\ ExpiresAt \in [Plans -> Nat]
    /\ Required \in [Plans -> Nat \ {0}]
    /\ HighRisk \subseteq Plans
    /\ Denied \subseteq Plans
    /\ TokenTtl \in Nat \ {0}
    /\ SelfApproval \in BOOLEAN
    /\ DistinctGroups \in BOOLEAN

\* One ApprovalDecision: who decided what about which plan, and when.
Decision == [plan : Plans, approver : Approvers,
             verdict : {"approve", "reject"}, at : Instants]

\* The signed claims of one approval token.
Token == [plan : Plans, snapshot : SUBSET Decision, nonce : Nonces,
          issuedAt : Instants, expiresAt : Nat]

Approvals(ds)  == {d \in ds : d.verdict = "approve"}
Rejections(ds) == {d \in ds : d.verdict = "reject"}

Least(a, b) == IF a <= b THEN a ELSE b

-----------------------------------------------------------------------------
(* evaluate_approval: the checks that raise, then the status.               *)

\* Every decision is about this plan, inside its window, not dated after the
\* evaluation, and not the requester's own.
DecisionsAdmissible(p, ds, at) ==
    \A d \in ds :
        /\ d.plan = p
        /\ RequestedAt[p] <= d.at /\ d.at < ExpiresAt[p]
        /\ d.at <= at
        /\ SelfApproval \/ d.approver # Requester[p]

\* As below, with the group rule forgotten (mutant).
IdentitiesIndependent(p, ds) ==
    \A d, e \in Approvals(ds) : d.approver = e.approver => d = e

\* No identity approves twice, and a high-risk plan needs distinct groups.
ApproversIndependent(p, ds) ==
    LET yes == Approvals(ds) IN
    /\ \A d, e \in yes : d.approver = e.approver => d = e
    /\ p \in HighRisk /\ DistinctGroups =>
         Cardinality({GroupOf[d.approver] : d \in yes})
            >= Least(Required[p], Cardinality(yes))

\* "error" stands for the ApprovalError the evaluation raises.
EvaluateApproval(p, ds, at) ==
    IF ~(DecisionsAdmissible(p, ds, at) /\ ApproversIndependent(p, ds))
    THEN "error"
    ELSE IF p \in Denied \/ Rejections(ds) # {} THEN "rejected"
    ELSE IF at >= ExpiresAt[p] THEN "expired"
    ELSE IF Cardinality(Approvals(ds)) >= Required[p] THEN "approved"
    ELSE "pending"

-----------------------------------------------------------------------------
(* Tokens.                                                                  *)

IssueToken(p, ds, nonce, at) ==
    [plan |-> p, snapshot |-> ds, nonce |-> nonce, issuedAt |-> at,
     expiresAt |-> Least(ExpiresAt[p], at + TokenTtl)]

\* verify_token accepts: the status is recomputed by the caller from ds.
TokenAccepted(token, p, ds, at) ==
    /\ EvaluateApproval(p, ds, at) = "approved"
    /\ token.plan = p
    /\ token.snapshot = ds
    /\ token.issuedAt <= at /\ at < token.expiresAt /\ at < ExpiresAt[p]

-----------------------------------------------------------------------------
\* What an execution of p at an instant needs, said without reference to how
\* the ledger is evaluated: the quorum of distinct approvers, from as many
\* groups for a high-risk plan, no rejection, nobody deciding their own request,
\* and every decision and the execution inside the plan's window.
Authorised(p, ds, at) ==
    /\ Cardinality({d.approver : d \in Approvals(ds)}) >= Required[p]
    /\ p \in HighRisk /\ DistinctGroups =>
         Cardinality({GroupOf[d.approver] : d \in Approvals(ds)}) >= Required[p]
    /\ \A d \in ds :
         /\ d.plan = p /\ d.verdict = "approve"
         /\ SelfApproval \/ d.approver # Requester[p]
         /\ RequestedAt[p] <= d.at /\ d.at <= at
    /\ at < ExpiresAt[p]
    /\ p \notin Denied

=============================================================================
