------------------------- MODULE RecoveryTransition -------------------------
(***************************************************************************)
(* The pure step of the incident lifecycle: transition_state of            *)
(* recovery/lifecycle.py and the state validator of recovery/models.py.    *)
(*                                                                         *)
(* A report is what the transition reads of a RecoveryReport: the          *)
(* execution it evaluates, its evaluation time, its decision and whether a *)
(* guardrail was severely breached.  The statistics behind a decision are  *)
(* left out; evaluate_recovery never reports a severe breach without the   *)
(* decision "failed" (recovery/engine.py:236-241).                         *)
(***************************************************************************)
EXTENDS Integers, Sequences, FiniteSets

CONSTANTS
    Executions,       \* remediation executions, with their recovery policies
    Horizon,          \* bound: evaluation times are 1 .. Horizon
    ReopenAfter,      \* reopen_after_consecutive_failures
    ImmediateReopen,  \* immediate_reopen_on_severe_guardrail
    Capacity          \* RecoveryLifecycleState's max_length of applied reports

ASSUME TransitionAssumption ==
    /\ Horizon \in Nat
    /\ ReopenAfter \in Nat \ {0}
    /\ ImmediateReopen \in BOOLEAN
    /\ Capacity \in Nat

Decisions == {"recovered", "recovering", "failed", "insufficient_data"}
Statuses  == {"monitoring", "recovered", "reopened"}

Report == {r \in [target : Executions, at : 1 .. Horizon,
                  decision : Decisions, severe : BOOLEAN] :
             r.severe => r.decision = "failed"}

\* A lifecycle state.  Its generation is the number of reports applied.
State == [target : Executions, applied : Seq(Report), status : Statuses,
          ever : BOOLEAN, failures : Nat]

InitialState(target) ==
    [target |-> target, applied |-> <<>>, status |-> "monitoring",
     ever |-> FALSE, failures |-> 0]

-----------------------------------------------------------------------------
\* A gap in the evidence starts the count again (mutant).
FailuresResetByGaps(s, r) ==
    IF s.status = "reopened" THEN s.failures
    ELSE CASE r.decision \in {"recovered", "insufficient_data"} -> 0
           [] OTHER -> IF s.ever THEN s.failures + 1 ELSE 0

\* consecutive_failed_evaluations after r.
Failures(s, r) ==
    IF s.status = "reopened" THEN s.failures
    ELSE CASE r.decision = "recovered" -> 0
           [] r.decision = "insufficient_data" -> s.failures
           [] OTHER -> IF s.ever THEN s.failures + 1 ELSE 0

NextStatus(s, r) ==
    IF s.status = "reopened" THEN "reopened"
    ELSE CASE r.decision = "recovered" -> "recovered"
           [] r.decision = "insufficient_data" ->
                IF s.status = "recovered" THEN "recovered" ELSE "monitoring"
           [] OTHER ->
                IF \/ r.severe /\ ImmediateReopen
                   \/ s.ever /\ Failures(s, r) >= ReopenAfter
                THEN "reopened" ELSE "monitoring"

Transition(s, r) ==
    [target   |-> s.target,
     applied  |-> Append(s.applied, r),
     status   |-> NextStatus(s, r),
     ever     |-> s.ever \/ r.decision = "recovered",
     failures |-> Failures(s, r)]

\* A report of the same execution, evaluated after every report applied so far.
Fits(s, r) ==
    /\ r.target = s.target
    /\ s.applied # <<>> => r.at > s.applied[Len(s.applied)].at

\* RecoveryLifecycleState refuses a state that reopened before it recovered or
\* has too many reports: transition_state raises instead of returning it.
Valid(s) ==
    /\ s.status = "reopened" => s.ever
    /\ Len(s.applied) <= Capacity

Admissible(s, r) == Fits(s, r) /\ Valid(Transition(s, r))
=============================================================================
