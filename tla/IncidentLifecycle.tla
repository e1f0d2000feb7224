-------------------------- MODULE IncidentLifecycle --------------------------
(***************************************************************************)
(* What the recovery lifecycle promises, with no counters, files or        *)
(* processes: a growing history of reports about one execution, and a      *)
(* status that is a function of that history alone.                        *)
(***************************************************************************)
EXTENDS RecoveryHistory

VARIABLES history,   \* the reports applied, in order
          status     \* what the lifecycle says of the incident

Init == history = <<>> /\ status = "monitoring"

\* An incident that has not recovered cannot reopen, so a severe breach that
\* would reopen it is not accepted before the first recovery.
Apply(r) ==
    /\ Len(history) < Capacity
    /\ \A i \in 1 .. Len(history) :
           history[i].target = r.target /\ history[i].at < r.at
    /\ r.severe /\ ImmediateReopen => EverRecovered(history, Len(history))
    /\ history' = Append(history, r)
    /\ status' = StatusOf(history')

Next == \E r \in Report : Apply(r)

Spec == Init /\ [][Next]_<<history, status>>
=============================================================================
