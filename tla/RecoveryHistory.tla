--------------------------- MODULE RecoveryHistory ---------------------------
(***************************************************************************)
(* What a history of recovery reports says of an incident, defined on the  *)
(* whole history and without counters: the reference that transition_state *)
(* is compared with (docs/RECOVERY_VERIFICATION.md:28-36 and 96-100).      *)
(***************************************************************************)
EXTENDS RecoveryTransition

Recovered(r) == r.decision = "recovered"
Degraded(r)  == r.decision \in {"recovering", "failed"}

\* Among the first n reports of h, one found the incident recovered.
EverRecovered(h, n) == \E i \in 1 .. n : Recovered(h[i])

\* The regressions observed since the last recovery.  A gap in the evidence
\* neither counts nor interrupts the run.
Regressions(h, n) ==
    {k \in 1 .. n : /\ Degraded(h[k])
                    /\ EverRecovered(h, k)
                    /\ \A j \in k .. n : ~Recovered(h[j])}

\* The n-th report reopens a recovered incident.
ReopensAt(h, n) ==
    /\ Degraded(h[n])
    /\ EverRecovered(h, n)
    /\ \/ h[n].severe /\ ImmediateReopen
       \/ Cardinality(Regressions(h, n)) >= ReopenAfter

Reopened(h) == \E n \in 1 .. Len(h) : ReopensAt(h, n)

\* The last report that observed anything found the incident recovered.
LastSeenRecovered(h) ==
    \E k \in 1 .. Len(h) : /\ Recovered(h[k])
                           /\ \A j \in k .. Len(h) : ~Degraded(h[j])

StatusOf(h) ==
    IF Reopened(h) THEN "reopened"
    ELSE IF LastSeenRecovered(h) THEN "recovered" ELSE "monitoring"

\* The fields transition_state carries along agree with the history of s.
Faithful(s) ==
    /\ s.ever = EverRecovered(s.applied, Len(s.applied))
    /\ s.status = StatusOf(s.applied)
    /\ s.status # "reopened" =>
         s.failures = Cardinality(Regressions(s.applied, Len(s.applied)))

\* The reports of s are about one execution and in evaluation-time order.
Ordered(s) ==
    /\ \A i \in 1 .. Len(s.applied) : s.applied[i].target = s.target
    /\ \A i, j \in 1 .. Len(s.applied) :
         i < j => s.applied[i].at < s.applied[j].at
=============================================================================
