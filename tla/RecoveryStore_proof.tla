------------------------- MODULE RecoveryStore_proof -------------------------
(***************************************************************************)
(* Proofs about the recovery lifecycle store: the state transition_state   *)
(* computes with a counter is the one the whole history calls for, and the *)
(* store implements IncidentLifecycle through crashes and retries.         *)
(***************************************************************************)
EXTENDS RecoveryStore, FiniteSetTheorems, TLAPS

-----------------------------------------------------------------------------
(* The history after one more report.                                       *)

\* Appending a report changes nothing about the reports before it.
LEMMA AppendKeeps ==
    ASSUME NEW h \in Seq(Report), NEW r \in Report
    PROVE  /\ Append(h, r) \in Seq(Report)
           /\ Len(Append(h, r)) = Len(h) + 1
           /\ Append(h, r)[Len(h) + 1] = r
           /\ \A i \in 1 .. Len(h) : Append(h, r)[i] = h[i]
           /\ Len(h) \in Nat
  OBVIOUS

\* The regressions among n reports are finitely many.
LEMMA RegressionsFinite ==
    ASSUME NEW h \in Seq(Report), NEW n \in Nat
    PROVE  /\ IsFiniteSet(Regressions(h, n))
           /\ Cardinality(Regressions(h, n)) \in Nat
  <1>1. IsFiniteSet(1 .. n)
    BY FS_Interval
  <1>2. Regressions(h, n) \subseteq 1 .. n
    BY DEF Regressions
  <1>. QED
    BY <1>1, <1>2, FS_Subset, FS_CardinalityType

\* What the first n reports say does not depend on the report after them.
LEMMA PrefixUnchanged ==
    ASSUME NEW h \in Seq(Report), NEW r \in Report, NEW n \in 0 .. Len(h)
    PROVE  /\ EverRecovered(Append(h, r), n) = EverRecovered(h, n)
           /\ Regressions(Append(h, r), n) = Regressions(h, n)
  <1>. DEFINE g == Append(h, r)
  <1>1. \A i \in 1 .. n : g[i] = h[i]
    BY AppendKeeps
  <1>2. \A k \in 0 .. n : EverRecovered(g, k) = EverRecovered(h, k)
    BY <1>1 DEF EverRecovered
  <1>3. Regressions(g, n) = Regressions(h, n)
    BY <1>1, <1>2 DEF Regressions
  <1>. QED
    BY <1>2, <1>3

\* The regressions after one more report, by what the report observed.
LEMMA RegressionsStep ==
    ASSUME NEW h \in Seq(Report), NEW r \in Report
    PROVE  LET g == Append(h, r)
               m == Len(h) + 1
           IN  /\ EverRecovered(g, m) <=> EverRecovered(h, Len(h)) \/ Recovered(r)
               /\ Recovered(r) => Regressions(g, m) = {}
               /\ ~Recovered(r) /\ ~Degraded(r)
                    => Regressions(g, m) = Regressions(h, Len(h))
               /\ ~EverRecovered(g, m) => Regressions(g, m) = {}
               /\ Degraded(r) /\ EverRecovered(h, Len(h))
                    => Regressions(g, m) = Regressions(h, Len(h)) \cup {m}
  <1>. DEFINE g == Append(h, r)
              m == Len(h) + 1
  <1>1. /\ Len(h) \in Nat /\ g[m] = r
        /\ \A i \in 1 .. Len(h) : g[i] = h[i]
    BY AppendKeeps
  <1>2. EverRecovered(g, m) <=> EverRecovered(h, Len(h)) \/ Recovered(r)
    BY <1>1 DEF EverRecovered
  <1>3. Recovered(r) => Regressions(g, m) = {}
    BY <1>1 DEF Regressions
  <1>4. \A k \in 1 .. Len(h) : EverRecovered(g, k) = EverRecovered(h, k)
    BY <1>1 DEF EverRecovered
  <1>5. ~EverRecovered(g, m) => Regressions(g, m) = {}
    BY <1>1 DEF Regressions, EverRecovered
  <1>6. ASSUME ~Recovered(r)
        PROVE  \A k \in 1 .. Len(h) :
                 k \in Regressions(g, m) <=> k \in Regressions(h, Len(h))
    BY <1>1, <1>4, <1>6 DEF Regressions
  <1>7. ASSUME ~Recovered(r), ~Degraded(r)
        PROVE  Regressions(g, m) = Regressions(h, Len(h))
    <2>1. m \notin Regressions(g, m)
      BY <1>1, <1>7 DEF Regressions
    <2>. QED
      BY <1>1, <1>6, <1>7, <2>1 DEF Regressions
  <1>8. ASSUME Degraded(r), EverRecovered(h, Len(h))
        PROVE  Regressions(g, m) = Regressions(h, Len(h)) \cup {m}
    <2>1. ~Recovered(r)
      BY <1>8 DEF Degraded, Recovered
    <2>2. m \in Regressions(g, m)
      BY <1>1, <1>2, <1>8, <2>1 DEF Regressions
    <2>. QED
      BY <1>1, <1>6, <2>1, <2>2 DEF Regressions
  <1>. QED
    BY <1>2, <1>3, <1>5, <1>7, <1>8

\* The verdict after one more report.
LEMMA StatusStep ==
    ASSUME NEW h \in Seq(Report), NEW r \in Report
    PROVE  LET g == Append(h, r)
           IN  /\ Reopened(g) <=> Reopened(h) \/ ReopensAt(g, Len(h) + 1)
               /\ LastSeenRecovered(g)
                    <=> Recovered(r) \/ (~Degraded(r) /\ LastSeenRecovered(h))
  <1>. DEFINE g == Append(h, r)
              m == Len(h) + 1
  <1>1. /\ Len(h) \in Nat /\ g[m] = r /\ Len(g) = m
        /\ \A i \in 1 .. Len(h) : g[i] = h[i]
    BY AppendKeeps
  <1>2. \A n \in 1 .. Len(h) : ReopensAt(g, n) = ReopensAt(h, n)
    BY <1>1, PrefixUnchanged DEF ReopensAt
  <1>3. Reopened(g) <=> Reopened(h) \/ ReopensAt(g, m)
    BY <1>1, <1>2 DEF Reopened
  <1>4. Recovered(r) => ~Degraded(r)
    BY DEF Recovered, Degraded
  <1>5. LastSeenRecovered(g)
          <=> Recovered(r) \/ (~Degraded(r) /\ LastSeenRecovered(h))
    BY <1>1, <1>4 DEF LastSeenRecovered
  <1>. QED
    BY <1>3, <1>5

-----------------------------------------------------------------------------
(* transition_state.                                                        *)

\* A state is followed by a state.
LEMMA TransitionType ==
    ASSUME NEW s \in State, NEW r \in Report
    PROVE  /\ Transition(s, r) \in State
           /\ Len(Transition(s, r).applied) = Len(s.applied) + 1
           /\ Transition(s, r).applied = Append(s.applied, r)
           /\ Transition(s, r).target = s.target
           /\ Len(s.applied) \in Nat
  <1>1. r.decision \in Decisions
    BY DEF Report
  <1>2. Failures(s, r) \in Nat
    BY DEF State, Failures
  <1>3. NextStatus(s, r) \in Statuses
    BY <1>1 DEF State, NextStatus, Statuses, Decisions
  <1>. QED
    BY <1>2, <1>3, AppendKeeps DEF State, Transition

\* A reopened incident stays reopened whatever is reported.
LEMMA ReopenedStays ==
    ASSUME NEW s, s.status = "reopened", NEW r
    PROVE  NextStatus(s, r) = "reopened"
  BY Zenon DEF NextStatus

\* A lifecycle starts faithful to its empty history.
LEMMA InitialFaithful ==
    ASSUME NEW t \in Executions
    PROVE  InitialState(t) \in State /\ Faithful(InitialState(t))
  <1>. DEFINE s == InitialState(t)
  <1>1. s \in State /\ s.applied = <<>> /\ Len(s.applied) = 0
    BY DEF InitialState, State, Statuses
  <1>2. Regressions(s.applied, 0) = {} /\ ~EverRecovered(s.applied, 0)
    BY DEF Regressions, EverRecovered
  <1>3. StatusOf(s.applied) = "monitoring"
    BY <1>1 DEF StatusOf, Reopened, LastSeenRecovered
  <1>4. s.ever = FALSE /\ s.status = "monitoring" /\ s.failures = 0
    BY DEF InitialState
  <1>5. s.ever = EverRecovered(s.applied, 0)
    <2>1. EverRecovered(s.applied, 0) \in BOOLEAN
      BY DEF EverRecovered
    <2>. QED
      BY <1>2, <1>4, <2>1
  <1>6. s.failures = Cardinality(Regressions(s.applied, 0))
    BY <1>2, <1>4, FS_EmptySet
  <1>7. Faithful(s)
    BY <1>1, <1>3, <1>4, <1>5, <1>6 DEF Faithful
  <1>. QED
    BY <1>1, <1>7

\* transition_state with its counter computes the status the whole history
\* calls for, whatever the policy and the order of the decisions.
THEOREM TransitionFollowsHistory ==
    ASSUME NEW s \in State, Faithful(s), NEW r \in Report,
           Valid(Transition(s, r))
    PROVE  Faithful(Transition(s, r))
  <1>. DEFINE h == s.applied
              g == Append(h, r)
              m == Len(h) + 1
              t == Transition(s, r)
  <1>1. h \in Seq(Report) /\ g \in Seq(Report) /\ Len(h) \in Nat /\ Len(g) = m
        /\ g[m] = r
    BY AppendKeeps DEF State
  <1>2. r.decision \in Decisions /\ r.severe \in BOOLEAN /\ s.ever \in BOOLEAN
        /\ s.status \in Statuses /\ s.failures \in Nat
    BY DEF Report, State
  <1>3. /\ t.applied = g /\ t.ever = (s.ever \/ r.decision = "recovered")
        /\ t.status = NextStatus(s, r) /\ t.failures = Failures(s, r)
    BY DEF Transition
  <1>4. t.ever = EverRecovered(g, m)
    <2>1. t.ever \in BOOLEAN /\ EverRecovered(g, m) \in BOOLEAN
      BY <1>2, <1>3 DEF EverRecovered
    <2>. QED
      BY <1>1, <1>2, <1>3, <2>1, RegressionsStep DEF Faithful, Recovered
  <1>5. ASSUME s.status # "reopened"
        PROVE  Failures(s, r) = Cardinality(Regressions(g, m))
    <2>1. s.failures = Cardinality(Regressions(h, Len(h)))
      BY <1>5 DEF Faithful
    <2>2. CASE r.decision = "recovered"
      BY <1>1, <1>5, <2>2, RegressionsStep, FS_EmptySet DEF Failures, Recovered
    <2>3. CASE r.decision = "insufficient_data"
      BY <1>1, <1>5, <2>1, <2>3, RegressionsStep
         DEF Failures, Recovered, Degraded
    <2>4. CASE r.decision \in {"recovering", "failed"} /\ s.ever
      <3>1. Regressions(g, m) = Regressions(h, Len(h)) \cup {m}
        BY <1>1, <2>4, RegressionsStep DEF Faithful, Degraded
      <3>2. m \notin Regressions(h, Len(h))
        BY <1>1 DEF Regressions
      <3>3. Cardinality(Regressions(g, m)) = s.failures + 1
        BY <1>1, <2>1, <3>1, <3>2, RegressionsFinite, FS_AddElement
      <3>. QED
        BY <1>5, <2>4, <3>3 DEF Failures
    <2>5. CASE r.decision \in {"recovering", "failed"} /\ ~s.ever
      <3>1. ~EverRecovered(g, m)
        BY <1>1, <2>5, RegressionsStep DEF Faithful, Recovered
      <3>2. Regressions(g, m) = {}
        BY <1>1, <3>1, RegressionsStep
      <3>. QED
        BY <1>5, <2>5, <3>2, FS_EmptySet DEF Failures
    <2>. QED
      BY <1>2, <2>2, <2>3, <2>4, <2>5 DEF Decisions
  <1>6. t.status = StatusOf(g)
    <2>1. CASE s.status = "reopened"
      <3>1. Reopened(h)
        BY <2>1 DEF Faithful, StatusOf
      <3>2. Reopened(g)
        BY <1>1, <3>1, StatusStep
      <3>. QED
        BY <1>3, <2>1, <3>2, ReopenedStays DEF StatusOf
    <2>2. CASE s.status # "reopened"
      <3>1. ~Reopened(h) /\ (LastSeenRecovered(h) <=> s.status = "recovered")
        BY <2>2 DEF Faithful, StatusOf
      <3>2. CASE r.decision = "recovered"
        <4>1. ~ReopensAt(g, m)
          BY <1>1, <3>2 DEF ReopensAt, Degraded
        <4>. QED
          BY <1>1, <1>3, <2>2, <3>1, <3>2, <4>1, StatusStep
             DEF StatusOf, NextStatus, Recovered
      <3>3. CASE r.decision = "insufficient_data"
        <4>1. ~ReopensAt(g, m)
          BY <1>1, <3>3 DEF ReopensAt, Degraded
        <4>. QED
          BY <1>1, <1>3, <2>2, <3>1, <3>3, <4>1, StatusStep
             DEF StatusOf, NextStatus, Recovered, Degraded
      <3>4. CASE r.decision \in {"recovering", "failed"}
        <4>1. ReopensAt(g, m)
                <=> /\ s.ever
                    /\ \/ r.severe /\ ImmediateReopen
                       \/ Failures(s, r) >= ReopenAfter
          BY <1>1, <1>2, <1>3, <1>4, <1>5, <2>2, <3>4 DEF ReopensAt, Degraded
        <4>2. NextStatus(s, r) =
                IF (r.severe /\ ImmediateReopen)
                   \/ (s.ever /\ Failures(s, r) >= ReopenAfter)
                THEN "reopened" ELSE "monitoring"
          BY <2>2, <3>4 DEF NextStatus
        <4>3. t.status = "reopened" => s.ever
          BY <1>2, <1>3, <3>4 DEF Valid
        <4>4. ~LastSeenRecovered(g)
          BY <1>1, <3>4, StatusStep DEF Recovered, Degraded
        <4>5. Reopened(g) <=> ReopensAt(g, m)
          BY <1>1, <3>1, StatusStep
        <4>. QED
          BY <1>3, <4>1, <4>2, <4>3, <4>4, <4>5 DEF StatusOf
      <3>. QED
        BY <1>2, <3>2, <3>3, <3>4 DEF Decisions
    <2>. QED
      BY <2>1, <2>2
  <1>7. t.status # "reopened" =>
          t.failures = Cardinality(Regressions(g, m))
    BY <1>3, <1>5, ReopenedStays
  <1>. QED
    BY <1>1, <1>3, <1>4, <1>6, <1>7 DEF Faithful
-----------------------------------------------------------------------------
(* The lineage on disk.                                                     *)

\* Reports stay in order: a report that fits is later than all before it.
LEMMA TransitionOrdered ==
    ASSUME NEW s \in State, Ordered(s), NEW r \in Report, Fits(s, r)
    PROVE  /\ Ordered(Transition(s, r))
           /\ \A i \in 1 .. Len(s.applied) :
                  s.applied[i].target = r.target /\ s.applied[i].at < r.at
  <1>. DEFINE h == s.applied
              g == Append(h, r)
  <1>1. /\ h \in Seq(Report) /\ Len(h) \in Nat /\ Len(g) = Len(h) + 1
        /\ g[Len(h) + 1] = r /\ \A i \in 1 .. Len(h) : g[i] = h[i]
    BY AppendKeeps DEF State
  <1>2. r.at \in Int /\ \A i \in 1 .. Len(h) : h[i].at \in Int
    <2>1. \A i \in 1 .. Len(h) : h[i] \in Report
      BY <1>1
    <2>. QED
      BY <2>1, TransitionAssumption DEF Report, TransitionAssumption
  <1>3. \A i \in 1 .. Len(h) : h[i].target = r.target /\ h[i].at < r.at
    <2>. SUFFICES ASSUME NEW i \in 1 .. Len(h)
                  PROVE  h[i].target = r.target /\ h[i].at < r.at
      OBVIOUS
    <2>1. h # <<>>
      BY <1>1
    <2>2. h[Len(h)].at < r.at /\ r.target = s.target
      BY <1>2, <2>1 DEF Fits
    <2>3. i < Len(h) => h[i].at < h[Len(h)].at
      BY <1>1 DEF Ordered
    <2>. QED
      BY <1>1, <1>2, <2>2, <2>3 DEF Ordered
  <1>4. Transition(s, r).applied = g /\ Transition(s, r).target = s.target
    BY DEF Transition
  <1>5. r.target = s.target
    BY DEF Fits
  <1>6. Ordered(Transition(s, r))
    BY <1>1, <1>3, <1>4, <1>5 DEF Ordered
  <1>. QED
    BY <1>3, <1>6

\* LineageOnDisk of a pointer p and the entries G.
Lineage(G, p) ==
    /\ p \in G
    /\ InitialState(p.target) \in G
    /\ \A n \in 1 .. Number(p) :
         \E f, e \in G : /\ e.applied = SubSeq(p.applied, 1, n)
                         /\ e = Transition(f, p.applied[n])

\* Publishing an entry keeps a lineage.
LEMMA LineageGrows ==
    ASSUME NEW G, NEW H, G \subseteq H, NEW p, Lineage(G, p)
    PROVE  Lineage(H, p)
  BY DEF Lineage

\* Removing an entry numbered after the pointer keeps a lineage.
LEMMA LineageKept ==
    ASSUME NEW G, G \subseteq State, NEW p \in State, Lineage(G, p),
           NEW d \in State, Number(d) > Number(p)
    PROVE  Lineage(G \ {d}, p)
  <1>1. Number(p) \in Nat /\ Number(d) \in Nat
    BY DEF State, Number
  <1>2. p # d /\ InitialState(p.target) # d
    BY <1>1 DEF InitialState, Number
  <1>3. ASSUME NEW n \in 1 .. Number(p)
        PROVE  \E f, e \in G \ {d} : /\ e.applied = SubSeq(p.applied, 1, n)
                                     /\ e = Transition(f, p.applied[n])
    <2>1. PICK f \in G, e \in G : /\ e.applied = SubSeq(p.applied, 1, n)
                                 /\ e = Transition(f, p.applied[n])
      BY DEF Lineage
    <2>2. p.applied \in Seq(Report) /\ p.applied[n] \in Report
      BY DEF State, Number
    <2>3. Len(e.applied) = Len(f.applied) + 1 /\ Len(f.applied) \in Nat
      BY <2>1, <2>2, TransitionType
    <2>4. Len(e.applied) = n
      BY <1>1, <2>1, <2>2 DEF Number
    <2>5. e # d /\ f # d
      BY <1>1, <2>3, <2>4 DEF Number
    <2>. QED
      BY <2>1, <2>5
  <1>. QED
    BY <1>2, <1>3 DEF Lineage

\* Moving the pointer to a published successor keeps a lineage.
LEMMA LineageAdvances ==
    ASSUME NEW G, G \subseteq State, NEW p \in State, Lineage(G, p),
           NEW r \in Report, Transition(p, r) \in G
    PROVE  Lineage(G, Transition(p, r))
  <1>. DEFINE h == p.applied
              t == Transition(p, r)
  <1>1. /\ h \in Seq(Report) /\ Len(h) \in Nat
        /\ t.applied = Append(h, r) /\ t.target = p.target
        /\ Len(t.applied) = Len(h) + 1
    BY TransitionType DEF State
  <1>2. ASSUME NEW n \in 1 .. Len(h)
        PROVE  \E f, e \in G : /\ e.applied = SubSeq(t.applied, 1, n)
                               /\ e = Transition(f, t.applied[n])
    <2>1. SubSeq(t.applied, 1, n) = SubSeq(h, 1, n) /\ t.applied[n] = h[n]
      BY <1>1
    <2>. QED
      BY <2>1 DEF Lineage, Number
  <1>3. t.applied = SubSeq(t.applied, 1, Len(h) + 1)
        /\ t.applied[Len(h) + 1] = r
    BY <1>1
  <1>4. \A n \in 1 .. Len(h) + 1 :
          \E f, e \in G : /\ e.applied = SubSeq(t.applied, 1, n)
                          /\ e = Transition(f, t.applied[n])
    <2>. SUFFICES ASSUME NEW n \in 1 .. Len(h) + 1
                  PROVE  \E f, e \in G : /\ e.applied = SubSeq(t.applied, 1, n)
                                         /\ e = Transition(f, t.applied[n])
      OBVIOUS
    <2>1. CASE n \in 1 .. Len(h)
      BY <1>2, <2>1, Zenon
    <2>2. CASE n = Len(h) + 1
      <3>1. p \in G /\ t \in G
        BY DEF Lineage
      <3>2. t.applied = SubSeq(t.applied, 1, n) /\ t = Transition(p, t.applied[n])
        BY <1>3, <2>2
      <3>. QED
        BY <3>1, <3>2
    <2>3. n \in 1 .. Len(h) \/ n = Len(h) + 1
      BY <1>1
    <2>. QED
      BY <2>1, <2>2, <2>3, Zenon
  <1>. QED
    BY <1>1, <1>4 DEF Lineage, Number

-----------------------------------------------------------------------------
(* The inductive invariant.                                                 *)

Inv == TypeOK /\ StoreInvariant

\* LineageOnDisk in terms of Lineage.
LEMMA LineageOnDiskIs ==
    LineageOnDisk <=> (pointer # None => Lineage(generations, pointer))
  BY DEF LineageOnDisk, Lineage

\* An empty store satisfies the invariant.
LEMMA InitInv == Init => Inv
  BY RecoveryAssumption
     DEF Init, Inv, TypeOK, StoreInvariant, Exclusive, Bound, Drafted, Sound,
         LineageOnDisk, RecoveryAssumption, PCs, InitializePCs, ApplyPCs

\* The end of an invocation disturbs neither the disk nor the other processes.
LEMMA FinishInv ==
    ASSUME Inv, NEW x \in Appliers, NEW result \in {"none", "ok", "error"},
           Finish(x, result), UNCHANGED disk, faults' \in 0 .. MaxFaults
    PROVE  Inv'
  <1>. USE DEF Inv, Finish, Goto, Unlocked, disk
  <1>1. TypeOK'
    BY DEF TypeOK, PCs, InitializePCs, ApplyPCs
  <1>2. \A y \in Appliers : y # x => /\ pc'[y] = pc[y] /\ args'[y] = args[y]
                                    /\ draft'[y] = draft[y]
    BY DEF TypeOK
  <1>3. pc'[x] = "idle"
    BY DEF TypeOK
  <1>4. Exclusive'
    BY <1>2, <1>3 DEF StoreInvariant, Exclusive, InitializePCs, ApplyPCs
  <1>5. Bound'
    BY <1>2, <1>3 DEF StoreInvariant, Bound, InitializePCs
  <1>6. Drafted'
    BY <1>2, <1>3 DEF StoreInvariant, Drafted
  <1>7. Sound' /\ LineageOnDisk'
    BY DEF StoreInvariant, Sound, LineageOnDisk
  <1>. QED
    BY <1>1, <1>4, <1>5, <1>6, <1>7 DEF StoreInvariant

\* A process that takes no lock and leaves the disk alone.
LEMMA OutsideInv ==
    ASSUME Inv, NEW x \in Appliers,
           \/ \E r \in Report : Begin(x, r)
           \/ InitializeBound(x)
    PROVE  Inv'
  <1>. USE DEF Inv, Begin, InitializeBound, Goto, disk
  <1>1. TypeOK'
    BY DEF TypeOK, PCs, InitializePCs, ApplyPCs
  <1>2. /\ \A y \in Appliers : y # x => /\ pc'[y] = pc[y] /\ args'[y] = args[y]
                                       /\ draft'[y] = draft[y]
        /\ pc'[x] \in {"initialize", "apply"}
    BY DEF TypeOK
  <1>3. Exclusive'
    BY <1>2 DEF StoreInvariant, Exclusive, InitializePCs, ApplyPCs
  <1>4. Bound'
    BY <1>2 DEF StoreInvariant, Bound, InitializePCs
  <1>5. Drafted'
    BY <1>2 DEF StoreInvariant, Drafted
  <1>6. Sound' /\ LineageOnDisk'
    BY DEF StoreInvariant, Sound, LineageOnDisk
  <1>. QED
    BY <1>1, <1>3, <1>4, <1>5, <1>6 DEF StoreInvariant

\* The two steps that take the lock find no other process inside the store.
LEMMA NobodyInside ==
    ASSUME Inv, lock = None
    PROVE  \A y \in Appliers : pc[y] \notin InitializePCs \cup ApplyPCs
  BY RecoveryAssumption DEF Inv, StoreInvariant, Exclusive, RecoveryAssumption

\* The holder of the lock is the only process inside the store.
LEMMA AloneInside ==
    ASSUME Inv, NEW x \in Appliers, pc[x] \in InitializePCs \cup ApplyPCs
    PROVE  \A y \in Appliers : y # x => pc[y] \notin InitializePCs \cup ApplyPCs
  BY DEF Inv, StoreInvariant, Exclusive

\* initialize() on a store without a pointer.
LEMMA InitializeInv ==
    ASSUME Inv, NEW x \in Appliers,
           InitializeFresh(x) \/ PublishOrigin(x) \/ PointToOrigin(x)
    PROVE  Inv'
  <1>. DEFINE origin == InitialState(args[x].target)
  <1>1. CASE InitializeFresh(x)
    <2>. USE <1>1 DEF InitializeFresh, Goto, disk
    <2>1. TypeOK'
      BY DEF Inv, TypeOK, PCs, InitializePCs, ApplyPCs
    <2>2. /\ \A y \in Appliers : y # x => pc'[y] = pc[y] /\ pc[y] \notin InitializePCs \cup ApplyPCs
          /\ pc'[x] = "copying"
      BY NobodyInside DEF Inv, TypeOK
    <2>3. Exclusive' /\ Bound' /\ Drafted'
      BY <2>2 DEF Exclusive, Bound, Drafted, InitializePCs, ApplyPCs
    <2>4. Sound' /\ LineageOnDisk'
      BY DEF Inv, StoreInvariant, Sound, LineageOnDisk
    <2>. QED
      BY <2>1, <2>3, <2>4 DEF Inv, StoreInvariant
  <1>2. CASE PublishOrigin(x)
    <2>. USE <1>2 DEF PublishOrigin, Goto
    <2>1. pc[x] = "copying" /\ args[x] \in Report /\ origin \in State
      BY InitialFaithful DEF Inv, TypeOK, Report
    <2>2. TypeOK'
      BY <2>1 DEF Inv, TypeOK, PCs, InitializePCs, ApplyPCs
    <2>3. /\ \A y \in Appliers : y # x => pc'[y] = pc[y] /\ pc[y] \notin InitializePCs \cup ApplyPCs
          /\ pc'[x] = "published" /\ pointer = None /\ lock = x
      BY <2>1, AloneInside DEF Inv, TypeOK, StoreInvariant, Bound, Exclusive, InitializePCs
    <2>4. Exclusive' /\ Bound' /\ Drafted' /\ Sound' /\ LineageOnDisk'
      BY <2>3 DEF Exclusive, Bound, Drafted, Sound, LineageOnDisk, InitializePCs, ApplyPCs
    <2>. QED
      BY <2>2, <2>4 DEF Inv, StoreInvariant
  <1>3. CASE PointToOrigin(x)
    <2>. USE <1>3 DEF PointToOrigin, Goto
    <2>1. /\ pc[x] = "published" /\ args[x] \in Report /\ origin \in generations
          /\ origin \in State /\ Faithful(origin)
      BY InitialFaithful DEF Inv, TypeOK, StoreInvariant, Bound, Report
    <2>2. TypeOK'
      BY <2>1 DEF Inv, TypeOK, PCs, InitializePCs, ApplyPCs
    <2>3. /\ \A y \in Appliers : y # x => pc'[y] = pc[y] /\ pc[y] \notin InitializePCs \cup ApplyPCs
          /\ pc'[x] = "apply" /\ pointer' = origin
      BY <2>1, AloneInside DEF Inv, TypeOK, InitializePCs
    <2>4. Exclusive' /\ Bound' /\ Drafted'
      BY <2>3 DEF Exclusive, Bound, Drafted, InitializePCs, ApplyPCs
    <2>5. origin.applied = <<>> /\ origin.target = args[x].target /\ Len(origin.applied) = 0
      BY DEF InitialState
    <2>6. Sound'
      BY <2>1, <2>3, <2>5 DEF Sound, Ordered
    <2>7. LineageOnDisk'
      BY <2>1, <2>3, <2>5 DEF LineageOnDisk, Number
    <2>. QED
      BY <2>2, <2>4, <2>6, <2>7 DEF Inv, StoreInvariant
  <1>. QED
    BY <1>1, <1>2, <1>3

\* What an admissible report makes of a sound current generation.
LEMMA SuccessorSound ==
    ASSUME NEW s \in State, Faithful(s), Ordered(s), NEW r \in Report,
           Admissible(s, r)
    PROVE  /\ Transition(s, r) \in State
           /\ Faithful(Transition(s, r))
           /\ Ordered(Transition(s, r))
           /\ Number(Transition(s, r)) = Number(s) + 1
           /\ Number(s) \in Nat
  BY TransitionType, TransitionFollowsHistory, TransitionOrdered
     DEF Admissible, Number

\* apply() under the lock.
LEMMA ApplyInv ==
    ASSUME Inv, NEW x \in Appliers, Load(x) \/ Rename(x) \/ Replace(x)
    PROVE  Inv'
  <1>1. CASE Load(x)
    <2>. USE <1>1 DEF Load, CanApply, Goto
    <2>. DEFINE d == Transition(pointer, args[x])
    <2>1. /\ pc[x] = "apply" /\ args[x] \in Report /\ pointer \in State
          /\ Admissible(pointer, args[x]) /\ Faithful(pointer) /\ Ordered(pointer)
      BY DEF Inv, TypeOK, StoreInvariant, Sound
    <2>2. d \in State /\ Number(d) = Number(pointer) + 1 /\ Number(pointer) \in Nat
      BY <2>1, SuccessorSound
    <2>3. /\ draft'[x] = d /\ generations' = generations \ {d} /\ pc'[x] = "prepared"
          /\ lock' = x /\ pointer' = pointer /\ args' = args
      BY DEF Inv, TypeOK
    <2>4. \A y \in Appliers : y # x => pc'[y] = pc[y] /\ pc[y] \notin InitializePCs \cup ApplyPCs
      BY NobodyInside DEF Inv, TypeOK
    <2>5. TypeOK'
      BY <2>1, <2>2 DEF Inv, TypeOK, PCs, InitializePCs, ApplyPCs
    <2>6. Exclusive' /\ Bound' /\ Drafted'
      BY <2>1, <2>3, <2>4 DEF Exclusive, Bound, Drafted, InitializePCs, ApplyPCs
    <2>7. Sound'
      BY <2>3 DEF Inv, StoreInvariant, Sound
    <2>8. Lineage(generations \ {d}, pointer)
      BY <2>1, <2>2, LineageKept, LineageOnDiskIs DEF Inv, StoreInvariant, TypeOK
    <2>9. LineageOnDisk'
      BY <2>3, <2>8 DEF LineageOnDisk, Lineage
    <2>. QED
      BY <2>5, <2>6, <2>7, <2>9 DEF Inv, StoreInvariant
  <1>2. CASE Rename(x)
    <2>. USE <1>2 DEF Rename, Goto
    <2>1. /\ pc[x] = "prepared" /\ draft[x] \in State /\ pointer # None /\ lock = x
          /\ Admissible(pointer, args[x]) /\ draft[x] = Transition(pointer, args[x])
      BY DEF Inv, TypeOK, StoreInvariant, Drafted, Exclusive, ApplyPCs
    <2>2. TypeOK'
      BY <2>1 DEF Inv, TypeOK, PCs, InitializePCs, ApplyPCs
    <2>3. /\ \A y \in Appliers : y # x => pc'[y] = pc[y] /\ pc[y] \notin InitializePCs \cup ApplyPCs
          /\ pc'[x] = "renamed"
      BY <2>1, AloneInside DEF Inv, TypeOK, ApplyPCs
    <2>4. Exclusive' /\ Bound' /\ Drafted'
      BY <2>1, <2>3 DEF Exclusive, Bound, Drafted, InitializePCs, ApplyPCs
    <2>5. Sound'
      BY DEF Inv, StoreInvariant, Sound
    <2>6. Lineage(generations', pointer)
      BY <2>1, LineageGrows, LineageOnDiskIs DEF Inv, StoreInvariant
    <2>7. LineageOnDisk'
      BY <2>6 DEF LineageOnDisk, Lineage
    <2>. QED
      BY <2>2, <2>4, <2>5, <2>7 DEF Inv, StoreInvariant
  <1>3. CASE Replace(x)
    <2>. USE <1>3 DEF Replace, Goto
    <2>1. /\ pc[x] = "renamed" /\ args[x] \in Report /\ pointer \in State /\ lock = x
          /\ Admissible(pointer, args[x]) /\ draft[x] = Transition(pointer, args[x])
          /\ draft[x] \in generations /\ Faithful(pointer) /\ Ordered(pointer)
      BY DEF Inv, TypeOK, StoreInvariant, Drafted, Exclusive, Sound, ApplyPCs
    <2>2. draft[x] \in State /\ Faithful(draft[x]) /\ Ordered(draft[x])
      BY <2>1, SuccessorSound
    <2>3. TypeOK'
      BY <2>2 DEF Inv, TypeOK, PCs, InitializePCs, ApplyPCs
    <2>4. /\ \A y \in Appliers : y # x => pc'[y] = pc[y] /\ pc[y] \notin InitializePCs \cup ApplyPCs
          /\ pc'[x] = "replaced" /\ pointer' = draft[x]
      BY <2>1, AloneInside DEF Inv, TypeOK, ApplyPCs
    <2>5. Exclusive' /\ Bound' /\ Drafted'
      BY <2>1, <2>4 DEF Exclusive, Bound, Drafted, InitializePCs, ApplyPCs
    <2>6. Sound'
      BY <2>2, <2>4 DEF Sound
    <2>7. Lineage(generations, draft[x])
      BY <2>1, LineageAdvances, LineageOnDiskIs, RecoveryAssumption
         DEF Inv, StoreInvariant, TypeOK, RecoveryAssumption
    <2>8. LineageOnDisk'
      BY <2>4, <2>7 DEF LineageOnDisk, Lineage
    <2>. QED
      BY <2>3, <2>5, <2>6, <2>8 DEF Inv, StoreInvariant
  <1>. QED
    BY <1>1, <1>2, <1>3

\* Every step preserves the invariant.
LEMMA NextInv == Inv /\ [Next]_vars => Inv'
  <1>. SUFFICES ASSUME Inv, [Next]_vars PROVE Inv'
    OBVIOUS
  <1>1. CASE UNCHANGED vars
    BY <1>1 DEF vars, disk, process, Inv, TypeOK, StoreInvariant, Exclusive, Bound,
       Drafted, Sound, LineageOnDisk
  <1>2. CASE Next
    <2>. SUFFICES ASSUME NEW x \in Appliers,
                         \/ \E r \in Report : Begin(x, r)
                         \/ Step(x)
                         \/ Interrupt(x, "none") \/ Interrupt(x, "error")
                  PROVE  Inv'
      BY <1>2 DEF Next
    <2>1. faults \in 0 .. MaxFaults
      BY DEF Inv, TypeOK
    <2>2. CASE (\E r \in Report : Begin(x, r)) \/ InitializeBound(x)
      BY <2>2, OutsideInv
    <2>3. CASE InitializeFresh(x) \/ PublishOrigin(x) \/ PointToOrigin(x)
      BY <2>3, InitializeInv
    <2>4. CASE Load(x) \/ Rename(x) \/ Replace(x)
      BY <2>4, ApplyInv
    <2>5. CASE InitializeRefused(x) \/ LoadRefused(x) \/ Return(x)
      BY <2>1, <2>5, FinishInv DEF InitializeRefused, LoadRefused, Return
    <2>6. CASE Interrupt(x, "none") \/ Interrupt(x, "error")
      <3>1. faults' \in 0 .. MaxFaults
        BY <2>1, <2>6, RecoveryAssumption DEF Interrupt, RecoveryAssumption
      <3>. QED
        BY <2>6, <3>1, FinishInv DEF Interrupt
    <2>. QED
      BY <2>2, <2>3, <2>4, <2>5, <2>6 DEF Step
  <1>. QED
    BY <1>1, <1>2

\* The invariant holds throughout.
LEMMA Invariant == Spec => []Inv
  BY InitInv, NextInv, PTL DEF Spec

-----------------------------------------------------------------------------
(* Theorems.                                                                *)

\* Every reachable state is well typed, and a process inside apply() holds a
\* lifecycle state it computed.
THEOREM TypeCorrect == Spec => []TypeOK
  <1>1. Inv => TypeOK
    BY DEF Inv
  <1>. QED
    BY <1>1, Invariant, PTL

\* The pointer always names a generation whose whole lineage is on disk.
THEOREM LineageIsDurable == Spec => []LineageOnDisk
  <1>1. Inv => LineageOnDisk
    BY DEF Inv, StoreInvariant
  <1>. QED
    BY <1>1, Invariant, PTL

-----------------------------------------------------------------------------
(* One report at a time: the store stays readable and its retries succeed.  *)

RetryNext == Next /\ \A x \in Appliers : RetriesFirst(x)

\* Whoever follows RetrySpec follows Spec.
LEMMA RetrySteps == [RetryNext]_vars => [Next]_vars
  BY DEF RetryNext

\* An empty store is tidy.
LEMMA InitTidy == Init => RetryInvariant
  BY DEF Init, RetryInvariant, OneReport, OneAttempt, Unbound, Distinct, Stray

\* The numbers of the entries are natural numbers.
LEMMA NumberType ==
    ASSUME Inv
    PROVE  /\ \A e \in generations : Number(e) \in Nat
           /\ pointer # None => Number(pointer) \in Nat /\ pointer \in State
  BY DEF Inv, TypeOK, State, Number

\* What the disk says does not change with the processes.
LEMMA SameDisk ==
    ASSUME UNCHANGED disk
    PROVE  /\ Stray' = Stray
           /\ Distinct' = Distinct
           /\ Validates' = Validates
  BY DEF disk, Stray, Distinct, Validates, Committed

\* A process that ends, and one that moves on outside the lock, leaves a tidy
\* store.
LEMMA QuietTidy ==
    ASSUME Inv, RetryInvariant, NEW x \in Appliers, UNCHANGED disk,
           pc'[x] \in {"idle", "apply", "published", "replaced"},
           pc'[x] # "idle" => pc[x] # "idle" /\ args'[x] = args[x],
           \A y \in Appliers : y # x => /\ pc'[y] = pc[y] /\ args'[y] = args[y]
                                       /\ draft'[y] = draft[y]
    PROVE  RetryInvariant'
  <1>1. /\ Stray' = Stray /\ Distinct' = Distinct /\ Validates' = Validates
        /\ pointer' = pointer /\ generations' = generations
    BY SameDisk DEF disk
  <1>2. OneReport'
    <2>1. \A y \in Appliers : pc'[y] # "idle" => pc[y] # "idle" /\ args'[y] = args[y]
      OBVIOUS
    <2>. QED
      BY <1>1, <2>1 DEF RetryInvariant, OneReport
  <1>3. OneAttempt'
    <2>1. \A y \in Appliers :
            pc'[y] \in {"prepared", "renamed"} => pc'[y] = pc[y] /\ draft'[y] = draft[y]
      OBVIOUS
    <2>. QED
      BY <1>1, <2>1 DEF RetryInvariant, OneAttempt
  <1>4. Unbound'
    <2>1. \A y \in Appliers : pc'[y] = "copying" => pc[y] = "copying"
      OBVIOUS
    <2>. QED
      BY <1>1, <2>1 DEF RetryInvariant, Unbound
  <1>. QED
    BY <1>1, <1>2, <1>3, <1>4 DEF RetryInvariant

\* An applier takes up the report the interrupted attempts were at.
LEMMA BeginTidy ==
    ASSUME Inv, RetryInvariant, NEW x \in Appliers, NEW r \in Report,
           Begin(x, r), RetriesFirst(x)
    PROVE  RetryInvariant'
  <1>. USE DEF Begin, Goto
  <1>1. /\ Stray' = Stray /\ Distinct' = Distinct /\ Validates' = Validates
        /\ pointer' = pointer /\ generations' = generations
    BY SameDisk DEF disk
  <1>2. /\ pc[x] = "idle" /\ pc'[x] = "initialize" /\ args'[x] = r
        /\ \A y \in Appliers : y # x => /\ pc'[y] = pc[y] /\ args'[y] = args[y]
                                       /\ draft'[y] = draft[y]
    BY DEF Inv, TypeOK
  <1>3. \A y \in Appliers : pc[y] # "idle" => args[y] = r
    BY <1>2 DEF RetriesFirst
  <1>4. \A e \in Stray : e.applied[Number(e)] = r
    <2>. SUFFICES ASSUME NEW e \in Stray PROVE e.applied[Number(e)] = r
      OBVIOUS
    <2>1. /\ e \in generations /\ pointer # None /\ Number(e) > Number(pointer)
          /\ Number(e) \in Nat /\ Number(pointer) \in Nat
      BY NumberType DEF Stray
    <2>2. e \in generations \ Committed /\ Number(e) > 0
      BY <2>1 DEF Committed
    <2>. QED
      BY <1>2, <2>2 DEF RetriesFirst
  <1>5. OneReport'
    <2>1. \A y \in Appliers : pc'[y] # "idle" => args'[y] = r
      BY <1>2, <1>3
    <2>. QED
      BY <1>1, <1>4, <2>1 DEF OneReport
  <1>6. OneAttempt'
    <2>1. \A y \in Appliers :
            pc'[y] \in {"prepared", "renamed"} => pc'[y] = pc[y] /\ draft'[y] = draft[y]
      BY <1>2
    <2>. QED
      BY <1>1, <2>1 DEF RetryInvariant, OneAttempt
  <1>7. Unbound'
    <2>1. \A y \in Appliers : pc'[y] = "copying" => pc[y] = "copying"
      BY <1>2
    <2>. QED
      BY <1>1, <2>1 DEF RetryInvariant, Unbound
  <1>. QED
    BY <1>1, <1>5, <1>6, <1>7 DEF RetryInvariant

\* initialize() on a store without a pointer.
LEMMA InitializeTidy ==
    ASSUME Inv, RetryInvariant, NEW x \in Appliers,
           InitializeFresh(x) \/ PublishOrigin(x) \/ PointToOrigin(x)
    PROVE  RetryInvariant'
  <1>. DEFINE origin == InitialState(args[x].target)
  <1>1. Number(origin) = 0
    BY DEF InitialState, Number
  <1>2. CASE InitializeFresh(x)
    <2>. USE <1>2 DEF InitializeFresh, Goto, disk
    <2>1. /\ Stray' = Stray /\ Distinct' = Distinct /\ Validates' = Validates
          /\ pointer' = None /\ pointer = None /\ generations' = generations
      BY SameDisk
    <2>2. generations = {}
      BY DEF HasOrigin, RetryInvariant, Unbound
    <2>3. /\ pc'[x] = "copying" /\ pc[x] # "idle" /\ args' = args
          /\ \A y \in Appliers : y # x => pc'[y] = pc[y]
      BY DEF Inv, TypeOK
    <2>4. Stray = {}
      BY <2>1 DEF Stray
    <2>5. OneReport'
      BY <2>1, <2>3 DEF RetryInvariant, OneReport
    <2>6. OneAttempt'
      BY <2>1, <2>3, <2>4 DEF RetryInvariant, OneAttempt
    <2>7. Unbound'
      BY <2>1, <2>2 DEF Unbound
    <2>. QED
      BY <2>1, <2>5, <2>6, <2>7 DEF RetryInvariant
  <1>3. CASE PublishOrigin(x)
    <2>. USE <1>3 DEF PublishOrigin, Goto
    <2>1. /\ pc[x] = "copying" /\ generations = {} /\ pointer = None
          /\ generations' = {origin} /\ pointer' = None /\ args' = args
      BY DEF RetryInvariant, Unbound, Inv, StoreInvariant, Bound, InitializePCs
    <2>2. /\ pc'[x] = "published"
          /\ \A y \in Appliers : y # x => pc'[y] = pc[y] /\ pc[y] \notin InitializePCs \cup ApplyPCs
      BY <2>1, AloneInside DEF Inv, TypeOK, InitializePCs
    <2>3. Stray = {} /\ Stray' = {}
      BY <2>1 DEF Stray
    <2>4. OneReport'
      BY <2>1, <2>2, <2>3 DEF RetryInvariant, OneReport
    <2>5. OneAttempt'
      BY <2>2, <2>3 DEF OneAttempt, ApplyPCs
    <2>6. Unbound'
      BY <1>1, <2>1, <2>2 DEF Unbound, InitializePCs
    <2>7. Distinct'
      BY <2>1 DEF Distinct
    <2>. QED
      BY <2>1, <2>4, <2>5, <2>6, <2>7 DEF RetryInvariant
  <1>4. CASE PointToOrigin(x)
    <2>. USE <1>4 DEF PointToOrigin, Goto
    <2>1. /\ pc[x] = "published" /\ pointer = None /\ origin \in generations
          /\ pointer' = origin /\ generations' = generations /\ args' = args
          /\ args[x] \in Report
      BY DEF RetryInvariant, Unbound, Inv, TypeOK, StoreInvariant, Bound, InitializePCs
    <2>2. /\ pc'[x] = "apply"
          /\ \A y \in Appliers : y # x => pc'[y] = pc[y] /\ pc[y] \notin InitializePCs \cup ApplyPCs
      BY <2>1, AloneInside DEF Inv, TypeOK, InitializePCs
    <2>3. generations = {origin}
      BY <1>1, <2>1 DEF RetryInvariant, Unbound, Distinct
    <2>4. Stray = {} /\ Stray' = {}
      BY <1>1, <2>1, <2>3 DEF Stray
    <2>5. OneReport'
      BY <2>1, <2>2, <2>4 DEF RetryInvariant, OneReport
    <2>6. OneAttempt'
      BY <2>2, <2>4 DEF OneAttempt, ApplyPCs
    <2>7. origin \in State /\ origin # None
      BY <2>1, InitialFaithful, RecoveryAssumption DEF Report, RecoveryAssumption
    <2>8. Unbound'
      BY <2>1, <2>2, <2>7 DEF Unbound, InitializePCs
    <2>9. Distinct' /\ Validates'
      BY <1>1, <2>1, <2>3 DEF Distinct, Validates, Committed
    <2>. QED
      BY <2>5, <2>6, <2>8, <2>9 DEF RetryInvariant
  <1>. QED
    BY <1>2, <1>3, <1>4

\* An attempt at a report starts by clearing away the attempts before it.
LEMMA LoadTidy ==
    ASSUME Inv, RetryInvariant, NEW x \in Appliers, Load(x)
    PROVE  RetryInvariant'
  <1>. USE DEF Load, CanApply, Goto
  <1>. DEFINE d == Transition(pointer, args[x])
  <1>1. /\ pc[x] = "apply" /\ args[x] \in Report /\ pointer \in State /\ pointer # None
        /\ Validates /\ pointer' = pointer /\ args' = args
    BY DEF Inv, TypeOK
  <1>2. d \in State /\ Number(d) = Number(pointer) + 1 /\ Number(pointer) \in Nat
    BY <1>1, TransitionType DEF Number
  <1>3. draft'[x] = d /\ generations' = generations \ {d} /\ pc'[x] = "prepared"
    BY DEF Inv, TypeOK
  <1>4. \A y \in Appliers : y # x => pc'[y] = pc[y] /\ pc[y] \notin InitializePCs \cup ApplyPCs
    BY NobodyInside DEF Inv, TypeOK
  <1>5. Stray \subseteq {d}
    <2>. SUFFICES ASSUME NEW e \in Stray PROVE e = d
      OBVIOUS
    <2>1. PICK r \in Report : e = Transition(pointer, r)
      BY DEF RetryInvariant, OneAttempt
    <2>2. e.applied = Append(pointer.applied, r) /\ Number(e) = Len(pointer.applied) + 1
      BY <1>1, <2>1, TransitionType DEF Number
    <2>3. e.applied[Number(e)] = r
      BY <1>1, <2>2, AppendKeeps DEF State
    <2>4. e.applied[Number(e)] = args[x]
      BY <1>1 DEF RetryInvariant, OneReport
    <2>. QED
      BY <2>1, <2>3, <2>4
  <1>6. Stray' = {}
    BY <1>1, <1>3, <1>5 DEF Stray
  <1>7. Committed' = Committed
    BY <1>1, <1>2, <1>3 DEF Committed
  <1>8. OneReport'
    BY <1>1, <1>3, <1>4, <1>6 DEF RetryInvariant, OneReport
  <1>9. OneAttempt'
    BY <1>3, <1>4, <1>6 DEF OneAttempt, ApplyPCs
  <1>10. Unbound'
    BY <1>1, <1>3, <1>4 DEF Unbound, InitializePCs
  <1>11. Distinct'
    BY <1>3 DEF RetryInvariant, Distinct
  <1>12. pointer' \in generations'
    <2>1. pointer # d
      BY <1>2
    <2>. QED
      BY <1>1, <1>3, <2>1 DEF Validates
  <1>13. Validates'
    BY <1>1, <1>7, <1>11, <1>12 DEF Validates, Distinct
  <1>. QED
    BY <1>8, <1>9, <1>10, <1>11, <1>13 DEF RetryInvariant

\* The new entry is the only one beyond the pointer.
LEMMA RenameTidy ==
    ASSUME Inv, RetryInvariant, NEW x \in Appliers, Rename(x)
    PROVE  RetryInvariant'
  <1>. USE DEF Rename, Goto
  <1>. DEFINE d == draft[x]
  <1>1. /\ pc[x] = "prepared" /\ args[x] \in Report /\ pointer \in State /\ pointer # None
        /\ d = Transition(pointer, args[x]) /\ Stray = {}
        /\ pointer' = pointer /\ args' = args /\ draft' = draft
    BY DEF Inv, TypeOK, StoreInvariant, Drafted, RetryInvariant, OneAttempt
  <1>2. /\ d \in State /\ Number(d) = Number(pointer) + 1 /\ Number(pointer) \in Nat
        /\ d.applied = Append(pointer.applied, args[x])
        /\ Number(d) = Len(pointer.applied) + 1
    BY <1>1, TransitionType DEF Number
  <1>3. generations' = generations \cup {d} /\ pc'[x] = "renamed"
    BY DEF Inv, TypeOK
  <1>4. \A y \in Appliers : y # x => pc'[y] = pc[y] /\ pc[y] \notin InitializePCs \cup ApplyPCs
    BY <1>1, AloneInside DEF Inv, TypeOK, ApplyPCs
  <1>5. \A e \in generations : Number(e) \in Nat /\ Number(e) <= Number(pointer)
    BY <1>1, <1>2, NumberType DEF Stray
  <1>6. Stray' = {d}
    BY <1>1, <1>2, <1>3, <1>5 DEF Stray
  <1>7. Committed' = Committed
    BY <1>1, <1>2, <1>3 DEF Committed
  <1>8. OneReport'
    <2>1. d.applied[Number(d)] = args[x]
      BY <1>1, <1>2, AppendKeeps DEF State
    <2>2. \A y \in Appliers : pc'[y] # "idle" => pc[y] # "idle"
      BY <1>1, <1>4
    <2>3. \A y, z \in Appliers : pc[y] # "idle" /\ pc[z] # "idle" => args[y] = args[z]
      BY DEF RetryInvariant, OneReport
    <2>4. \A y \in Appliers : pc[y] # "idle" => args[y] = args[x]
      BY <1>1, <2>3
    <2>. QED
      BY <1>1, <1>6, <2>1, <2>2, <2>3, <2>4 DEF OneReport
  <1>9. OneAttempt'
    BY <1>1, <1>3, <1>4, <1>6 DEF OneAttempt, ApplyPCs
  <1>10. Unbound'
    BY <1>1, <1>3, <1>4 DEF Unbound, InitializePCs
  <1>11. Distinct'
    BY <1>2, <1>3, <1>5 DEF RetryInvariant, Distinct
  <1>12. Validates'
    BY <1>1, <1>3, <1>7, <1>11 DEF RetryInvariant, Validates, Distinct
  <1>. QED
    BY <1>8, <1>9, <1>10, <1>11, <1>12 DEF RetryInvariant

\* The commit: the entry beyond the pointer joins the lineage.
LEMMA ReplaceTidy ==
    ASSUME Inv, RetryInvariant, NEW x \in Appliers, Replace(x)
    PROVE  RetryInvariant'
  <1>. USE DEF Replace, Goto
  <1>. DEFINE d == draft[x]
              r == args[x]
  <1>1. /\ pc[x] = "renamed" /\ r \in Report /\ pointer \in State /\ pointer # None
        /\ d = Transition(pointer, r) /\ Admissible(pointer, r) /\ d \in generations
        /\ Stray \subseteq {d} /\ Validates
        /\ pointer' = d /\ generations' = generations /\ args' = args /\ draft' = draft
    BY DEF Inv, TypeOK, StoreInvariant, Drafted, RetryInvariant, OneAttempt
  <1>2. /\ d \in State /\ Number(d) = Number(pointer) + 1 /\ Number(pointer) \in Nat
        /\ d.applied = Append(pointer.applied, r) /\ d # None
        /\ Number(d) = Len(pointer.applied) + 1
    BY <1>1, TransitionType, RecoveryAssumption DEF Number, RecoveryAssumption
  <1>3. pc'[x] = "replaced"
    BY DEF Inv, TypeOK
  <1>4. \A y \in Appliers : y # x => pc'[y] = pc[y] /\ pc[y] \notin InitializePCs \cup ApplyPCs
    BY <1>1, AloneInside DEF Inv, TypeOK, ApplyPCs
  <1>5. \A e \in generations : /\ Number(e) \in Nat
                               /\ Number(e) <= Number(pointer) \/ e = d
    BY <1>1, <1>2, NumberType DEF Stray
  <1>6. Stray' = {}
    BY <1>1, <1>2, <1>5 DEF Stray
  <1>7. Committed' = Committed \cup {d}
    BY <1>1, <1>2, <1>5 DEF Committed
  <1>8. OneReport'
    BY <1>1, <1>3, <1>4, <1>6 DEF RetryInvariant, OneReport
  <1>9. OneAttempt'
    BY <1>3, <1>4, <1>6 DEF OneAttempt, ApplyPCs
  <1>10. Unbound'
    BY <1>1, <1>2, <1>3, <1>4 DEF Unbound, InitializePCs
  <1>11. Distinct'
    BY <1>1 DEF RetryInvariant, Distinct
  <1>12. ASSUME NEW e \in Committed', Number(e) > 0
         PROVE  \E f \in Committed' : /\ Admissible(f, e.applied[Number(e)])
                                      /\ e = Transition(f, e.applied[Number(e)])
    <2>1. CASE e \in Committed
      BY <1>1, <1>7, <1>12, <2>1 DEF Validates
    <2>2. CASE e = d
      <3>1. d.applied[Number(d)] = r
        BY <1>1, <1>2, AppendKeeps DEF State
      <3>2. pointer \in Committed
        BY <1>1, <1>2 DEF Committed, Validates
      <3>. QED
        BY <1>1, <1>7, <2>2, <3>1, <3>2
    <2>. QED
      BY <1>7, <2>1, <2>2
  <1>13. Validates'
    BY <1>1, <1>11, <1>12 DEF Validates, Distinct, Number
  <1>. QED
    BY <1>8, <1>9, <1>10, <1>11, <1>13 DEF RetryInvariant

\* Every step of RetrySpec keeps the store tidy.
LEMMA NextTidy == Inv /\ RetryInvariant /\ [RetryNext]_vars => RetryInvariant'
  <1>. SUFFICES ASSUME Inv, RetryInvariant, [RetryNext]_vars
                PROVE  RetryInvariant'
    OBVIOUS
  <1>1. CASE UNCHANGED vars
    <2>1. UNCHANGED disk /\ UNCHANGED <<pc, args, draft>>
      BY <1>1 DEF vars, process
    <2>2. /\ Stray' = Stray /\ Distinct' = Distinct /\ Validates' = Validates
          /\ pointer' = pointer /\ generations' = generations
      BY <2>1, SameDisk DEF disk
    <2>. QED
      BY <2>1, <2>2 DEF RetryInvariant, OneReport, OneAttempt, Unbound
  <1>2. CASE RetryNext
    <2>1. PICK x \in Appliers : \/ \E r \in Report : Begin(x, r)
                                \/ Step(x)
                                \/ Interrupt(x, "none") \/ Interrupt(x, "error")
      BY <1>2 DEF RetryNext, Next
    <2>2. CASE \E r \in Report : Begin(x, r)
      BY <1>2, <2>2, BeginTidy DEF RetryNext
    <2>3. CASE InitializeFresh(x) \/ PublishOrigin(x) \/ PointToOrigin(x)
      BY <2>3, InitializeTidy
    <2>4. CASE Load(x) \/ Rename(x) \/ Replace(x)
      BY <2>4, LoadTidy, RenameTidy, ReplaceTidy
    <2>5. CASE InitializeBound(x)
      <3>1. /\ UNCHANGED disk /\ pc[x] # "idle" /\ pc'[x] = "apply" /\ args' = args
            /\ \A y \in Appliers : y # x => /\ pc'[y] = pc[y] /\ args'[y] = args[y]
                                           /\ draft'[y] = draft[y]
        BY <2>5 DEF InitializeBound, Goto, Inv, TypeOK, disk
      <3>. QED
        BY <3>1, QuietTidy
    <2>6. CASE \E result \in {"none", "ok", "error"} : Finish(x, result) /\ UNCHANGED disk
      <3>1. /\ UNCHANGED disk /\ pc'[x] = "idle"
            /\ \A y \in Appliers : y # x => /\ pc'[y] = pc[y] /\ args'[y] = args[y]
                                           /\ draft'[y] = draft[y]
        BY <2>6 DEF Finish, Goto, Inv, TypeOK
      <3>. QED
        BY <3>1, QuietTidy
    <2>. QED
      BY <2>1, <2>2, <2>3, <2>4, <2>5, <2>6
         DEF Step, InitializeRefused, LoadRefused, Return, Interrupt, disk
  <1>. QED
    BY <1>1, <1>2

\* Both invariants hold while one report is applied at a time.
LEMMA RetryInvariance == RetrySpec => [](Inv /\ RetryInvariant)
  <1>1. Init => Inv /\ RetryInvariant
    BY InitInv, InitTidy
  <1>2. Inv /\ RetryInvariant /\ [RetryNext]_vars => (Inv /\ RetryInvariant)'
    BY NextInv, NextTidy, RetrySteps
  <1>3. RetrySpec <=> Init /\ [][RetryNext]_vars
    BY DEF RetrySpec, RetryNext
  <1>. QED
    BY <1>1, <1>2, <1>3, PTL

\* An interrupted apply() never leaves a store that the next command refuses to
\* read, as long as the interrupted report is applied again before another.
THEOREM StoreStaysReadable == RetrySpec => []AlwaysReadable
  <1>1. RetryInvariant => AlwaysReadable
    BY DEF RetryInvariant, AlwaysReadable
  <1>. QED
    BY <1>1, RetryInvariance, PTL

\* Under the same discipline a command that meets no fault of its own fails
\* only if its report must not be applied to the state it found.
THEOREM RetriesCommit == RetrySpec => RetryCommits
  <1>. DEFINE Justified(x) ==
                /\ pc[x] # "idle" /\ pc'[x] = "idle"
                /\ outcome'[x] = "error" /\ faults' = faults /\ pointer # None
                => ~Admissible(pointer, args[x])
  <1>1. ASSUME Inv, RetryInvariant, RetryNext, NEW x \in Appliers
        PROVE  Justified(x)
    <2>. SUFFICES ASSUME pc[x] # "idle", pc'[x] = "idle", outcome'[x] = "error",
                         faults' = faults, pointer # None
                  PROVE  ~Admissible(pointer, args[x])
      OBVIOUS
    <2>1. PICK y \in Appliers : \/ \E r \in Report : Begin(y, r)
                                \/ Step(y)
                                \/ Interrupt(y, "none") \/ Interrupt(y, "error")
      BY <1>1 DEF RetryNext, Next
    <2>2. faults \in Nat
      BY <1>1, RecoveryAssumption DEF Inv, TypeOK, RecoveryAssumption
    <2>3. ~Interrupt(y, "none") /\ ~Interrupt(y, "error")
      BY <2>2 DEF Interrupt
    <2>4. x = y
      BY <1>1, <2>1
         DEF Inv, TypeOK, Begin, Step, InitializeBound, InitializeRefused,
             InitializeFresh, PublishOrigin, PointToOrigin, Load, LoadRefused,
             Rename, Replace, Return, Interrupt, Finish, Goto
    <2>5. InitializeRefused(x) \/ LoadRefused(x)
      BY <1>1, <2>1, <2>3, <2>4
         DEF Inv, TypeOK, Begin, Step, InitializeBound, InitializeFresh,
             PublishOrigin, PointToOrigin, Load, Rename, Replace, Return, Finish, Goto
    <2>6. Validates
      BY <1>1 DEF RetryInvariant
    <2>. QED
      BY <2>5, <2>6
         DEF InitializeRefused, LoadRefused, BoundTo, CanApply, Admissible, Fits
  <1>2. Inv /\ RetryInvariant /\ [RetryNext]_vars
          => [\A x \in Appliers : Justified(x)]_vars
    BY <1>1
  <1>3. RetrySpec <=> Init /\ [][RetryNext]_vars
    BY DEF RetrySpec, RetryNext
  <1>. QED
    BY <1>2, <1>3, RetryInvariance, PTL DEF RetryCommits

-----------------------------------------------------------------------------
(* The store implements the incident lifecycle.                             *)

\* The instance's StatusOf is the one the transition was compared with.
LEMMA SameHistory ==
    /\ \A h, n : Lifecycle!EverRecovered(h, n) = EverRecovered(h, n)
    /\ \A h : Lifecycle!StatusOf(h) = StatusOf(h)
    /\ Lifecycle!Report = Report
  <1>. USE DEF Lifecycle!Recovered, Lifecycle!Degraded, Lifecycle!EverRecovered,
               Recovered, Degraded, EverRecovered
  <1>1. \A h, n : Lifecycle!EverRecovered(h, n) = EverRecovered(h, n)
    OBVIOUS
  <1>2. \A h, n : Lifecycle!Regressions(h, n) = Regressions(h, n)
    <2>. SUFFICES ASSUME NEW h, NEW n
                  PROVE  Lifecycle!Regressions(h, n) = Regressions(h, n)
      OBVIOUS
    <2>1. \A k : k \in Lifecycle!Regressions(h, n) <=> k \in Regressions(h, n)
      BY DEF Lifecycle!Regressions, Regressions
    <2>. QED
      BY <2>1
  <1>3. \A h : Lifecycle!Reopened(h) = Reopened(h)
    <2>1. \A S : Lifecycle!Cardinality(S) = Cardinality(S)
      BY DEF Lifecycle!Cardinality, Cardinality, Lifecycle!IsFiniteSet, IsFiniteSet
    <2>2. \A h, n : Lifecycle!ReopensAt(h, n) <=> ReopensAt(h, n)
      BY <1>2, <2>1 DEF Lifecycle!ReopensAt, ReopensAt
    <2>. QED
      BY <2>2 DEF Lifecycle!Reopened, Reopened
  <1>4. \A h : Lifecycle!LastSeenRecovered(h) = LastSeenRecovered(h)
    BY DEF Lifecycle!LastSeenRecovered, LastSeenRecovered
  <1>5. \A h : Lifecycle!StatusOf(h) = StatusOf(h)
    BY <1>3, <1>4 DEF Lifecycle!StatusOf, StatusOf
  <1>6. Lifecycle!Report = Report
    BY DEF Lifecycle!Report, Report, Lifecycle!Decisions, Decisions
  <1>. QED
    BY <1>1, <1>5, <1>6

\* The register the store implements, read off the pointer.
history == IF pointer = None THEN <<>> ELSE pointer.applied
status  == IF pointer = None THEN "monitoring" ELSE pointer.status

\* Moving the pointer to a successor is one step of the lifecycle.
LEMMA ReplaceApplies ==
    ASSUME Inv, NEW x \in Appliers, Replace(x)
    PROVE  Lifecycle!Next
  <1>. DEFINE r == args[x]
  <1>1. /\ r \in Report /\ pointer \in State /\ pointer # None
        /\ Admissible(pointer, r) /\ pointer' = Transition(pointer, r)
        /\ Faithful(pointer) /\ Ordered(pointer)
    BY DEF Replace, Inv, TypeOK, StoreInvariant, Drafted, Sound
  <1>2. Transition(pointer, r) \in State /\ Faithful(Transition(pointer, r))
    BY <1>1, SuccessorSound
  <1>3. /\ history = pointer.applied /\ status = pointer.status
        /\ history' = Append(history, r) /\ Len(history) \in Nat
        /\ Len(history') = Len(history) + 1
        /\ status' = StatusOf(history')
    BY <1>1, <1>2, TransitionType, RecoveryAssumption
       DEF history, status, Faithful, RecoveryAssumption
  <1>4. Len(history) < Capacity
    BY <1>1, <1>3, TransitionType, TransitionAssumption
       DEF Admissible, Valid, TransitionAssumption
  <1>5. \A i \in 1 .. Len(history) : history[i].target = r.target /\ history[i].at < r.at
    BY <1>1, <1>3, TransitionOrdered DEF Admissible
  <1>6. r.severe /\ ImmediateReopen => EverRecovered(history, Len(history))
    <2>. SUFFICES ASSUME r.severe, ImmediateReopen
                  PROVE  EverRecovered(history, Len(history))
      OBVIOUS
    <2>1. r.decision = "failed"
      BY <1>1 DEF Report
    <2>2. NextStatus(pointer, r) = "reopened"
      BY <2>1 DEF NextStatus
    <2>3. pointer.ever \/ r.decision = "recovered"
      BY <1>1, <2>2 DEF Admissible, Valid, Transition
    <2>. QED
      BY <1>1, <1>3, <2>1, <2>3 DEF Faithful
  <1>7. Lifecycle!Apply(r)
    BY <1>3, <1>4, <1>5, <1>6, SameHistory DEF Lifecycle!Apply, history, status
  <1>. QED
    BY <1>1, <1>7, SameHistory DEF Lifecycle!Next

\* Binding the store changes neither the history nor the status.
LEMMA BindStutters ==
    ASSUME Inv, NEW x \in Appliers, PointToOrigin(x)
    PROVE  UNCHANGED <<history, status>>
  <1>1. pointer = None /\ pointer' = InitialState(args[x].target) /\ args[x] \in Report
    BY DEF PointToOrigin, Inv, TypeOK, StoreInvariant, Bound, InitializePCs
  <1>2. pointer' \in State /\ pointer' # None
    BY <1>1, InitialFaithful, RecoveryAssumption DEF Report, RecoveryAssumption
  <1>. QED
    BY <1>1, <1>2 DEF history, status, InitialState

\* The store implements the incident lifecycle: through races, crashes and
\* retries the pointer carries a growing history of reports about one
\* execution, and the status that this history calls for.
THEOREM StoreImplementsLifecycle == Spec => ImplementsLifecycle
  <1>1. Init => Lifecycle!Init
    BY DEF Init, Lifecycle!Init
  <1>2. Inv /\ [Next]_vars => [Lifecycle!Next]_<<history, status>>
    <2>. SUFFICES ASSUME Inv, [Next]_vars
                  PROVE  [Lifecycle!Next]_<<history, status>>
      OBVIOUS
    <2>1. CASE \E x \in Appliers : Replace(x)
      BY <2>1, ReplaceApplies
    <2>2. CASE \E x \in Appliers : PointToOrigin(x)
      BY <2>2, BindStutters
    <2>3. CASE UNCHANGED pointer
      BY <2>3 DEF history, status
    <2>. QED
      BY <2>1, <2>2, <2>3
         DEF Next, Step, Begin, InitializeBound, InitializeRefused, InitializeFresh,
             PublishOrigin, Load, LoadRefused, Rename, Return, Interrupt, vars, disk
  <1>. QED
    BY <1>1, <1>2, Invariant, PTL
       DEF Spec, ImplementsLifecycle, Lifecycle!Spec, history, status
=============================================================================
