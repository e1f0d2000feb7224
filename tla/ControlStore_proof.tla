------------------------- MODULE ControlStore_proof -------------------------
(***************************************************************************)
(* Proofs about ControlStore, for every number of executors, plans,        *)
(* ledgers, nonces and faults.                                             *)
(***************************************************************************)
EXTENDS ControlStore, FiniteSetTheorems, TLAPS

-----------------------------------------------------------------------------
(* What an "approved" evaluation means, for every registry, window and     *)
(* quorum.                                                                 *)

\* A ledger holds at most one decision of each approver (approval.py:183).
OneDecisionEach(ds) == \A d, e \in ds : d.approver = e.approver => d = e

\* Then counting approvals is counting approvers.
LEMMA CountingApprovers ==
    ASSUME NEW ds \in SUBSET Decision, OneDecisionEach(ds)
    PROVE  /\ Cardinality(Approvals(ds)) \in Nat
           /\ Cardinality({d.approver : d \in Approvals(ds)})
                = Cardinality(Approvals(ds))
  <1> DEFINE yes == Approvals(ds)
             who == {d.approver : d \in yes}
             pick == [a \in who |-> CHOOSE d \in yes : d.approver = a]
  <1>1. who \subseteq Approvers
    BY DEF Approvals, Decision
  <1>2. IsFiniteSet(who)
    BY <1>1, FS_Subset, RulesAssumption DEF RulesAssumption
  <1>3. \A a \in who : pick[a] \in yes /\ pick[a].approver = a
    OBVIOUS
  <1>4. \A d \in yes : pick[d.approver] = d
    <2> TAKE d \in yes
    <2>1. d.approver \in who
      OBVIOUS
    <2>2. pick[d.approver] \in yes /\ pick[d.approver].approver = d.approver
      BY <1>3, <2>1
    <2> QED
      BY <2>2 DEF OneDecisionEach, Approvals
  <1>5. pick \in [who -> yes]
    BY <1>3
  <1> HIDE DEF pick
  <1>6. pick \in Injection(who, yes)
    BY <1>3, <1>5 DEF Injection, IsInjective
  <1>7. pick \in Surjection(who, yes)
    BY <1>4, <1>5 DEF Surjection
  <1>8. ExistsBijection(who, yes)
    BY <1>6, <1>7 DEF ExistsBijection, Bijection
  <1> HIDE DEF who, yes
  <1>9. IsFiniteSet(yes) /\ Cardinality(yes) = Cardinality(who)
    BY <1>2, <1>8, FS_Bijection
  <1>10. Cardinality(yes) \in Nat
    BY <1>9, FS_CardinalityType
  <1> QED
    BY <1>9, <1>10 DEF who, yes

\* An evaluation returns "approved" only for a quorum of distinct, admissible
\* approvers with no rejection among them (approval.py:205-274).
THEOREM ApprovedMeansQuorum ==
    ASSUME NEW p \in Plans, NEW at \in Instants, NEW ds \in SUBSET Decision,
           OneDecisionEach(ds), EvaluateApproval(p, ds, at) = "approved"
    PROVE  Authorised(p, ds, at)
  <1>1. /\ DecisionsAdmissible(p, ds, at)
        /\ ApproversIndependent(p, ds)
        /\ p \notin Denied /\ Rejections(ds) = {}
        /\ ~(at >= ExpiresAt[p])
        /\ Cardinality(Approvals(ds)) >= Required[p]
    BY DEF EvaluateApproval
  <1>2. Cardinality(Approvals(ds)) \in Nat
        /\ Cardinality({d.approver : d \in Approvals(ds)}) >= Required[p]
    BY <1>1, CountingApprovers
  <1>3. Required[p] \in Nat /\ ExpiresAt[p] \in Nat /\ at \in Nat
    BY RulesAssumption DEF RulesAssumption, Instants
  <1>4. p \in HighRisk /\ DistinctGroups =>
          Cardinality({GroupOf[d.approver] : d \in Approvals(ds)}) >= Required[p]
    BY <1>1, <1>2, <1>3 DEF ApproversIndependent, Least
  <1>5. \A d \in ds :
          /\ d.plan = p /\ d.verdict = "approve"
          /\ SelfApproval \/ d.approver # Requester[p]
          /\ RequestedAt[p] <= d.at /\ d.at <= at
    BY <1>1 DEF DecisionsAdmissible, Rejections, Decision
  <1> QED
    BY <1>1, <1>2, <1>3, <1>4, <1>5 DEF Authorised

-----------------------------------------------------------------------------
(* Type correctness needs to know what a process holds at each point.       *)

Held ==
    \A x \in Executors :
        /\ pc[x] # "idle" => args[x] \in Arguments
        /\ pc[x] \in {"loaded", "deciding"} => before[x] \in ControlState
        /\ pc[x] \in CommitPCs => draft[x] \in Receipt

TypeInv == TypeOK /\ Held

LEMMA StateOfType ==
    ASSUME NEW e \in Receipt \cup {Origin}
    PROVE  StateOf(e) \in ControlState
  BY StoreAssumption
  DEF StateOf, AfterState, InitialState, ControlState, Receipt

LEMMA TypeInit == Init => TypeInv
  <1> SUFFICES ASSUME Init PROVE TypeInv
    OBVIOUS
  <1>1. faults \in 0 .. MaxFaults
    BY StoreAssumption DEF Init, StoreAssumption
  <1>2. commits \in Seq(Receipt)
    BY DEF Init
  <1>4. TypeOK
    BY <1>1, <1>2 DEF Init, TypeOK, PCs
  <1>3. Held
    BY DEF Init, Held, CommitPCs
  <1> QED
    BY <1>3, <1>4 DEF TypeInv

LEMMA TypeFinish ==
    ASSUME TypeInv, NEW x \in Executors, NEW result \in {"none", "ok", "error"},
           Finish(x, result), UNCHANGED <<workflow, commits>>,
           UNCHANGED <<meta, pointer, stale>>,
           generations' \subseteq generations, faults' \in 0 .. MaxFaults
    PROVE  TypeInv'
  <1> USE DEF TypeInv, Finish, Unlock, Goto, workflow
  <1>1. TypeOK'
    BY DEF TypeOK, PCs
  <1>2. Held'
    BY DEF TypeOK, Held, CommitPCs
  <1> QED
    BY <1>1, <1>2

LEMMA TypeWorkflow ==
    ASSUME TypeInv, Workflow
    PROVE  TypeInv'
  <1> USE DEF TypeInv, disk, locks, process
  <1>1. ASSUME NEW p \in Plans, BuildPlan(p)
        PROVE  TypeInv'
    <2>1. \A e \in generations : StateOf(e) \in ControlState
      BY StateOfType DEF TypeOK
    <2>2. InitialState \in ControlState
      BY DEF InitialState, ControlState
    <2>3. TypeOK'
      BY <1>1, <2>1, <2>2 DEF BuildPlan, TypeOK
    <2>4. Held'
      BY <1>1 DEF BuildPlan, Held
    <2> QED
      BY <2>3, <2>4
  <1>2. ASSUME NEW l \in Ledgers, NEW d \in Decision, Record(l, d)
        PROVE  TypeInv'
    BY <1>2 DEF Record, TypeOK, Held
  <1>3. ASSUME NEW p \in Plans, NEW l \in Ledgers, NEW n \in Nonces,
               NEW at \in Instants, Issue(p, l, n, at)
        PROVE  TypeInv'
    <2>1. IssueToken(p, decisions[l], n, at) \in Token
      BY RulesAssumption
      DEF RulesAssumption, TypeOK, IssueToken, Token, Instants, Least
    <2>2. TypeOK'
      BY <1>3, <2>1 DEF Issue, TypeOK
    <2>3. Held'
      BY <1>3 DEF Issue, Held
    <2> QED
      BY <2>2, <2>3
  <1> QED
    BY <1>1, <1>2, <1>3 DEF Workflow

LEMMA TypeInitialize ==
    ASSUME TypeInv, NEW x \in Executors, Initialize(x)
    PROVE  TypeInv'
  <1> USE DEF TypeInv, workflow, disk, locks, Goto, Locked, TypeOK, Held, PCs,
              CriticalPCs, InitializePCs, CommitPCs
  <1>1. CASE InitializeBound(x)
    BY <1>1 DEF InitializeBound
  <1>2. CASE InitializeRefused(x)
    BY <1>2, TypeFinish DEF InitializeRefused
  <1>11. CASE InitializeForeign(x)
    BY <1>11, TypeFinish DEF InitializeForeign
  <1>3. CASE InitializeFresh(x)
    BY <1>3 DEF InitializeFresh
  <1>4. CASE PublishOrigin(x)
    BY <1>4 DEF PublishOrigin
  <1>5. CASE OpenMeta(x)
    BY <1>5 DEF OpenMeta, OpenTemporary
  <1>6. CASE TemporaryExists(x, "store", "published")
    BY <1>6, TypeFinish DEF TemporaryExists
  <1>7. CASE WriteMeta(x)
    BY <1>7 DEF WriteMeta
  <1>8. CASE OpenOrigin(x)
    BY <1>8 DEF OpenOrigin, OpenTemporary
  <1>9. CASE TemporaryExists(x, "current", "metaWritten")
    BY <1>9, TypeFinish DEF TemporaryExists
  <1>10. CASE PointToOrigin(x)
    BY <1>10 DEF PointToOrigin
  <1> QED
    BY <1>1, <1>2, <1>3, <1>4, <1>5, <1>6, <1>7, <1>8, <1>9, <1>10, <1>11
    DEF Initialize

LEMMA ReceiptForType ==
    ASSUME TypeInv, NEW x \in Executors, pc[x] = "deciding"
    PROVE  ReceiptFor(x) \in Receipt
  BY DEF TypeInv, TypeOK, Held, ReceiptFor, Receipt, Arguments, Token

LEMMA TypeExecute ==
    ASSUME TypeInv, NEW x \in Executors, Execute(x)
    PROVE  TypeInv'
  <1> USE DEF TypeInv, workflow, disk, locks, Goto, Locked, TypeOK, Held, PCs,
              CriticalPCs, InitializePCs, CommitPCs
  <1>1. CASE Load(x)
    <2>1. StateOf(pointer) \in ControlState
      BY <1>1, StateOfType DEF Load
    <2> QED
      BY <1>1, <2>1 DEF Load
  <1>2. CASE LoadRefused(x)
    BY <1>2, TypeFinish DEF LoadRefused
  <1>3. CASE LockApprovals(x)
    BY <1>3 DEF LockApprovals
  <1>4. CASE Decide(x)
    BY <1>4, ReceiptForType DEF Decide
  <1>5. CASE DecideRefused(x)
    BY <1>5, TypeFinish DEF DecideRefused
  <1>6. CASE Stage(x)
    BY <1>6 DEF Stage
  <1>8. CASE Rename(x)
    BY <1>8 DEF Rename
  <1>9. CASE OpenPointer(x)
    BY <1>9 DEF OpenPointer, OpenTemporary
  <1>10. CASE TemporaryExists(x, "current", "renamed")
    BY <1>10, TypeFinish DEF TemporaryExists
  <1>11. CASE Replace(x)
    BY <1>11 DEF Replace
  <1>12. CASE Return(x)
    BY <1>12 DEF Return
  <1>13. CASE Export(x)
    BY <1>13, TypeFinish DEF Export
  <1> QED
    BY <1>1, <1>2, <1>3, <1>4, <1>5, <1>6, <1>8, <1>9, <1>10, <1>11,
       <1>12, <1>13
    DEF Execute

LEMMA TypeStep == TypeInv /\ [Next]_vars => TypeInv'
  <1> SUFFICES ASSUME TypeInv, [Next]_vars PROVE TypeInv'
    OBVIOUS
  <1>1. CASE Workflow
    BY <1>1, TypeWorkflow
  <1>2. ASSUME NEW x \in Executors, NEW a \in [plan : Plans, ledger : Ledgers,
                    token : tokens, request : Requests], Begin(x, a)
        PROVE  TypeInv'
    <2>1. a \in Arguments
      BY DEF Arguments, TypeInv, TypeOK
    <2> QED
      BY <1>2, <2>1
      DEF Begin, TypeInv, TypeOK, Held, workflow, disk, locks, Goto, PCs, CommitPCs
  <1>3. ASSUME NEW x \in Executors, Initialize(x) PROVE TypeInv'
    BY <1>3, TypeInitialize
  <1>4. ASSUME NEW x \in Executors, Execute(x) PROVE TypeInv'
    BY <1>4, TypeExecute
  <1>5. ASSUME NEW x \in Executors, Fail(x) \/ Crash(x) PROVE TypeInv'
    BY <1>5, TypeFinish, StoreAssumption
    DEF Fail, Crash, workflow, disk, TypeInv, TypeOK, StoreAssumption
  <1>6. CASE UNCHANGED vars
    BY <1>6 DEF vars, workflow, disk, locks, process, TypeInv, TypeOK, Held
  <1> QED
    BY <1>1, <1>2, <1>3, <1>4, <1>5, <1>6 DEF Next

\* Every reachable state is well typed, and a process past a check holds what
\* that check computed (state_store.py:244-320).
THEOREM TypeCorrect == Spec => [](TypeOK /\ Held)
  <1>1. Spec => []TypeInv
    BY TypeInit, TypeStep, PTL DEF Spec
  <1> QED
    BY <1>1, PTL DEF TypeInv

-----------------------------------------------------------------------------
(* Safety of the lineage.                                                   *)

Inv == TypeInv /\ StoreInvariant

LEMMA SafeInit == Init => StoreInvariant
  BY StoreAssumption
  DEF Init, StoreInvariant, Exclusive, Bound, Loaded, Recorded, LineageOnDisk,
      AtMostOnce, StoreAssumption, CriticalPCs, InitializePCs, CommitPCs

\* The receipt being prepared is never one that was already committed: its
\* number is one past theirs.
LEMMA DraftIsNew ==
    ASSUME Inv, NEW x \in Executors,
           pc[x] \in {"prepared", "staged", "renamed", "opened"}
    PROVE  /\ \A i \in DOMAIN commits : commits[i] # draft[x]
           /\ draft[x] # Origin
           /\ draft[x] \in Receipt
  <1>1. draft[x] \in Receipt
    BY DEF Inv, TypeInv, Held, CommitPCs
  <1>2. draft[x].before.generation = Len(commits)
    BY DEF Inv, StoreInvariant, Loaded, Recorded
  <1>3. \A i \in DOMAIN commits : commits[i].before.generation # Len(commits)
    BY DEF Inv, TypeInv, TypeOK, StoreInvariant, Recorded
  <1> QED
    BY <1>1, <1>2, <1>3, StoreAssumption DEF StoreAssumption

\* Ending an invocation disturbs nothing another process relies on.
LEMMA SafeFinish ==
    ASSUME Inv, NEW x \in Executors, NEW result \in {"none", "ok", "error"},
           Finish(x, result), UNCHANGED <<meta, pointer, stale, commits>>,
           \/ generations' = generations
           \/ pc[x] = "prepared" /\ generations' = generations \ {draft[x]}
    PROVE  StoreInvariant'
  <1> USE DEF Inv, StoreInvariant
  <1>1. /\ \A y \in Executors \ {x} : /\ pc'[y] = pc[y] /\ before'[y] = before[y]
                                      /\ draft'[y] = draft[y]
        /\ pc'[x] = "idle"
    BY DEF Finish, Goto, TypeInv, TypeOK
  <1>2. Exclusive'
    BY <1>1 DEF Exclusive, Finish, Unlock, CriticalPCs, InitializePCs, CommitPCs
  <1>3. \A i \in DOMAIN commits : commits[i] \in generations'
    BY DraftIsNew DEF LineageOnDisk
  <1>4. Origin \in generations => Origin \in generations'
    BY DraftIsNew
  <1>5. Bound'
    BY <1>1, <1>4 DEF Bound, InitializePCs
  <1>6. pc[x] = "prepared" => \A y \in Executors \ {x} : pc[y] \notin CriticalPCs
    BY DEF Exclusive, CriticalPCs, CommitPCs
  <1>7. Loaded'
    BY <1>1, <1>6 DEF Loaded, CriticalPCs, CommitPCs
  <1>8. Recorded'
    BY DEF Recorded, CommittedPlans, CommittedNonces
  <1>9. LineageOnDisk'
    BY <1>3, <1>4 DEF LineageOnDisk
  <1>10. AtMostOnce'
    BY DEF AtMostOnce
  <1> QED
    BY <1>2, <1>5, <1>7, <1>8, <1>9, <1>10

LEMMA SafeInitialize ==
    ASSUME Inv, NEW x \in Executors, Initialize(x)
    PROVE  StoreInvariant'
  <1> USE DEF Inv, StoreInvariant, workflow, disk, locks, Goto, Locked, TypeInv,
              TypeOK, CriticalPCs, InitializePCs, CommitPCs, Exclusive, Bound,
              Loaded, Recorded, LineageOnDisk, AtMostOnce
  <1>0. commits' = commits => /\ CommittedPlans' = CommittedPlans
                              /\ CommittedNonces' = CommittedNonces
    BY DEF CommittedPlans, CommittedNonces
  <1>1. CASE InitializeBound(x)
    BY <1>0, <1>1 DEF InitializeBound
  <1>2. CASE InitializeRefused(x)
    BY <1>2, SafeFinish DEF InitializeRefused
  <1>11. CASE InitializeForeign(x)
    BY <1>11, SafeFinish DEF InitializeForeign
  <1>3. CASE InitializeFresh(x)
    BY <1>0, <1>3, StoreAssumption DEF InitializeFresh, StoreAssumption
  <1>4. CASE PublishOrigin(x)
    BY <1>0, <1>4 DEF PublishOrigin
  <1>5. CASE OpenMeta(x)
    BY <1>0, <1>5 DEF OpenMeta, OpenTemporary
  <1>6. CASE TemporaryExists(x, "store", "published")
    BY <1>6, SafeFinish DEF TemporaryExists
  <1>7. CASE WriteMeta(x)
    BY <1>0, <1>7 DEF WriteMeta
  <1>8. CASE OpenOrigin(x)
    BY <1>0, <1>8 DEF OpenOrigin, OpenTemporary
  <1>9. CASE TemporaryExists(x, "current", "metaWritten")
    BY <1>9, SafeFinish DEF TemporaryExists
  <1>10. CASE PointToOrigin(x)
    <2>1. /\ pointer = None /\ pointer' = Origin /\ commits = <<>>
          /\ pc' = [pc EXCEPT ![x] = "execute"] /\ stateLock' = None
          /\ meta' /\ Origin \in generations' /\ stateLock = x
          /\ UNCHANGED <<generations, before, draft, commits, meta>>
      BY <1>10 DEF PointToOrigin
    <2>2. Recorded'
      <3>1. Len(commits) = 0 /\ DOMAIN commits = {}
        BY <2>1
      <3>2. CommittedPlans' = {} /\ CommittedNonces' = {}
        BY <2>1, <3>1 DEF CommittedPlans, CommittedNonces
      <3>3. StateOf(pointer)' =
              [generation |-> 0, executed |-> {}, consumed |-> {}]
        BY <2>1 DEF StateOf, InitialState
      <3>4. Origin # None
        BY StoreAssumption DEF StoreAssumption
      <3> QED
        BY <2>1, <3>1, <3>2, <3>3, <3>4
    <2>3. Exclusive'
      BY <2>1
    <2>4. \A y \in Executors \ {x} : pc[y] \notin CriticalPCs
      BY <2>1
    <2>5. Bound' /\ Loaded'
      BY <2>1, <2>4
    <2>6. LineageOnDisk' /\ AtMostOnce'
      BY <2>1
    <2> QED
      BY <2>2, <2>3, <2>5, <2>6
  <1> QED
    BY <1>1, <1>2, <1>3, <1>4, <1>5, <1>6, <1>7, <1>8, <1>9, <1>10, <1>11
    DEF Initialize

LEMMA SafeReplace ==
    ASSUME Inv, NEW x \in Executors, Replace(x)
    PROVE  StoreInvariant'
  <1> USE DEF Inv, StoreInvariant, TypeInv, TypeOK
  <1>1. /\ pc[x] = "opened" /\ stateLock = x /\ pointer # None
        /\ pc' = [pc EXCEPT ![x] = "replaced"]
        /\ pointer' = draft[x] /\ commits' = Append(commits, draft[x])
        /\ draft[x] \in Receipt /\ draft[x] # None
        /\ UNCHANGED <<meta, generations, stateLock, before, draft>>
        /\ draft[x] \in generations
    BY DraftIsNew, StoreAssumption
    DEF Replace, locks, Goto, Exclusive, Loaded, CriticalPCs, CommitPCs,
        StoreAssumption
  <1>2. /\ Len(commits') = Len(commits) + 1
        /\ commits'[Len(commits) + 1] = draft[x]
        /\ \A i \in DOMAIN commits : commits'[i] = commits[i]
        /\ DOMAIN commits' = DOMAIN commits \cup {Len(commits) + 1}
        /\ DOMAIN commits = 1 .. Len(commits)
        /\ Len(commits) \in Nat
        /\ commits' # <<>>
    BY <1>1
  <1>3. /\ draft[x].before = StateOf(pointer)
        /\ draft[x].plan \notin CommittedPlans
        /\ draft[x].nonce \notin CommittedNonces
        /\ draft[x].before.generation = Len(commits)
        /\ draft[x].before.executed = CommittedPlans
        /\ draft[x].before.consumed = CommittedNonces
    BY <1>1 DEF Loaded, Recorded
  <1>4. \A y \in Executors \ {x} : pc'[y] = pc[y] /\ pc[y] \notin CriticalPCs
    BY <1>1 DEF Exclusive
  <1>5. Exclusive'
    BY <1>1, <1>4 DEF Exclusive
  <1>6. Bound' /\ Loaded'
    BY <1>1, <1>4 DEF Bound, Loaded, CriticalPCs, InitializePCs, CommitPCs
  <1>7. AtMostOnce'
    BY <1>2, <1>3 DEF AtMostOnce, CommittedPlans, CommittedNonces
  <1>8. Recorded'
    <2>1. CommittedPlans' = CommittedPlans \cup {draft[x].plan}
      BY <1>2 DEF CommittedPlans
    <2>2. CommittedNonces' = CommittedNonces \cup {draft[x].nonce}
      BY <1>2 DEF CommittedNonces
    <2>3. StateOf(pointer)' =
            [generation |-> Len(commits) + 1,
             executed   |-> CommittedPlans \cup {draft[x].plan},
             consumed   |-> CommittedNonces \cup {draft[x].nonce}]
      BY <1>1, <1>3, StoreAssumption DEF StateOf, AfterState, StoreAssumption
    <2>4. \A i \in DOMAIN commits' : commits'[i].before.generation = i - 1
      BY <1>2, <1>3 DEF Recorded
    <2> QED
      BY <1>1, <1>2, <2>1, <2>2, <2>3, <2>4 DEF Recorded
  <1>9. LineageOnDisk'
    <2>1. \A i \in DOMAIN commits' : commits'[i] \in generations'
      BY <1>1, <1>2 DEF LineageOnDisk
    <2>2. draft[x].before = IF Len(commits) + 1 = 1 THEN InitialState
                            ELSE AfterState(commits[Len(commits)])
      <3>1. CASE commits = <<>>
        BY <1>2, <1>3, <3>1, <1>1 DEF Recorded, StateOf
      <3>2. CASE commits # <<>>
        <4>1. pointer = commits[Len(commits)] /\ Len(commits) # 0
              /\ Len(commits) \in DOMAIN commits
          BY <1>2, <3>2 DEF LineageOnDisk
        <4>2. pointer # Origin
          BY <4>1, StoreAssumption DEF StoreAssumption
        <4> QED
          BY <1>2, <1>3, <4>1, <4>2 DEF StateOf
      <3> QED
        BY <3>1, <3>2
    <2>3. \A i \in DOMAIN commits' :
            commits'[i].before = IF i = 1 THEN InitialState
                                 ELSE AfterState(commits'[i - 1])
      <3> SUFFICES ASSUME NEW i \in DOMAIN commits'
                   PROVE commits'[i].before = IF i = 1 THEN InitialState
                                              ELSE AfterState(commits'[i - 1])
        OBVIOUS
      <3>1. CASE i = Len(commits) + 1
        BY <1>2, <2>2, <3>1
      <3>2. CASE i \in DOMAIN commits
        <4>1. i = 1 \/ i - 1 \in DOMAIN commits
          BY <1>2, <3>2
        <4>2. commits'[i].before = IF i = 1 THEN InitialState
                                   ELSE AfterState(commits[i - 1])
          BY <1>2, <3>2 DEF LineageOnDisk
        <4> QED
          BY <1>2, <4>1, <4>2
      <3> QED
        BY <1>2, <3>1, <3>2
    <2> QED
      BY <1>1, <1>2, <2>1, <2>3 DEF LineageOnDisk
  <1> QED
    BY <1>5, <1>6, <1>7, <1>8, <1>9

LEMMA SafeExecute ==
    ASSUME Inv, NEW x \in Executors, Execute(x)
    PROVE  StoreInvariant'
  <1> USE DEF Inv, StoreInvariant, workflow, disk, locks, Goto, Locked, TypeInv,
              TypeOK, CriticalPCs, InitializePCs, CommitPCs, Exclusive, Bound,
              Loaded, Recorded, LineageOnDisk, AtMostOnce
  <1>0. commits' = commits => /\ CommittedPlans' = CommittedPlans
                              /\ CommittedNonces' = CommittedNonces
    BY DEF CommittedPlans, CommittedNonces
  <1>1. CASE Load(x)
    BY <1>0, <1>1, StoreAssumption DEF Load, StoreAssumption
  <1>2. CASE LoadRefused(x)
    BY <1>2, SafeFinish DEF LoadRefused
  <1>3. CASE LockApprovals(x)
    BY <1>0, <1>3 DEF LockApprovals
  <1>4. CASE Decide(x)
    BY <1>0, <1>4 DEF Decide, ExecutionAdmitted, ReceiptFor
  <1>5. CASE DecideRefused(x)
    BY <1>5, SafeFinish DEF DecideRefused
  <1>6. CASE Stage(x)
    <2>1. /\ \A i \in DOMAIN commits : commits[i] \in generations'
          /\ Origin \in generations => Origin \in generations'
      BY <1>6, DraftIsNew DEF Stage
    <2>2. \A y \in Executors \ {x} : pc[y] \notin CriticalPCs
      BY <1>6 DEF Stage
    <2> QED
      BY <1>0, <1>6, <2>1, <2>2 DEF Stage
  <1>8. CASE Rename(x)
    BY <1>0, <1>8 DEF Rename
  <1>9. CASE OpenPointer(x)
    BY <1>0, <1>9 DEF OpenPointer, OpenTemporary
  <1>10. CASE TemporaryExists(x, "current", "renamed")
    BY <1>10, SafeFinish DEF TemporaryExists
  <1>11. CASE Replace(x)
    BY <1>11, SafeReplace
  <1>12. CASE Return(x)
    BY <1>0, <1>12 DEF Return
  <1>13. CASE Export(x)
    BY <1>13, SafeFinish DEF Export
  <1> QED
    BY <1>1, <1>2, <1>3, <1>4, <1>5, <1>6, <1>8, <1>9, <1>10, <1>11,
       <1>12, <1>13
    DEF Execute

LEMMA SafeStep == Inv /\ [Next]_vars => StoreInvariant'
  <1> SUFFICES ASSUME Inv, [Next]_vars PROVE StoreInvariant'
    OBVIOUS
  <1> USE DEF Inv, workflow, disk, locks, process, CommittedPlans, CommittedNonces
  <1>1. CASE UNCHANGED <<disk, locks, process, commits>>
    BY <1>1 DEF StoreInvariant, Exclusive, Bound, Loaded, Recorded,
                LineageOnDisk, AtMostOnce
  <1>2. ASSUME NEW x \in Executors, NEW a \in [plan : Plans, ledger : Ledgers,
                    token : tokens, request : Requests], Begin(x, a)
        PROVE  StoreInvariant'
    BY <1>2
    DEF Begin, Goto, StoreInvariant, Exclusive, Bound, Loaded, Recorded,
        LineageOnDisk, AtMostOnce, TypeInv, TypeOK, CriticalPCs, InitializePCs,
        CommitPCs
  <1>3. ASSUME NEW x \in Executors, Initialize(x) PROVE StoreInvariant'
    BY <1>3, SafeInitialize
  <1>4. ASSUME NEW x \in Executors, Execute(x) PROVE StoreInvariant'
    BY <1>4, SafeExecute
  <1>5. ASSUME NEW x \in Executors, Fail(x) \/ Crash(x) PROVE StoreInvariant'
    BY <1>5, SafeFinish DEF Fail, Crash
  <1>6. Workflow => UNCHANGED <<disk, locks, process, commits>>
    BY DEF Workflow, BuildPlan, Record, Issue
  <1> QED
    BY <1>1, <1>2, <1>3, <1>4, <1>5, <1>6 DEF Next, vars

LEMMA Invariance == Spec => []Inv
  <1>1. Init => Inv
    BY TypeInit, SafeInit DEF Inv
  <1>2. Inv /\ [Next]_vars => Inv'
    BY TypeStep, SafeStep DEF Inv
  <1> QED
    BY <1>1, <1>2, PTL DEF Spec

\* No plan and no nonce is consumed twice along a lineage, however many
\* processes race, crash, fail and retry (state_store.py:229-320).
THEOREM ExecutedAtMostOnce == Spec => []AtMostOnce
  BY Invariance, PTL DEF Inv, StoreInvariant

\* The pointer always names the end of an unbroken chain of generations that
\* are all on disk, at every step of every interrupted attempt.
THEOREM LineageIsDurable == Spec => []LineageOnDisk
  BY Invariance, PTL DEF Inv, StoreInvariant

-----------------------------------------------------------------------------
(* Authority.                                                               *)

\* Decisions and bindings never change once made, and what a process is about
\* to commit is already as well authorised as a commit has to be.
WellFounded(r, ds, plans) ==
    /\ Authorised(r.plan, r.snapshot, ExecutedAt[r.request])
    /\ \E l \in Ledgers : r.snapshot \subseteq ds[l]
    /\ plans[r.plan] = r.before

Authority ==
    /\ \A l \in Ledgers : OneDecisionEach(decisions[l])
    /\ \A x \in Executors :
         pc[x] \in {"prepared", "staged", "renamed", "opened"}
           => WellFounded(draft[x], decisions, binding)
    /\ \A i \in DOMAIN commits : WellFounded(commits[i], decisions, binding)

\* The admission checks of one invocation establish all of it.
LEMMA AdmittedIsWellFounded ==
    ASSUME Inv, Authority, NEW x \in Executors, pc[x] = "deciding",
           ExecutionAdmitted(x)
    PROVE  WellFounded(ReceiptFor(x), decisions, binding)
  <1> DEFINE a == args[x]
             r == ReceiptFor(x)
  <1>1. /\ a \in Arguments /\ a.plan \in Plans /\ a.ledger \in Ledgers
        /\ a.request \in Requests /\ ExecutedAt[a.request] \in Instants
    BY StoreAssumption DEF Inv, TypeInv, Held, Arguments, StoreAssumption
  <1>2. decisions[a.ledger] \in SUBSET Decision
        /\ OneDecisionEach(decisions[a.ledger])
    BY <1>1 DEF Inv, TypeInv, TypeOK, Authority
  <1>3. EvaluateApproval(a.plan, decisions[a.ledger], ExecutedAt[a.request])
          = "approved"
    BY DEF ExecutionAdmitted, TokenAccepted
  <1>4. /\ r.plan = a.plan /\ r.request = a.request
        /\ r.snapshot = decisions[a.ledger] /\ r.before = before[x]
    BY DEF ReceiptFor
  <1>5. Authorised(a.plan, decisions[a.ledger], ExecutedAt[a.request])
    BY <1>1, <1>2, <1>3, ApprovedMeansQuorum
  <1>6. binding[r.plan] = r.before
    BY <1>4 DEF ExecutionAdmitted
  <1> QED
    BY <1>1, <1>4, <1>5, <1>6 DEF WellFounded

\* Only the workflow's own actions touch plans, decisions and tokens.
LEMMA ExecutorsLeaveWorkflow == [Next]_vars => Workflow \/ UNCHANGED workflow
  <1>1. ASSUME NEW x \in Executors, Initialize(x) PROVE UNCHANGED workflow
    BY <1>1
    DEF Initialize, InitializeBound, InitializeForeign, InitializeRefused,
        InitializeFresh,
        PublishOrigin, OpenMeta, OpenOrigin, OpenTemporary, TemporaryExists,
        WriteMeta, PointToOrigin
  <1>2. ASSUME NEW x \in Executors, Execute(x) PROVE UNCHANGED workflow
    BY <1>2
    DEF Execute, Load, LoadRefused, LockApprovals, Decide, DecideRefused, Stage,
        Rename, OpenPointer, OpenTemporary, TemporaryExists,
        Replace, Return, Export
  <1>3. ASSUME NEW x \in Executors, NEW a, Begin(x, a) \/ Fail(x) \/ Crash(x)
        PROVE  UNCHANGED workflow
    BY <1>3 DEF Begin, Fail, Crash
  <1>4. UNCHANGED vars => UNCHANGED workflow
    BY DEF vars
  <1> QED
    BY <1>1, <1>2, <1>3, <1>4 DEF Next

\* Nothing a receipt rests on is ever withdrawn.
LEMMA FoundationsPersist ==
    ASSUME Inv, [Next]_vars, NEW r \in Receipt, WellFounded(r, decisions, binding)
    PROVE  WellFounded(r, decisions', binding')
  <1>1. binding[r.plan] # None /\ r.plan \in Plans
    BY StoreAssumption DEF WellFounded, Receipt, StoreAssumption
  <1> DEFINE Kept == /\ \A l \in Ledgers : decisions[l] \subseteq decisions'[l]
                     /\ binding'[r.plan] = binding[r.plan]
  <1>2. Kept
    <2>1. ASSUME NEW p \in Plans, BuildPlan(p) PROVE Kept
      BY <1>1, <2>1 DEF BuildPlan, Inv, TypeInv, TypeOK
    <2>2. ASSUME NEW l \in Ledgers, NEW d \in Decision, Record(l, d) PROVE Kept
      BY <2>2 DEF Record, Inv, TypeInv, TypeOK
    <2>3. ASSUME NEW p, NEW l, NEW n, NEW at, Issue(p, l, n, at) PROVE Kept
      BY <2>3 DEF Issue
    <2>4. UNCHANGED workflow => Kept
      BY DEF workflow
    <2> QED
      BY <2>1, <2>2, <2>3, <2>4, ExecutorsLeaveWorkflow DEF Workflow
  <1> QED
    BY <1>1, <1>2 DEF WellFounded

LEMMA DecisionsStayDistinct ==
    ASSUME Inv, Authority, [Next]_vars
    PROVE  \A l \in Ledgers : OneDecisionEach(decisions'[l])
  <1>1. ASSUME NEW l \in Ledgers, NEW d \in Decision, Record(l, d)
        PROVE  \A k \in Ledgers : OneDecisionEach(decisions'[k])
    BY <1>1 DEF Record, Authority, OneDecisionEach, Inv, TypeInv, TypeOK
  <1>2. (\E l \in Ledgers, d \in Decision : Record(l, d)) \/ decisions' = decisions
    BY ExecutorsLeaveWorkflow DEF Workflow, workflow, BuildPlan, Issue
  <1> QED
    BY <1>1, <1>2 DEF Authority

\* What a process commits is the receipt its own Decide computed.
LEMMA DraftsComeFromDecide ==
    ASSUME Inv, [Next]_vars, NEW x \in Executors,
           pc'[x] \in {"prepared", "staged", "renamed", "opened"}
    PROVE  \/ /\ pc[x] \in {"prepared", "staged", "renamed", "opened"}
              /\ draft'[x] = draft[x]
           \/ /\ pc[x] = "deciding"
              /\ ExecutionAdmitted(x)
              /\ draft'[x] = ReceiptFor(x)
  <1> DEFINE Traced ==
          \/ /\ pc[x] \in {"prepared", "staged", "renamed", "opened"}
             /\ draft'[x] = draft[x]
          \/ /\ pc[x] = "deciding"
             /\ ExecutionAdmitted(x)
             /\ draft'[x] = ReceiptFor(x)
  <1> USE DEF Goto, Inv, TypeInv, TypeOK
  <1>1. ASSUME NEW y \in Executors, NEW result, Finish(y, result)
        PROVE  Traced
    BY <1>1 DEF Finish
  <1>2. ASSUME NEW y \in Executors, Initialize(y)
        PROVE  Traced
    BY <1>1, <1>2
    DEF Initialize, InitializeBound, InitializeForeign, InitializeRefused,
        InitializeFresh,
        PublishOrigin, OpenMeta, OpenOrigin, OpenTemporary, TemporaryExists,
        WriteMeta, PointToOrigin
  <1>3. ASSUME NEW y \in Executors, Execute(y)
        PROVE  Traced
    <2>1. CASE Decide(y)
      BY <2>1 DEF Decide
    <2>2. CASE Load(y) \/ LockApprovals(y)
      BY <2>2 DEF Load, LockApprovals
    <2>3. CASE Stage(y) \/ Rename(y) \/ OpenPointer(y) \/ Replace(y) \/ Return(y)
      BY <2>3 DEF Stage, Rename, OpenPointer, OpenTemporary, Replace, Return
    <2>4. CASE \/ LoadRefused(y) \/ DecideRefused(y)
               \/ TemporaryExists(y, "current", "renamed") \/ Export(y)
      BY <1>1, <2>4
      DEF LoadRefused, DecideRefused, TemporaryExists, Export
    <2> QED
      BY <1>3, <2>1, <2>2, <2>3, <2>4 DEF Execute
  <1>4. ASSUME NEW y \in Executors, Fail(y) \/ Crash(y)
        PROVE  Traced
    BY <1>1, <1>4 DEF Fail, Crash
  <1>5. ASSUME NEW y \in Executors, NEW b, Begin(y, b)
        PROVE  Traced
    BY <1>5 DEF Begin
  <1>6. Workflow \/ UNCHANGED vars => Traced
    BY DEF Workflow, BuildPlan, Record, Issue, process, vars
  <1> HIDE DEF Traced
  <1>7. Traced
    BY <1>2, <1>3, <1>4, <1>5, <1>6 DEF Next
  <1> QED
    BY <1>7 DEF Traced

LEMMA CommitsComeFromDrafts ==
    ASSUME Inv, [Next]_vars, commits' # commits
    PROVE  \E x \in Executors : pc[x] = "opened" /\ commits' = Append(commits, draft[x])
  <1>1. ASSUME NEW x \in Executors, Initialize(x) PROVE commits' = commits
    BY <1>1
    DEF Initialize, InitializeBound, InitializeForeign, InitializeRefused,
        InitializeFresh,
        PublishOrigin, OpenMeta, OpenOrigin, OpenTemporary, TemporaryExists,
        WriteMeta, PointToOrigin
  <1>2. ASSUME NEW x \in Executors, Execute(x)
        PROVE  commits' = commits
                 \/ (pc[x] = "opened" /\ commits' = Append(commits, draft[x]))
    BY <1>2
    DEF Execute, Load, LoadRefused, LockApprovals, Decide, DecideRefused, Stage,
        Rename, OpenPointer, OpenTemporary, TemporaryExists,
        Replace, Return, Export
  <1>3. ASSUME NEW x \in Executors, NEW a, Begin(x, a) \/ Fail(x) \/ Crash(x)
        PROVE  commits' = commits
    BY <1>3 DEF Begin, Fail, Crash
  <1>4. Workflow \/ UNCHANGED vars => commits' = commits
    BY DEF Workflow, BuildPlan, Record, Issue, vars
  <1> QED
    BY <1>1, <1>2, <1>3, <1>4 DEF Next

LEMMA AuthorityInit == Init => Authority
  BY DEF Init, Authority, OneDecisionEach

LEMMA AuthorityStep == Inv /\ Authority /\ [Next]_vars => Authority'
  <1> SUFFICES ASSUME Inv, Authority, [Next]_vars PROVE Authority'
    OBVIOUS
  <1>1. \A l \in Ledgers : OneDecisionEach(decisions'[l])
    BY DecisionsStayDistinct
  <1>2. ASSUME NEW x \in Executors,
               pc'[x] \in {"prepared", "staged", "renamed", "opened"}
        PROVE  WellFounded(draft'[x], decisions', binding')
    <2>1. CASE /\ pc[x] \in {"prepared", "staged", "renamed", "opened"}
               /\ draft'[x] = draft[x]
      <3>1. WellFounded(draft[x], decisions, binding) /\ draft[x] \in Receipt
        BY <2>1 DEF Authority, Inv, TypeInv, Held, CommitPCs
      <3> QED
        BY <2>1, <3>1, FoundationsPersist
    <2>2. CASE /\ pc[x] = "deciding"
               /\ ExecutionAdmitted(x)
               /\ draft'[x] = ReceiptFor(x)
      <3>1. WellFounded(ReceiptFor(x), decisions, binding)
        BY <2>2, AdmittedIsWellFounded
      <3>2. ReceiptFor(x) \in Receipt
        BY <2>2, ReceiptForType DEF Inv
      <3> QED
        BY <2>2, <3>1, <3>2, FoundationsPersist
    <2> QED
      BY <1>2, <2>1, <2>2, DraftsComeFromDecide
  <1>3. ASSUME NEW i \in DOMAIN commits'
        PROVE  WellFounded(commits'[i], decisions', binding')
    <2>1. /\ \A k \in DOMAIN commits : commits[k] \in Receipt
          /\ commits \in Seq(Receipt)
      BY DEF Inv, TypeInv, TypeOK
    <2>2. \A k \in DOMAIN commits : WellFounded(commits[k], decisions', binding')
      BY <2>1, FoundationsPersist DEF Authority
    <2>3. ASSUME NEW x \in Executors, pc[x] = "opened",
                 commits' = Append(commits, draft[x])
          PROVE  WellFounded(commits'[i], decisions', binding')
      <3>1. WellFounded(draft[x], decisions, binding) /\ draft[x] \in Receipt
        BY <2>3 DEF Authority, Inv, TypeInv, Held, CommitPCs
      <3>2. WellFounded(draft[x], decisions', binding')
        BY <3>1, FoundationsPersist
      <3>3. (i \in DOMAIN commits /\ commits'[i] = commits[i])
              \/ commits'[i] = draft[x]
        BY <2>1, <2>3, <3>1
      <3> QED
        BY <2>2, <3>2, <3>3
    <2> QED
      BY <1>3, <2>2, <2>3, CommitsComeFromDrafts
  <1> QED
    BY <1>1, <1>2, <1>3 DEF Authority

\* Every execution the store ever commits was authorised by a quorum whose
\* decisions are still on record, on the very state its plan was built for
\* (state_store.py:261-273, executor.py:114-135, approval.py:205-274).
THEOREM OnlyAuthorisedExecutions == Spec => []CommittedWasAuthorised
  <1>1. Init => Inv /\ Authority
    BY TypeInit, SafeInit, AuthorityInit DEF Inv
  <1>2. Inv /\ Authority /\ [Next]_vars => Inv' /\ Authority'
    BY TypeStep, SafeStep, AuthorityStep DEF Inv
  <1>3. Authority => CommittedWasAuthorised
    BY DEF Authority, WellFounded, CommittedWasAuthorised
  <1> QED
    BY <1>1, <1>2, <1>3, PTL DEF Spec

-----------------------------------------------------------------------------
(* Refinement.                                                              *)

\* The pointer file is written at two places only.
LEMMA PointerMoves ==
    ASSUME [Next]_vars, pointer' # pointer
    PROVE  \E x \in Executors : PointToOrigin(x) \/ Replace(x)
  <1>1. ASSUME NEW x \in Executors, Initialize(x)
        PROVE  PointToOrigin(x) \/ pointer' = pointer
    BY <1>1
    DEF Initialize, InitializeBound, InitializeForeign, InitializeRefused,
        InitializeFresh, disk,
        PublishOrigin, OpenMeta, OpenOrigin, OpenTemporary, TemporaryExists,
        WriteMeta
  <1>2. ASSUME NEW x \in Executors, Execute(x)
        PROVE  Replace(x) \/ pointer' = pointer
    BY <1>2
    DEF Execute, Load, LoadRefused, LockApprovals, Decide, DecideRefused, Stage,
        Rename, OpenPointer, OpenTemporary, TemporaryExists,
        Return, Export, disk
  <1>3. ASSUME NEW x \in Executors, NEW a, Begin(x, a) \/ Fail(x) \/ Crash(x)
        PROVE  pointer' = pointer
    BY <1>3 DEF Begin, Fail, Crash, disk
  <1>4. Workflow \/ UNCHANGED vars => pointer' = pointer
    BY DEF Workflow, BuildPlan, Record, Issue, vars, disk
  <1> QED
    BY <1>1, <1>2, <1>3, <1>4 DEF Next

LEMMA RegisterStep ==
    ASSUME Inv, [Next]_vars
    PROVE  [Lineage!Next]_CurrentState
  <1> USE DEF Inv, TypeInv, TypeOK, StoreInvariant
  <1>1. CASE pointer' = pointer
    BY <1>1 DEF CurrentState
  <1>2. ASSUME NEW x \in Executors, PointToOrigin(x)
        PROVE  Lineage!Next
    <2>1. pointer = None /\ pointer' = Origin /\ Origin # None
      BY <1>2, StoreAssumption
      DEF PointToOrigin, Bound, InitializePCs, StoreAssumption
    <2>2. CurrentState = None
          /\ CurrentState' = [generation |-> 0, executed |-> {}, consumed |-> {}]
      BY <2>1 DEF CurrentState, StateOf, InitialState
    <2> QED
      BY <2>2 DEF Lineage!Next, Lineage!Bind
  <1>3. ASSUME NEW x \in Executors, Replace(x)
        PROVE  Lineage!Next
    <2>1. /\ pc[x] = "opened" /\ pointer # None /\ pointer' = draft[x]
          /\ draft[x] \in Receipt /\ draft[x] # None /\ draft[x] # Origin
          /\ draft[x].plan \in Plans /\ draft[x].nonce \in Nonces
          /\ draft[x].before = StateOf(pointer)
          /\ draft[x].plan \notin StateOf(pointer).executed
          /\ draft[x].nonce \notin StateOf(pointer).consumed
      BY <1>3, DraftIsNew, StoreAssumption
      DEF Replace, Loaded, Receipt, StoreAssumption
    <2>2. StateOf(pointer) \in ControlState /\ StateOf(pointer) # None
      BY <2>1, StateOfType, StoreAssumption DEF StoreAssumption
    <2>3. CurrentState = StateOf(pointer) /\ CurrentState' = AfterState(draft[x])
      BY <2>1 DEF CurrentState, StateOf
    <2>4. Lineage!Consume(draft[x].plan, draft[x].nonce)
      BY <2>1, <2>2, <2>3 DEF Lineage!Consume, AfterState
    <2> QED
      BY <2>1, <2>4 DEF Lineage!Next
  <1> QED
    BY <1>1, <1>2, <1>3, PointerMoves

\* The store, with all its processes, files and faults, behaves as one register
\* that consumes a fresh plan and a fresh nonce at each step
\* (state_store.py:89-95).
THEOREM StoreImplementsLineage == Spec => ImplementsLineage
  <1>1. Init => Lineage!Init
    BY DEF Init, Lineage!Init, CurrentState
  <1>2. Inv /\ [Next]_vars => [Lineage!Next]_CurrentState
    BY RegisterStep
  <1> QED
    BY <1>1, <1>2, Invariance, PTL DEF Spec, Lineage!Spec, ImplementsLineage

=============================================================================
