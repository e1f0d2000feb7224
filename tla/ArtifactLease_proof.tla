------------------------- MODULE ArtifactLease_proof -------------------------
(***************************************************************************)
(* Proofs about the artifact leases, for any number of processes, roots    *)
(* and directories and any sharing of domains and gates: leases exclude,   *)
(* writers are not overtaken, and, when no operation reads two roots of a  *)
(* domain, reads are of one cut.                                           *)
(***************************************************************************)
EXTENDS ArtifactLease, TLAPS

-----------------------------------------------------------------------------
(* Types.                                                                    *)

LEMMA InitTypes == Init => TypeOK
  <1>. SUFFICES ASSUME Init PROVE TypeOK
    OBVIOUS
  <1>1. (CHOOSE t \in Trees : TRUE) \in Trees
    BY LeaseAssumption
  <1>2. tree \in [Roots -> Trees] /\ leaseFile \in [Roots -> 0 .. MaxReplacements]
    BY <1>1, LeaseAssumption DEF Init
  <1>3. recorded \in [Roots -> 0 .. MaxReplacements \cup {None}]
    BY DEF Init
  <1>4. /\ gates \in [Processes -> SUBSET Directories]
        /\ shared \in [Processes -> SUBSET Directories]
        /\ exclusive \in [Processes -> SUBSET Directories]
    BY DEF Init
  <1>5. /\ todo \in [Processes -> SUBSET Roots]
        /\ held \in [Processes -> SUBSET Roots]
        /\ opened \in [Processes -> [Roots -> 0 .. MaxReplacements \cup {None}]]
        /\ changed \in [Processes -> BOOLEAN]
        /\ anchor \in [Processes -> [Roots -> Trees \cup {None}]]
    BY DEF Init
  <1>6. /\ pc \in [Processes -> PCs]
        /\ op \in [Processes -> [write : Roots \cup {None}, reads : SUBSET Roots]]
        /\ faults \in 0 .. MaxFaults
    BY LeaseAssumption DEF Init, PCs, NoOperation
  <1>. QED
    BY <1>2, <1>3, <1>4, <1>5, <1>6 DEF TypeOK

\* The steps of one operation keep the types.
LEMMA StepTypes ==
    ASSUME TypeOK, NEW p \in Processes, Step(p) \/ PassGate(p)
    PROVE  TypeOK'
  <1>. USE LeaseAssumption DEF TypeOK, Goto, disk, locks, lease, PCs, EnteringPCs, Domain, Gate
  <1>1. ASSUME NEW r \in Roots, Prepare(p, r) PROVE TypeOK'
    BY <1>1 DEF Prepare
  <1>2. ASSUME NEW r \in Roots, Reenter(p, r) PROVE TypeOK'
    BY <1>2 DEF Reenter, AfterEntering
  <1>3. ASSUME NEW r \in Roots, Drain(p, r) PROVE TypeOK'
    BY <1>3 DEF Drain
  <1>4. ASSUME NEW r \in Roots, OpenLease(p, r) PROVE TypeOK'
    BY <1>4 DEF OpenLease
  <1>5. ASSUME NEW r \in Roots, Enter(p, r) PROVE TypeOK'
    <2>d. Domain(r) \in Directories
      BY DEF Domain
    <2>1. exclusive' \in [Processes -> SUBSET Directories] /\ shared' \in [Processes -> SUBSET Directories]
      <3>1. \/ exclusive' = [exclusive EXCEPT ![p] = @ \cup {Domain(r)}] /\ shared' = shared
            \/ shared' = [shared EXCEPT ![p] = @ \cup {Domain(r)}] /\ exclusive' = exclusive
        BY <1>5, Zenon DEF Enter
      <3>2. CASE exclusive' = [exclusive EXCEPT ![p] = @ \cup {Domain(r)}] /\ shared' = shared
        BY <2>d, <3>2
      <3>3. CASE shared' = [shared EXCEPT ![p] = @ \cup {Domain(r)}] /\ exclusive' = exclusive
        BY <2>d, <3>3
      <3>. QED
        BY <3>1, <3>2, <3>3, Zenon
    <2>2. /\ UNCHANGED <<tree, leaseFile, recorded, gates, todo, held, opened, changed, anchor, op, faults>>
          /\ pc' = [pc EXCEPT ![p] = "confirm"]
      BY <1>5 DEF Enter
    <2>. QED
      BY <2>1, <2>2
  <1>6. ASSUME NEW r \in Roots, Confirm(p, r) PROVE TypeOK'
    <2>1. recorded' \in [Roots -> 0 .. MaxReplacements \cup {None}]
      BY <1>6 DEF Confirm
    <2>2. exclusive' \in [Processes -> SUBSET Directories]
      BY <1>6 DEF Confirm
    <2>3. /\ UNCHANGED <<tree, leaseFile, gates, shared, todo, held, opened, changed, anchor, op, faults>>
          /\ pc' \in [Processes -> PCs]
      BY <1>6 DEF Confirm
    <2>. QED
      BY <2>1, <2>2, <2>3
  <1>16. ASSUME NEW r \in Roots, Downgrade(p, r) PROVE TypeOK'
    <2>1. Domain(r) \in Directories
      OBVIOUS
    <2>2. shared' \in [Processes -> SUBSET Directories]
      BY <1>16, <2>1 DEF Downgrade
    <2>3. /\ UNCHANGED <<tree, leaseFile, recorded, gates, exclusive, todo, held, opened, changed, anchor, op, faults>>
          /\ pc' = [pc EXCEPT ![p] = "data"]
      BY <1>16 DEF Downgrade
    <2>. QED
      BY <2>2, <2>3
  <1>7. ASSUME NEW r \in Roots, LockData(p, r) PROVE TypeOK'
    <2>1. anchor' \in [Processes -> [Roots -> Trees \cup {None}]]
      BY <1>7 DEF LockData, CurrentAnchor
    <2>2. gates' \in [Processes -> SUBSET Directories]
      BY <1>7 DEF LockData
    <2>3. pc' \in [Processes -> PCs]
      BY <1>7 DEF LockData, AfterEntering
    <2>. QED
      BY <1>7, <2>1, <2>2, <2>3 DEF LockData
  <1>8. ASSUME NEW r \in Roots, LeaseReplaced(p, r) PROVE TypeOK'
    BY <1>8 DEF LeaseReplaced, DropEntering
  <1>9. ASSUME NEW r \in Roots, ReleaseRead(p, r) PROVE TypeOK'
    BY <1>9 DEF ReleaseRead
  <1>10. CASE EndRead(p)
    BY <1>10 DEF EndRead
  <1>11. CASE DoneReading(p)
    <2>1. op' \in [Processes -> [write : Roots \cup {None}, reads : SUBSET Roots]]
      <3>1. \/ op' = [op EXCEPT ![p] = NoOperation]
            \/ op' = [op EXCEPT ![p] = [write |-> @.write, reads |-> {}]]
        BY <1>11, Zenon DEF DoneReading, Finish
      <3>2. CASE op' = [op EXCEPT ![p] = NoOperation]
        BY <3>2 DEF NoOperation
      <3>3. CASE op' = [op EXCEPT ![p] = [write |-> @.write, reads |-> {}]]
        BY <3>3
      <3>. QED
        BY <3>1, <3>2, <3>3, Zenon
    <2>2. CASE Finish(p)
      BY <1>11, <2>1, <2>2 DEF DoneReading, Finish
    <2>3. CASE UNCHANGED lease /\ pc' = [pc EXCEPT ![p] = "publishing"]
      BY <1>11, <2>1, <2>3 DEF DoneReading
    <2>. QED
      BY <1>11, <2>2, <2>3 DEF DoneReading
  <1>12. CASE StartReads(p)
    BY <1>12 DEF StartReads
  <1>13. CASE Commit(p)
    <2>1. (CHOOSE t \in Unused(op[p].write) : TRUE) \in Trees
      BY <1>13 DEF Commit, Unused
    <2>2. tree' \in [Roots -> Trees]
      BY <1>13, <2>1 DEF Commit
    <2>3. /\ UNCHANGED <<leaseFile, recorded, gates, shared, exclusive, todo, held, opened, changed, anchor, op, faults>>
          /\ pc' = [pc EXCEPT ![p] = "committed"]
      BY <1>13 DEF Commit
    <2>. QED
      BY <2>2, <2>3
  <1>14. CASE ReleaseWrite(p)
    <2>1. /\ gates' \in [Processes -> SUBSET Directories]
          /\ shared' \in [Processes -> SUBSET Directories]
          /\ exclusive' \in [Processes -> SUBSET Directories]
      <3>1. \/ UNCHANGED locks
            \/ /\ gates' = [gates EXCEPT ![p] = @ \ {Gate(op[p].write)}]
               /\ exclusive' = [exclusive EXCEPT ![p] = @ \ {Domain(op[p].write)}]
               /\ shared' = shared
        BY <1>14, Zenon DEF ReleaseWrite
      <3>2. CASE UNCHANGED locks
        BY <3>2
      <3>3. CASE /\ gates' = [gates EXCEPT ![p] = @ \ {Gate(op[p].write)}]
                 /\ exclusive' = [exclusive EXCEPT ![p] = @ \ {Domain(op[p].write)}]
                 /\ shared' = shared
        BY <3>3
      <3>. QED
        BY <3>1, <3>2, <3>3, Zenon
    <2>. QED
      BY <1>14, <2>1 DEF ReleaseWrite, Finish, NoOperation
  <1>15. ASSUME NEW r \in Roots, TakeGate(p, r) PROVE TypeOK'
    BY <1>15 DEF TakeGate
  <1>. QED
    BY <1>1, <1>2, <1>3, <1>4, <1>5, <1>6, <1>7, <1>8, <1>9, <1>10, <1>11, <1>12,
       <1>13, <1>14, <1>15, <1>16 DEF Step, PassGate

LEMMA NextTypes == TypeOK /\ [Next]_vars => TypeOK'
  <1>. SUFFICES ASSUME TypeOK, [Next]_vars PROVE TypeOK'
    OBVIOUS
  <1>. USE LeaseAssumption DEF TypeOK, Goto, disk, locks, lease, PCs, EnteringPCs
  <1>1. ASSUME NEW p \in Processes, NEW o \in OperationsOf[p], BeginRead(p, o) PROVE TypeOK'
    BY <1>1 DEF BeginRead
  <1>2. ASSUME NEW p \in Processes, NEW o \in OperationsOf[p], BeginPublish(p, o) PROVE TypeOK'
    <2>1. o \in [write : Roots \cup {None}, reads : SUBSET Roots] /\ o.write \in Roots
      BY <1>2 DEF BeginPublish
    <2>2. todo' \in [Processes -> SUBSET Roots]
      BY <1>2, <2>1 DEF BeginPublish
    <2>. QED
      BY <1>2, <2>1, <2>2 DEF BeginPublish
  <1>3. ASSUME NEW p \in Processes, Fail(p) PROVE TypeOK'
    <2>1. /\ UNCHANGED <<disk, todo, held, changed, anchor, op>>
          /\ faults' \in 0 .. MaxFaults
          /\ pc' = [pc EXCEPT ![p] = "failing"]
      BY <1>3 DEF Fail
    <2>2. CASE UNCHANGED <<locks, opened>>
      BY <2>1, <2>2
    <2>3. ASSUME NEW r \in Roots, DropEntering(p, r) PROVE TypeOK'
      BY <2>1, <2>3 DEF DropEntering
    <2>. QED
      BY <1>3, <2>2, <2>3, Zenon DEF Fail
  <1>4. ASSUME NEW p \in Processes, Crash(p) PROVE TypeOK'
    BY <1>4 DEF Crash, Finish, NoOperation
  <1>5. ASSUME NEW r \in Roots, ReplaceLease(r) PROVE TypeOK'
    BY <1>5 DEF ReplaceLease
  <1>6. CASE UNCHANGED vars
    BY <1>6 DEF vars
  <1>. QED
    BY <1>1, <1>2, <1>3, <1>4, <1>5, <1>6, StepTypes DEF Next

\* Every variable keeps its type.
THEOREM TypeCorrect == Spec => []TypeOK
  BY InitTypes, NextTypes, PTL DEF Spec
-----------------------------------------------------------------------------
(* The lock invariant: what one process does leaves the others as they are,  *)
(* and the kernel grants no two locks that exclude each other.               *)

\* A step leaves the process q alone.
Same(q) ==
    /\ gates'[q] = gates[q] /\ shared'[q] = shared[q] /\ exclusive'[q] = exclusive[q]
    /\ pc'[q] = pc[q] /\ op'[q] = op[q] /\ todo'[q] = todo[q] /\ held'[q] = held[q]
    /\ opened'[q] = opened[q] /\ changed'[q] = changed[q] /\ anchor'[q] = anchor[q]

Disciplined(p) == InOrder(p) /\ Holds(p) /\ Enters(p)

LEMMA SameStaysDisciplined ==
    ASSUME NEW q \in Processes, Disciplined(q), Same(q)
    PROVE  Disciplined(q)'
  <1>1. InOrder(q)'
    BY DEF Disciplined, Same, InOrder, HoldsWrite, OnlyWriteLeft, Writes
  <1>2. Holds(q)'
    BY DEF Disciplined, Same, Holds, Locked, Writes, Domain, Gate, Current
  <1>3. Enters(q)'
    BY DEF Disciplined, Same, Enters, Locked, Writes, Domain, Gate, Current
  <1>. QED
    BY <1>1, <1>2, <1>3 DEF Disciplined

LEMMA Locally ==
    ASSUME LockInvariant, TypeOK', NEW p \in Processes, Flocks',
           \A q \in Processes \ {p} : Same(q), Disciplined(p)'
    PROVE  LockInvariant'
  <1>1. \A q \in Processes \ {p} : Disciplined(q)'
    BY SameStaysDisciplined DEF LockInvariant, Disciplined
  <1>. QED
    BY <1>1 DEF LockInvariant, Disciplined

\* Giving up a lock, or making an exclusive one shared, excludes nobody.
LEMMA FlocksReleased ==
    ASSUME Flocks,
           \A q \in Processes :
             /\ gates'[q] \cup exclusive'[q] \subseteq gates[q] \cup exclusive[q]
             /\ shared'[q] \subseteq shared[q] \cup exclusive[q]
    PROVE  Flocks'
  BY DEF Flocks

\* A lock is granted exclusive when the directory is free ...
LEMMA FlocksTaken ==
    ASSUME TypeOK, Flocks, NEW p \in Processes, NEW d, Free(d), shared' = shared,
           \/ gates' = [gates EXCEPT ![p] = @ \cup {d}] /\ exclusive' = exclusive
           \/ exclusive' = [exclusive EXCEPT ![p] = @ \cup {d}] /\ gates' = gates
    PROVE  Flocks'
  <1>1. \A q \in Processes : d \notin gates[q] \cup exclusive[q] \cup shared[q]
    BY DEF Free, NotExclusive
  <1>2. CASE gates' = [gates EXCEPT ![p] = @ \cup {d}] /\ exclusive' = exclusive
    BY <1>1, <1>2 DEF Flocks, TypeOK
  <1>3. CASE exclusive' = [exclusive EXCEPT ![p] = @ \cup {d}] /\ gates' = gates
    BY <1>1, <1>3 DEF Flocks, TypeOK
  <1>. QED
    BY <1>2, <1>3

\* ... and shared when nobody has it exclusive.
LEMMA FlocksShared ==
    ASSUME TypeOK, Flocks, NEW p \in Processes, NEW d, NotExclusive(d),
           gates' = gates, exclusive' = exclusive,
           shared' = [shared EXCEPT ![p] = @ \cup {d}]
    PROVE  Flocks'
  <1>1. \A q \in Processes : d \notin gates[q] \cup exclusive[q]
    BY DEF NotExclusive
  <1>. QED
    BY <1>1 DEF Flocks, TypeOK

LEMMA InitLocks == Init => LockInvariant
  <1>. SUFFICES ASSUME Init PROVE LockInvariant
    OBVIOUS
  <1>1. Flocks
    BY DEF Init, Flocks
  <1>2. ASSUME NEW p \in Processes PROVE InOrder(p) /\ Holds(p) /\ Enters(p)
    BY LeaseAssumption DEF Init, InOrder, Holds, Enters, NoOperation, EnteringPCs
  <1>. QED
    BY <1>1, <1>2, InitTypes DEF LockInvariant

-----------------------------------------------------------------------------
(* Before the leases.                                                        *)

LEMMA BeginReadLocks ==
    ASSUME LockInvariant, TypeOK', NEW p \in Processes, NEW o \in OperationsOf[p],
           BeginRead(p, o)
    PROVE  LockInvariant'
  <1>1. /\ pc'[p] = "prepare" /\ op'[p] = o /\ todo'[p] = o.reads
        /\ held'[p] = held[p] /\ opened'[p] = opened[p]
        /\ gates'[p] = gates[p] /\ shared'[p] = shared[p] /\ exclusive'[p] = exclusive[p]
    BY DEF BeginRead, LockInvariant, TypeOK, Goto, locks
  <1>2. held[p] = {} /\ pc[p] = "idle"
    BY DEF BeginRead, LockInvariant, InOrder
  <1>3. \A q \in Processes \ {p} : Same(q)
    BY DEF BeginRead, LockInvariant, TypeOK, Goto, locks, Same
  <1>4. Flocks'
    BY DEF LockInvariant, Flocks, BeginRead, locks
  <1>5. InOrder(p)'
    BY <1>1, <1>2, LeaseAssumption DEF InOrder, OnlyWriteLeft, BeginRead, EnteringPCs
  <1>6. Holds(p)' /\ Enters(p)'
    BY <1>1, <1>2 DEF LockInvariant, Holds, Enters, EnteringPCs
  <1>. QED
    BY <1>3, <1>4, <1>5, <1>6, Locally DEF Disciplined

LEMMA BeginPublishLocks ==
    ASSUME LockInvariant, TypeOK', NEW p \in Processes, NEW o \in OperationsOf[p],
           BeginPublish(p, o)
    PROVE  LockInvariant'
  <1>1. /\ pc'[p] = "turnstile" /\ op'[p] = o /\ todo'[p] = {o.write}
        /\ held'[p] = held[p] /\ opened'[p] = opened[p] /\ anchor'[p] = anchor[p]
        /\ gates'[p] = gates[p] /\ shared'[p] = shared[p] /\ exclusive'[p] = exclusive[p]
    BY DEF BeginPublish, LockInvariant, TypeOK, Goto, locks
  <1>2. held[p] = {} /\ pc[p] = "idle" /\ anchor[p] = [r \in Roots |-> None]
    BY DEF BeginPublish, LockInvariant, InOrder
  <1>3. \A q \in Processes \ {p} : Same(q)
    BY DEF BeginPublish, LockInvariant, TypeOK, Goto, locks, Same
  <1>4. Flocks'
    BY DEF LockInvariant, Flocks, BeginPublish, locks
  <1>5. InOrder(p)'
    BY <1>1, <1>2, LeaseAssumption DEF InOrder, OnlyWriteLeft, BeginPublish, EnteringPCs
  <1>6. Holds(p)' /\ Enters(p)'
    BY <1>1, <1>2 DEF LockInvariant, Holds, Enters, EnteringPCs
  <1>. QED
    BY <1>3, <1>4, <1>5, <1>6, Locally DEF Disciplined

\* There is one first lease.
LEMMA OneCurrent ==
    ASSUME TypeOK, NEW p \in Processes, NEW r, NEW s, Current(p, r), Current(p, s)
    PROVE  r = s
  BY LeaseAssumption DEF TypeOK, Current

LEMMA PrepareLocks ==
    ASSUME LockInvariant, TypeOK', NEW p \in Processes, NEW r \in Roots, Prepare(p, r)
    PROVE  LockInvariant'
  <1>1. /\ pc[p] = "prepare" /\ pc'[p] \in {"prepare", "turnstile"}
        /\ op'[p] = op[p] /\ todo'[p] = todo[p] /\ held'[p] = held[p] /\ opened'[p] = opened[p]
        /\ gates'[p] = gates[p] /\ shared'[p] = shared[p] /\ exclusive'[p] = exclusive[p]
    BY DEF Prepare, LockInvariant, TypeOK, Goto, locks
  <1>2. /\ OnlyWriteLeft(p) /\ todo[p] = op[p].reads
        /\ op[p].write = None \/ HoldsWrite(p)
    BY <1>1 DEF LockInvariant, InOrder
  <1>3. \A q \in Processes \ {p} : Same(q)
    BY DEF Prepare, LockInvariant, TypeOK, Goto, locks, Same
  <1>4. Flocks'
    BY DEF LockInvariant, Flocks, Prepare, locks
  <1>5. InOrder(p)'
    BY <1>1, <1>2 DEF LockInvariant, InOrder, OnlyWriteLeft, Writes, HoldsWrite, EnteringPCs
  <1>6. Holds(p)'
    BY <1>1 DEF LockInvariant, Holds, Locked, Writes
  <1>7. Enters(p)'
    BY <1>1 DEF Enters, EnteringPCs
  <1>. QED
    BY <1>3, <1>4, <1>5, <1>6, <1>7, Locally DEF Disciplined

-----------------------------------------------------------------------------
(* Entering a lease.                                                         *)

LEMMA ReenterLocks ==
    ASSUME LockInvariant, TypeOK', NEW p \in Processes, NEW r \in Roots, Reenter(p, r)
    PROVE  LockInvariant'
  <1>1. /\ pc[p] = "turnstile" /\ pc'[p] = AfterEntering(p, r)
        /\ op'[p] = op[p] /\ opened'[p] = opened[p]
        /\ todo'[p] = todo[p] \ {r} /\ held'[p] = held[p] \cup {r}
        /\ gates'[p] = gates[p] /\ shared'[p] = shared[p] /\ exclusive'[p] = exclusive[p]
        /\ Current(p, r) /\ Locked(p, Domain(r))
    BY DEF Reenter, LockInvariant, TypeOK, Goto, locks
  <1>2. /\ op[p].write = None \/ HoldsWrite(p)
        /\ todo[p] \cap held[p] = {} /\ todo[p] \subseteq op[p].reads
        /\ op[p].reads \subseteq held[p] \cup todo[p]
        /\ \A s \in held[p], t \in todo[p] : Writes(p, s) \/ s < t
    BY <1>1 DEF LockInvariant, InOrder, Locked
  <1>3. /\ r \in op[p].reads /\ ~Writes(p, r) /\ r \notin held[p]
        /\ pc'[p] = IF todo[p] = {r} THEN "reading" ELSE "turnstile"
    BY <1>1, <1>2 DEF LockInvariant, InOrder, Current, Writes, AfterEntering
  <1>4. opened[p][r] = None
    BY <1>1, <1>3 DEF LockInvariant, Holds
  <1>5. \A q \in Processes \ {p} : Same(q)
    BY DEF Reenter, LockInvariant, TypeOK, Goto, locks, Same
  <1>6. Flocks'
    BY DEF LockInvariant, Flocks, Reenter, locks
  <1>7. InOrder(p)'
    <2>1. \A s \in held'[p], t \in todo'[p] : (Writes(p, s) \/ s < t)
      <3>1. ASSUME NEW t \in todo'[p] PROVE r < t
        <4>1. t \in todo[p] /\ t # r
          BY <1>1, <3>1
        <4>2. r \in todo[p] /\ r =< t
          BY <1>1, <4>1 DEF Current
        <4>3. todo[p] \subseteq Nat
          BY LeaseAssumption DEF LockInvariant, TypeOK
        <4>. QED
          BY <4>1, <4>2, <4>3
      <3>. QED
        BY <1>1, <1>2, <3>1
    <2>. QED
      BY <1>1, <1>2, <1>3, <2>1
      DEF LockInvariant, InOrder, OnlyWriteLeft, Writes, HoldsWrite, EnteringPCs
  <1>8. Holds(p)'
    <2>1. \A s \in held'[p] : Locked(p, Domain(s))'
      BY <1>1, <1>3 DEF LockInvariant, Holds, Locked, Domain
    <2>2. \A s, t \in held'[p] :
            (s # t /\ Domain(s) = Domain(t) /\ opened[p][s] # None) =>
              (Writes(p, s) \/ (~Writes(p, t) /\ s < t))
      BY <1>1, <1>2, <1>3, <1>4 DEF LockInvariant, Holds, Current
    <2>. QED
      BY <1>1, <1>3, <1>4, <2>1, <2>2 DEF LockInvariant, Holds, Writes, Domain, Gate
  <1>9. Enters(p)'
    BY <1>3 DEF Enters, EnteringPCs
  <1>. QED
    BY <1>5, <1>6, <1>7, <1>8, <1>9, Locally DEF Disciplined

LEMMA TakeGateLocks ==
    ASSUME LockInvariant, TypeOK', NEW p \in Processes, NEW r \in Roots, TakeGate(p, r)
    PROVE  LockInvariant'
  <1>1. /\ pc[p] = "turnstile" /\ pc'[p] = IF Writes(p, r) THEN "drain" ELSE "open"
        /\ op'[p] = op[p] /\ opened'[p] = opened[p] /\ anchor'[p] = anchor[p]
        /\ todo'[p] = todo[p] /\ held'[p] = held[p]
        /\ gates'[p] = gates[p] \cup {Gate(r)}
        /\ shared'[p] = shared[p] /\ exclusive'[p] = exclusive[p]
        /\ Current(p, r) /\ ~Locked(p, Domain(r)) /\ Free(Gate(r))
    BY DEF TakeGate, LockInvariant, TypeOK, Goto, lease
  <1>2. \A q \in Processes \ {p} : Same(q)
    BY DEF TakeGate, LockInvariant, TypeOK, Goto, lease, Same
  <1>3. Flocks'
    BY FlocksTaken DEF LockInvariant, TakeGate
  <1>4. InOrder(p)'
    BY <1>1 DEF LockInvariant, InOrder, OnlyWriteLeft, Writes, HoldsWrite, EnteringPCs
  <1>5. Holds(p)'
    BY <1>1 DEF LockInvariant, Holds, Locked, Writes, Domain, Gate
  <1>6. Enters(p)'
    <2>1. \A s \in todo[p] : Current(p, s) => s = r
      BY <1>1, OneCurrent DEF LockInvariant
    <2>2. \A s \in held[p] : Writes(p, s) => Gate(s) # Gate(r)
      BY <1>1 DEF LockInvariant, Holds, Free, NotExclusive
    <2>3. ~Locked(p, Domain(r))' /\ \A s : Current(p, s)' <=> Current(p, s)
      BY <1>1 DEF Locked, Current, Domain
    <2>4. pc'[p] = "open" => ~Writes(p, r)
      BY <1>1
    <2>. QED
      BY <1>1, <2>1, <2>2, <2>3, <2>4 DEF Enters, Writes, Domain, Gate
  <1>. QED
    BY <1>2, <1>3, <1>4, <1>5, <1>6, Locally DEF Disciplined

\* At a control point inside acquire_body only one lease can be current: what
\* holds of it holds of the lease being entered.
LEMMA EnteringOne ==
    ASSUME LockInvariant, NEW p \in Processes, NEW r \in Roots, Current(p, r),
           pc[p] \in EnteringPCs
    PROVE  /\ r \in todo[p] /\ ~Locked(p, Domain(r)) /\ Gate(r) \in gates[p]
           /\ \A s \in todo[p] : Current(p, s) => s = r
           /\ r \notin held[p]
           /\ \A s \in held[p] : Domain(s) # Domain(r)
           /\ \A s \in held[p] : Writes(p, s) => Gate(s) # Gate(r)
           /\ \/ held[p] = {} /\ todo[p] = {r} /\ Writes(p, r)
              \/ /\ op[p].write = None \/ HoldsWrite(p)
                 /\ r \in op[p].reads /\ ~Writes(p, r)
                 /\ \A s \in held[p] : Writes(p, s) \/ s < r
  <1>1. r \in todo[p]
    BY DEF Current
  <1>2. \A s \in todo[p] : Current(p, s) => s = r
    BY OneCurrent DEF LockInvariant
  <1>3. \A s \in held[p] : Locked(p, Domain(s))
    BY DEF LockInvariant, Holds
  <1>4. /\ ~Locked(p, Domain(r)) /\ Gate(r) \in gates[p]
        /\ \A s \in held[p] : Writes(p, s) => Gate(s) # Gate(r)
    BY <1>1 DEF LockInvariant, Enters
  <1>5. \/ held[p] = {} /\ todo[p] = {r} /\ Writes(p, r)
        \/ /\ op[p].write = None \/ HoldsWrite(p)
           /\ r \in op[p].reads /\ ~Writes(p, r)
           /\ \A s \in held[p] : Writes(p, s) \/ s < r
    BY <1>1 DEF LockInvariant, InOrder, Writes
  <1>6. \A s \in held[p] : Domain(s) # Domain(r)
    BY <1>3, <1>4
  <1>. QED
    BY <1>1, <1>2, <1>4, <1>5, <1>6

\* Up to the data lock a step moves the process on and changes nothing that is
\* said about the leases it holds.
LEMMA StaysInOrder ==
    ASSUME LockInvariant, NEW p \in Processes, pc[p] \in EnteringPCs, pc'[p] \in EnteringPCs,
           op'[p] = op[p], todo'[p] = todo[p], held'[p] = held[p], anchor'[p] = anchor[p]
    PROVE  InOrder(p)'
  BY DEF LockInvariant, InOrder, OnlyWriteLeft, Writes, HoldsWrite, EnteringPCs

LEMMA DrainLocks ==
    ASSUME LockInvariant, TypeOK', NEW p \in Processes, NEW r \in Roots, Drain(p, r)
    PROVE  LockInvariant'
  <1>1. /\ pc[p] = "drain" /\ pc'[p] = "open"
        /\ op'[p] = op[p] /\ opened'[p] = opened[p] /\ anchor'[p] = anchor[p]
        /\ todo'[p] = todo[p] /\ held'[p] = held[p] /\ gates'[p] = gates[p]
        /\ shared'[p] = shared[p] /\ exclusive'[p] = exclusive[p] \cup {Domain(r)}
        /\ Current(p, r) /\ Free(Domain(r))
    BY DEF Drain, LockInvariant, TypeOK, Goto, lease
  <1>2. \A q \in Processes \ {p} : Same(q)
    BY DEF Drain, LockInvariant, TypeOK, Goto, lease, Same
  <1>3. Flocks'
    BY FlocksTaken DEF LockInvariant, Drain
  <1>4. InOrder(p)'
    BY <1>1, StaysInOrder DEF EnteringPCs
  <1>5. Holds(p)'
    BY <1>1 DEF LockInvariant, Holds, Locked, Writes, Domain, Gate
  <1>6. Enters(p)'
    <2>1. \A s \in todo[p] : Current(p, s) => s = r
      BY <1>1, EnteringOne DEF EnteringPCs
    <2>2. /\ ~Locked(p, Domain(r)) /\ Gate(r) \in gates[p]
          /\ \A s \in held[p] : Writes(p, s) => Gate(s) # Gate(r)
      BY <1>1, EnteringOne DEF EnteringPCs
    <2>3. ~Locked(p, Domain(r))' /\ \A s : Current(p, s)' <=> Current(p, s)
      BY <1>1, <2>2 DEF Locked, Current, Domain
    <2>. QED
      BY <1>1, <2>1, <2>2, <2>3 DEF Enters, Writes, Domain, Gate
  <1>. QED
    BY <1>2, <1>3, <1>4, <1>5, <1>6, Locally DEF Disciplined

LEMMA OpenLeaseLocks ==
    ASSUME LockInvariant, TypeOK', NEW p \in Processes, NEW r \in Roots, OpenLease(p, r)
    PROVE  LockInvariant'
  <1>1. /\ pc[p] = "open" /\ pc'[p] = IF Writes(p, r) THEN "confirm" ELSE "enter"
        /\ op'[p] = op[p] /\ anchor'[p] = anchor[p]
        /\ todo'[p] = todo[p] /\ held'[p] = held[p] /\ gates'[p] = gates[p]
        /\ shared'[p] = shared[p] /\ exclusive'[p] = exclusive[p]
        /\ Current(p, r) /\ opened'[p] = [opened[p] EXCEPT ![r] = leaseFile[r]]
    BY DEF OpenLease, LockInvariant, TypeOK, Goto, locks
  <1>2. \A q \in Processes \ {p} : Same(q)
    BY DEF OpenLease, LockInvariant, TypeOK, Goto, locks, Same
  <1>3. Flocks'
    BY DEF LockInvariant, Flocks, OpenLease, locks
  <1>4. InOrder(p)'
    BY <1>1, StaysInOrder DEF EnteringPCs
  <1>5. /\ r \in todo[p] /\ r \notin held[p] /\ ~Locked(p, Domain(r)) /\ Gate(r) \in gates[p]
        /\ \A s \in todo[p] : Current(p, s) => s = r
        /\ \A s \in held[p] : Writes(p, s) => Gate(s) # Gate(r)
    BY <1>1, EnteringOne DEF EnteringPCs
  <1>6. /\ \A s \in Roots : s # r => opened'[p][s] = opened[p][s]
        /\ opened'[p][r] # None
    BY <1>1, LeaseAssumption DEF LockInvariant, TypeOK
  <1>7. \A s : Current(p, s)' <=> Current(p, s)
    BY <1>1 DEF Current
  <1>8. \A s \in held[p] : s \in Roots
    BY DEF LockInvariant, TypeOK
  <1>9. \A d : Locked(p, d)' <=> Locked(p, d)
    BY <1>1, <1>5, <1>6, <1>8 DEF Locked, Domain
  <1>10. Holds(p)'
    <2>1. \A s \in Roots : opened'[p][s] # None =>
            s \in held'[p] \/ (pc'[p] \in {"enter", "confirm", "downgrade", "data"} /\ Current(p, s)')
      BY <1>1, <1>6, <1>7 DEF LockInvariant, Holds
    <2>2. \A s \in held'[p] : Locked(p, Domain(s))'
      BY <1>1, <1>9 DEF LockInvariant, Holds
    <2>. QED
      BY <1>1, <1>5, <1>6, <1>8, <2>1, <2>2 DEF LockInvariant, Holds, Writes, Domain, Gate
  <1>11. Enters(p)'
    <2>1. Writes(p, r) => Domain(r) \in exclusive[p]
      BY <1>1, <1>5 DEF LockInvariant, Enters, EnteringPCs
    <2>2. pc'[p] = "confirm" => Writes(p, r) /\ Domain(r) \in exclusive[p]
      BY <1>1, <2>1
    <2>. QED
      BY <1>1, <1>5, <1>6, <1>7, <1>9, <2>1, <2>2 DEF Enters, Writes, Domain, Gate
  <1>. QED
    BY <1>2, <1>3, <1>4, <1>10, <1>11, Locally DEF Disciplined

LEMMA EnterLocks ==
    ASSUME LockInvariant, TypeOK', NEW p \in Processes, NEW r \in Roots, Enter(p, r)
    PROVE  LockInvariant'
  <1>1. /\ pc[p] = "enter" /\ pc'[p] = "confirm"
        /\ op'[p] = op[p] /\ anchor'[p] = anchor[p] /\ opened'[p] = opened[p]
        /\ todo'[p] = todo[p] /\ held'[p] = held[p] /\ gates'[p] = gates[p]
        /\ gates' = gates /\ changed'[p] = changed[p] /\ Current(p, r)
    BY DEF Enter, LockInvariant, TypeOK, Goto, lease
  <1>2. \/ /\ changed[p] /\ Free(Domain(r)) /\ shared' = shared
           /\ exclusive' = [exclusive EXCEPT ![p] = @ \cup {Domain(r)}]
        \/ /\ ~changed[p] /\ NotExclusive(Domain(r)) /\ exclusive' = exclusive
           /\ shared' = [shared EXCEPT ![p] = @ \cup {Domain(r)}]
    BY Zenon DEF Enter
  <1>3. \A q \in Processes \ {p} : Same(q)
    <2>1. \A q \in Processes \ {p} : shared'[q] = shared[q] /\ exclusive'[q] = exclusive[q]
      BY <1>2 DEF LockInvariant, TypeOK
    <2>. QED
      BY <2>1 DEF Enter, LockInvariant, TypeOK, Goto, lease, Same
  <1>4. Flocks'
    BY <1>1, <1>2, FlocksTaken, FlocksShared DEF LockInvariant
  <1>5. InOrder(p)'
    BY <1>1, StaysInOrder DEF EnteringPCs
  <1>6. /\ shared[p] \subseteq shared'[p] /\ exclusive[p] \subseteq exclusive'[p]
        /\ changed[p] => Domain(r) \in exclusive'[p]
        /\ ~changed[p] => Domain(r) \in shared'[p]
    <2>1. CASE /\ changed[p] /\ Free(Domain(r)) /\ shared' = shared
               /\ exclusive' = [exclusive EXCEPT ![p] = @ \cup {Domain(r)}]
      <3>1. exclusive'[p] = exclusive[p] \cup {Domain(r)} /\ shared'[p] = shared[p]
        BY <2>1 DEF LockInvariant, TypeOK
      <3>. QED
        BY <2>1, <3>1, Zenon
    <2>2. CASE /\ ~changed[p] /\ NotExclusive(Domain(r)) /\ exclusive' = exclusive
               /\ shared' = [shared EXCEPT ![p] = @ \cup {Domain(r)}]
      <3>1. shared'[p] = shared[p] \cup {Domain(r)} /\ exclusive'[p] = exclusive[p]
        BY <2>2 DEF LockInvariant, TypeOK
      <3>. QED
        BY <2>2, <3>1, Zenon
    <2>. QED
      BY <1>2, <2>1, <2>2, Zenon
  <1>7. \A s : Current(p, s)' <=> Current(p, s)
    BY <1>1 DEF Current
  <1>8. \A d : Locked(p, d)' <=> Locked(p, d)
    BY <1>1 DEF Locked, Domain
  <1>9. Holds(p)'
    <2>1. \A s \in held'[p] : Locked(p, Domain(s))'
      BY <1>1, <1>8 DEF LockInvariant, Holds
    <2>. QED
      BY <1>1, <1>6, <1>7, <2>1 DEF LockInvariant, Holds, Writes, Domain, Gate
  <1>10. Enters(p)'
    <2>1. /\ ~Locked(p, Domain(r)) /\ Gate(r) \in gates[p] /\ r \in todo[p]
          /\ \A s \in todo[p] : Current(p, s) => s = r
          /\ \A s \in held[p] : Writes(p, s) => Gate(s) # Gate(r)
      BY <1>1, EnteringOne DEF EnteringPCs
    <2>2. opened[p][r] # None
      BY <1>1, <2>1 DEF LockInvariant, Enters, EnteringPCs
    <2>3. pc[p] = "enter" => ~Writes(p, r)
      BY <1>1, <2>1 DEF LockInvariant, Enters, EnteringPCs
    <2>. QED
      BY <1>1, <1>6, <1>7, <1>8, <2>1, <2>2, <2>3 DEF Enters, Writes, Domain, Gate
  <1>. QED
    BY <1>3, <1>4, <1>5, <1>9, <1>10, Locally DEF Disciplined

LEMMA ConfirmLocks ==
    ASSUME LockInvariant, TypeOK', NEW p \in Processes, NEW r \in Roots, Confirm(p, r)
    PROVE  LockInvariant'
  <1>1. /\ pc[p] = "confirm" /\ Current(p, r)
        /\ pc'[p] = IF changed[p] /\ ~Writes(p, r) THEN "downgrade" ELSE "data"
        /\ op'[p] = op[p] /\ anchor'[p] = anchor[p] /\ opened'[p] = opened[p]
        /\ todo'[p] = todo[p] /\ held'[p] = held[p] /\ gates'[p] = gates[p]
        /\ gates' = gates /\ shared' = shared /\ changed'[p] = changed[p]
    BY DEF Confirm, LockInvariant, TypeOK, Goto, lease
  <1>2. \/ /\ changed[p] /\ ~Writes(p, r)
           /\ exclusive' = [exclusive EXCEPT ![p] = @ \ {Domain(r)}]
        \/ ~(changed[p] /\ ~Writes(p, r)) /\ exclusive' = exclusive
    BY Zenon DEF Confirm
  <1>3. /\ r \in todo[p] /\ r \notin held[p] /\ ~Locked(p, Domain(r)) /\ Gate(r) \in gates[p]
        /\ \A s \in todo[p] : Current(p, s) => s = r
        /\ \A s \in held[p] : Domain(s) # Domain(r)
        /\ \A s \in held[p] : Writes(p, s) => Gate(s) # Gate(r)
    BY <1>1, EnteringOne DEF EnteringPCs
  <1>4. /\ opened[p][r] # None
        /\ Writes(p, r) => Domain(r) \in exclusive[p]
    BY <1>1, <1>3 DEF LockInvariant, Enters, EnteringPCs
  <1>5. ~changed[p] /\ ~Writes(p, r) => Domain(r) \in shared[p]
    BY <1>1, <1>3, Zenon DEF LockInvariant, Enters, EnteringPCs
  <1>6. /\ \A q \in Processes : /\ exclusive'[q] \subseteq exclusive[q]
                                /\ q # p => exclusive'[q] = exclusive[q]
        /\ exclusive[p] \ {Domain(r)} \subseteq exclusive'[p]
        /\ Writes(p, r) => exclusive'[p] = exclusive[p]
    <2>1. CASE /\ changed[p] /\ ~Writes(p, r)
               /\ exclusive' = [exclusive EXCEPT ![p] = @ \ {Domain(r)}]
      BY <2>1 DEF LockInvariant, TypeOK
    <2>2. CASE ~(changed[p] /\ ~Writes(p, r)) /\ exclusive' = exclusive
      BY <2>2
    <2>. QED
      BY <1>2, <2>1, <2>2, Zenon
  <1>7. \A q \in Processes \ {p} : Same(q)
    BY <1>1, <1>6 DEF Confirm, LockInvariant, TypeOK, Goto, lease, Same
  <1>8. Flocks'
    BY <1>1, <1>6, FlocksReleased DEF LockInvariant
  <1>9. InOrder(p)'
    BY <1>1, StaysInOrder DEF EnteringPCs
  <1>10. /\ \A s : Current(p, s)' <=> Current(p, s)
         /\ \A d : Locked(p, d)' <=> Locked(p, d)
    BY <1>1 DEF Current, Locked, Domain
  <1>11. Holds(p)'
    <2>1. \A s \in held'[p] : Locked(p, Domain(s))'
      BY <1>1, <1>10 DEF LockInvariant, Holds
    <2>. QED
      BY <1>1, <1>3, <1>6, <1>10, <2>1 DEF LockInvariant, Holds, Writes, Domain, Gate
  <1>12. Enters(p)'
    BY <1>1, <1>3, <1>4, <1>5, <1>6, <1>10 DEF Enters, Writes, Domain, Gate
  <1>. QED
    BY <1>7, <1>8, <1>9, <1>11, <1>12, Locally DEF Disciplined

\* The shared lock is taken behind the gate, with no lock on the domain.
LEMMA DowngradeLocks ==
    ASSUME LockInvariant, TypeOK', NEW p \in Processes, NEW r \in Roots, Downgrade(p, r)
    PROVE  LockInvariant'
  <1>1. /\ pc[p] = "downgrade" /\ pc'[p] = "data" /\ Current(p, r)
        /\ op'[p] = op[p] /\ anchor'[p] = anchor[p] /\ opened'[p] = opened[p]
        /\ todo'[p] = todo[p] /\ held'[p] = held[p] /\ gates'[p] = gates[p]
        /\ gates' = gates /\ exclusive' = exclusive /\ changed'[p] = changed[p]
        /\ NotExclusive(Domain(r)) /\ shared' = [shared EXCEPT ![p] = @ \cup {Domain(r)}]
        /\ shared'[p] = shared[p] \cup {Domain(r)}
    BY DEF Downgrade, LockInvariant, TypeOK, Goto, lease
  <1>2. /\ r \in todo[p] /\ ~Locked(p, Domain(r)) /\ Gate(r) \in gates[p]
        /\ \A s \in todo[p] : Current(p, s) => s = r
        /\ \A s \in held[p] : Writes(p, s) => Gate(s) # Gate(r)
    BY <1>1, EnteringOne DEF EnteringPCs
  <1>3. opened[p][r] # None /\ ~Writes(p, r)
    BY <1>1, <1>2 DEF LockInvariant, Enters, EnteringPCs
  <1>4. \A q \in Processes \ {p} : Same(q)
    BY <1>1 DEF Downgrade, LockInvariant, TypeOK, Goto, lease, Same
  <1>5. Flocks'
    BY <1>1, FlocksShared DEF LockInvariant
  <1>6. InOrder(p)'
    BY <1>1, StaysInOrder DEF EnteringPCs
  <1>7. /\ \A s : Current(p, s)' <=> Current(p, s)
        /\ \A d : Locked(p, d)' <=> Locked(p, d)
    BY <1>1 DEF Current, Locked, Domain
  <1>8. Holds(p)'
    <2>1. \A s \in held'[p] : Locked(p, Domain(s))'
      BY <1>1, <1>7 DEF LockInvariant, Holds
    <2>. QED
      BY <1>1, <1>7, <2>1 DEF LockInvariant, Holds, Writes, Domain, Gate
  <1>9. Enters(p)'
    BY <1>1, <1>2, <1>3, <1>7 DEF Enters, Writes, Domain, Gate
  <1>. QED
    BY <1>4, <1>5, <1>6, <1>8, <1>9, Locally DEF Disciplined

LEMMA LockDataLocks ==
    ASSUME LockInvariant, TypeOK', NEW p \in Processes, NEW r \in Roots, LockData(p, r)
    PROVE  LockInvariant'
  <1>1. /\ pc[p] = "data" /\ pc'[p] = AfterEntering(p, r)
        /\ op'[p] = op[p] /\ opened'[p] = opened[p]
        /\ todo'[p] = todo[p] \ {r} /\ held'[p] = held[p] \cup {r}
        /\ gates'[p] = IF Writes(p, r) THEN gates[p] ELSE gates[p] \ {Gate(r)}
        /\ shared'[p] = shared[p] /\ exclusive'[p] = exclusive[p]
        /\ Current(p, r)
    BY DEF LockData, LockInvariant, TypeOK, Goto, locks
  <1>2. /\ r \in todo[p] /\ r \notin held[p] /\ ~Locked(p, Domain(r)) /\ Gate(r) \in gates[p]
        /\ \A s \in held[p] : Domain(s) # Domain(r)
        /\ \A s \in held[p] : Writes(p, s) => Gate(s) # Gate(r)
        /\ \/ held[p] = {} /\ todo[p] = {r} /\ Writes(p, r)
           \/ /\ op[p].write = None \/ HoldsWrite(p)
              /\ r \in op[p].reads /\ ~Writes(p, r)
              /\ \A s \in held[p] : Writes(p, s) \/ s < r
    BY <1>1, EnteringOne DEF EnteringPCs
  <1>3. /\ opened[p][r] # None
        /\ Writes(p, r) => Domain(r) \in exclusive[p]
        /\ ~Writes(p, r) => Domain(r) \in shared[p]
    BY <1>1, <1>2 DEF LockInvariant, Enters, EnteringPCs
  <1>4. \A q \in Processes \ {p} : Same(q)
    BY DEF LockData, LockInvariant, TypeOK, Goto, locks, Same, CurrentAnchor
  <1>5. Flocks'
    <2>1. \A q \in Processes : /\ gates'[q] \subseteq gates[q]
                               /\ exclusive'[q] = exclusive[q] /\ shared'[q] = shared[q]
      BY DEF LockData, LockInvariant, TypeOK
    <2>. QED
      BY <2>1, FlocksReleased DEF LockInvariant
  <1>6. InOrder(p)'
    <2>1. CASE held[p] = {} /\ todo[p] = {r} /\ Writes(p, r)
      <3>1. pc'[p] = "publishing" /\ held'[p] = {op[p].write} /\ op[p].write # None
        BY <1>1, <2>1, LeaseAssumption DEF AfterEntering, Writes
      <3>. QED
        BY <1>1, <3>1 DEF LockInvariant, InOrder, HoldsWrite, EnteringPCs
    <2>2. CASE ~Writes(p, r)
      <3>1. /\ todo[p] \cap held[p] = {} /\ todo[p] \subseteq op[p].reads
            /\ op[p].reads \subseteq held[p] \cup todo[p]
            /\ \A s \in held[p], t \in todo[p] : Writes(p, s) \/ s < t
        BY <1>1, <1>2, <2>2 DEF LockInvariant, InOrder, EnteringPCs, Writes
      <3>2. \A t \in todo'[p] : r < t
        BY <1>1, LeaseAssumption DEF LockInvariant, TypeOK, Current
      <3>3. \A s \in held'[p], t \in todo'[p] : Writes(p, s) \/ s < t
        BY <1>1, <3>1, <3>2
      <3>4. pc'[p] = IF todo[p] = {r} THEN "reading" ELSE "turnstile"
        BY <1>1, <2>2 DEF AfterEntering
      <3>. QED
        BY <1>1, <1>2, <2>2, <3>1, <3>3, <3>4
        DEF LockInvariant, InOrder, OnlyWriteLeft, Writes, HoldsWrite, EnteringPCs
    <2>. QED
      BY <1>2, <2>1, <2>2
  <1>7. Holds(p)'
    <2>1. \A s \in held'[p] : Locked(p, Domain(s))'
      BY <1>1, <1>2, <1>3 DEF LockInvariant, Holds, Locked, Domain
    <2>2. \A s \in held'[p] : Writes(p, s) => Domain(s) \in exclusive'[p] /\ Gate(s) \in gates'[p]
      BY <1>1, <1>2, <1>3 DEF LockInvariant, Holds
    <2>3. \A s \in Roots : opened'[p][s] # None => s \in held'[p]
      BY <1>1, <1>2, OneCurrent DEF LockInvariant, Holds
    <2>. QED
      BY <1>1, <1>2, <1>3, <2>1, <2>2, <2>3 DEF LockInvariant, Holds, Writes, Domain, Gate
  <1>8. Enters(p)'
    BY <1>1 DEF Enters, EnteringPCs, AfterEntering
  <1>. QED
    BY <1>4, <1>5, <1>6, <1>7, <1>8, Locally DEF Disciplined

\* Giving up the lease being entered leaves those that are held.
LEMMA DropEnteringHolds ==
    ASSUME LockInvariant, NEW p \in Processes, NEW r \in Roots, Current(p, r),
           pc[p] \in EnteringPCs, DropEntering(p, r), pc'[p] = "failing",
           op'[p] = op[p], held'[p] = held[p]
    PROVE  Holds(p)' /\ InOrder(p)' /\ Enters(p)' /\ Flocks'
  <1>1. /\ gates'[p] = gates[p] \ {Gate(r)} /\ shared'[p] = shared[p] \ {Domain(r)}
        /\ exclusive'[p] = exclusive[p] \ {Domain(r)}
        /\ opened'[p] = [opened[p] EXCEPT ![r] = None]
    BY DEF DropEntering, LockInvariant, TypeOK
  <1>2. /\ r \in todo[p] /\ r \notin held[p]
        /\ \A s \in held[p] : Domain(s) # Domain(r)
        /\ \A s \in held[p] : Writes(p, s) => Gate(s) # Gate(r)
        /\ \A s \in todo[p] : Current(p, s) => s = r
    BY EnteringOne
  <1>3. /\ \A s \in Roots : s # r => opened'[p][s] = opened[p][s]
        /\ opened'[p][r] = None
        /\ \A s \in held[p] : s \in Roots
    BY <1>1 DEF LockInvariant, TypeOK
  <1>4. Holds(p)'
    <2>1. \A s \in held'[p] : Locked(p, Domain(s))'
      BY <1>2, <1>3 DEF LockInvariant, Holds, Locked, Domain
    <2>2. \A s \in Roots : opened'[p][s] # None => s \in held'[p]
      BY <1>2, <1>3 DEF LockInvariant, Holds, Current
    <2>. QED
      BY <1>1, <1>2, <1>3, <2>1, <2>2 DEF LockInvariant, Holds, Writes, Domain, Gate
  <1>5. InOrder(p)'
    BY DEF LockInvariant, InOrder, EnteringPCs
  <1>6. Enters(p)'
    BY DEF Enters, EnteringPCs
  <1>7. Flocks'
    <2>1. \A q \in Processes : /\ gates'[q] \subseteq gates[q]
                               /\ exclusive'[q] \subseteq exclusive[q] /\ shared'[q] \subseteq shared[q]
      BY DEF DropEntering, LockInvariant, TypeOK
    <2>. QED
      BY <2>1, FlocksReleased DEF LockInvariant
  <1>. QED
    BY <1>4, <1>5, <1>6, <1>7

LEMMA LeaseReplacedLocks ==
    ASSUME LockInvariant, TypeOK', NEW p \in Processes, NEW r \in Roots, LeaseReplaced(p, r)
    PROVE  LockInvariant'
  <1>1. /\ pc[p] \in EnteringPCs /\ pc'[p] = "failing" /\ Current(p, r)
        /\ op'[p] = op[p] /\ held'[p] = held[p] /\ DropEntering(p, r)
    BY DEF LeaseReplaced, LockInvariant, TypeOK, Goto, EnteringPCs
  <1>2. \A q \in Processes \ {p} : Same(q)
    BY DEF LeaseReplaced, DropEntering, LockInvariant, TypeOK, Goto, Same
  <1>. QED
    BY <1>1, <1>2, DropEnteringHolds, Locally DEF Disciplined

-----------------------------------------------------------------------------
(* The protected read, and releases.                                         *)

LEMMA EndReadLocks ==
    ASSUME LockInvariant, TypeOK', NEW p \in Processes, EndRead(p)
    PROVE  LockInvariant'
  <1>1. /\ pc[p] = "reading" /\ pc'[p] = "leaving"
        /\ op'[p] = op[p] /\ opened'[p] = opened[p] /\ todo'[p] = todo[p] /\ held'[p] = held[p]
        /\ gates'[p] = gates[p] /\ shared'[p] = shared[p] /\ exclusive'[p] = exclusive[p]
    BY DEF EndRead, LockInvariant, TypeOK, Goto, locks, lease
  <1>2. \A q \in Processes \ {p} : Same(q)
    BY DEF EndRead, LockInvariant, TypeOK, Goto, locks, lease, Same
  <1>3. Flocks'
    BY DEF LockInvariant, Flocks, EndRead, locks
  <1>4. InOrder(p)'
    BY <1>1 DEF LockInvariant, InOrder, HoldsWrite, EnteringPCs
  <1>5. Holds(p)' /\ Enters(p)'
    BY <1>1 DEF LockInvariant, Holds, Enters, Locked, Writes, Domain, Gate, EnteringPCs
  <1>. QED
    BY <1>2, <1>3, <1>4, <1>5, Locally DEF Disciplined

LEMMA ReleaseReadLocks ==
    ASSUME LockInvariant, TypeOK', NEW p \in Processes, NEW r \in Roots, ReleaseRead(p, r)
    PROVE  LockInvariant'
  <1>1. /\ pc[p] \in {"leaving", "failing"} /\ pc'[p] = pc[p]
        /\ op'[p] = op[p] /\ todo'[p] = todo[p] /\ held'[p] = held[p] \ {r}
        /\ opened'[p] = [opened[p] EXCEPT ![r] = None]
        /\ gates'[p] = gates[p] /\ exclusive'[p] = exclusive[p] /\ gates' = gates /\ exclusive' = exclusive
        /\ shared'[p] = IF opened[p][r] # None THEN shared[p] \ {Domain(r)} ELSE shared[p]
        /\ r \in held[p] /\ ~Writes(p, r)
        /\ \A s \in held[p] : Writes(p, s) \/ s <= r
    BY DEF ReleaseRead, LockInvariant, TypeOK, Goto, locks
  <1>2. \A q \in Processes \ {p} : Same(q)
    BY DEF ReleaseRead, LockInvariant, TypeOK, Goto, locks, Same
  <1>3. Flocks'
    <2>1. \A q \in Processes : shared'[q] \subseteq shared[q]
      BY DEF ReleaseRead, LockInvariant, TypeOK
    <2>. QED
      BY <1>1, <2>1, FlocksReleased DEF LockInvariant
  <1>4. InOrder(p)'
    BY <1>1 DEF LockInvariant, InOrder, HoldsWrite, Writes, EnteringPCs
  <1>5. /\ \A s \in Roots : s # r => opened'[p][s] = opened[p][s]
        /\ opened'[p][r] = None
        /\ \A s \in held[p] : s \in Roots
    BY <1>1 DEF LockInvariant, TypeOK
  <1>6. \A s \in held'[p] : (opened[p][r] # None => Domain(s) # Domain(r))
    <2>1. SUFFICES ASSUME NEW s \in held'[p], opened[p][r] # None, Domain(s) = Domain(r)
                   PROVE  FALSE
      OBVIOUS
    <2>2. s # r /\ s \in held[p]
      BY <1>1
    <2>3. ~Writes(p, s) /\ r < s
      BY <1>1, <2>1, <2>2 DEF LockInvariant, Holds
    <2>. QED
      BY <1>1, <1>5, <2>2, <2>3, LeaseAssumption
  <1>7. Holds(p)'
    <2>1. ASSUME NEW s \in held'[p] PROVE Locked(p, Domain(s))'
      <3>1. PICK t \in held[p] : opened[p][t] # None /\ Domain(t) = Domain(s)
        BY <1>1 DEF LockInvariant, Holds, Locked
      <3>2. t # r
        BY <1>6, <2>1, <3>1
      <3>. QED
        BY <1>1, <1>5, <3>1, <3>2 DEF Locked, Domain
    <2>2. \A s \in held'[p] : opened'[p][s] # None /\ ~Writes(p, s) => Domain(s) \in shared'[p]
      BY <1>1, <1>5, <1>6 DEF LockInvariant, Holds
    <2>3. \A s \in Roots : opened'[p][s] # None => s \in held'[p]
      BY <1>1, <1>5 DEF LockInvariant, Holds
    <2>. QED
      BY <1>1, <1>5, <2>1, <2>2, <2>3 DEF LockInvariant, Holds, Writes, Domain, Gate
  <1>8. Enters(p)'
    BY <1>1 DEF Enters, EnteringPCs
  <1>. QED
    BY <1>2, <1>3, <1>4, <1>7, <1>8, Locally DEF Disciplined

\* An idle process holds nothing.
LEMMA FinishDisciplined ==
    ASSUME LockInvariant, NEW p \in Processes, Finish(p)
    PROVE  /\ Disciplined(p)'
           /\ \A q \in Processes \ {p} :
                /\ pc'[q] = pc[q] /\ op'[q] = op[q] /\ todo'[q] = todo[q] /\ held'[q] = held[q]
                /\ opened'[q] = opened[q] /\ changed'[q] = changed[q] /\ anchor'[q] = anchor[q]
  <1>1. /\ pc'[p] = "idle" /\ held'[p] = {} /\ todo'[p] = {} /\ op'[p] = NoOperation
        /\ opened'[p] = [r \in Roots |-> None] /\ anchor'[p] = [r \in Roots |-> None]
    BY DEF Finish, Goto, LockInvariant, TypeOK
  <1>2. InOrder(p)'
    BY <1>1 DEF InOrder, NoOperation, EnteringPCs
  <1>3. Holds(p)' /\ Enters(p)'
    BY <1>1 DEF Holds, Enters
  <1>4. \A q \in Processes \ {p} :
          /\ pc'[q] = pc[q] /\ op'[q] = op[q] /\ todo'[q] = todo[q] /\ held'[q] = held[q]
          /\ opened'[q] = opened[q] /\ changed'[q] = changed[q] /\ anchor'[q] = anchor[q]
    BY DEF Finish, Goto, LockInvariant, TypeOK
  <1>. QED
    BY <1>2, <1>3, <1>4 DEF Disciplined

LEMMA DoneReadingLocks ==
    ASSUME LockInvariant, TypeOK', NEW p \in Processes, DoneReading(p)
    PROVE  LockInvariant'
  <1>1. gates' = gates /\ shared' = shared /\ exclusive' = exclusive /\ pc[p] = "leaving"
    BY DEF DoneReading, locks
  <1>2. Flocks'
    BY <1>1 DEF LockInvariant, Flocks
  <1>3. CASE Finish(p)
    <2>1. \A q \in Processes \ {p} : Same(q)
      BY <1>1, <1>3, FinishDisciplined DEF Same
    <2>. QED
      BY <1>2, <1>3, <2>1, FinishDisciplined, Locally
  <1>4. CASE /\ op[p].write # None /\ UNCHANGED lease /\ Goto(p, "publishing")
             /\ op' = [op EXCEPT ![p] = [write |-> @.write, reads |-> {}]]
    <2>1. /\ pc'[p] = "publishing" /\ op'[p].write = op[p].write /\ op'[p].reads = {}
          /\ held'[p] = held[p] /\ opened'[p] = opened[p] /\ todo'[p] = todo[p]
      BY <1>4 DEF LockInvariant, TypeOK, Goto, lease
    <2>2. \A q \in Processes \ {p} : Same(q)
      BY <1>1, <1>4 DEF LockInvariant, TypeOK, Goto, lease, Same
    <2>3. held[p] = {op[p].write}
      BY <1>1, <1>4 DEF DoneReading, OnlyWriteLeft, Writes, LockInvariant, InOrder, HoldsWrite
    <2>4. InOrder(p)'
      BY <1>4, <2>1, <2>3 DEF InOrder, HoldsWrite, EnteringPCs
    <2>5. Holds(p)' /\ Enters(p)'
      BY <1>1, <2>1 DEF LockInvariant, Holds, Enters, Locked, Writes, Domain, Gate, EnteringPCs
    <2>. QED
      BY <1>2, <2>2, <2>4, <2>5, Locally DEF Disciplined
  <1>. QED
    BY <1>3, <1>4, Zenon DEF DoneReading

-----------------------------------------------------------------------------
(* Publishing.                                                               *)

LEMMA StartReadsLocks ==
    ASSUME LockInvariant, TypeOK', NEW p \in Processes, StartReads(p)
    PROVE  LockInvariant'
  <1>1. /\ pc[p] = "publishing" /\ pc'[p] = "prepare" /\ todo'[p] = op[p].reads
        /\ op'[p] = op[p] /\ opened'[p] = opened[p] /\ held'[p] = held[p]
        /\ gates'[p] = gates[p] /\ shared'[p] = shared[p] /\ exclusive'[p] = exclusive[p]
    BY DEF StartReads, LockInvariant, TypeOK, Goto, locks
  <1>2. \A q \in Processes \ {p} : Same(q)
    BY DEF StartReads, LockInvariant, TypeOK, Goto, locks, Same
  <1>3. Flocks'
    BY DEF LockInvariant, Flocks, StartReads, locks
  <1>4. InOrder(p)'
    BY <1>1 DEF LockInvariant, InOrder, HoldsWrite, OnlyWriteLeft, Writes, EnteringPCs
  <1>5. Holds(p)' /\ Enters(p)'
    BY <1>1 DEF LockInvariant, Holds, Enters, Locked, Writes, Domain, Gate, EnteringPCs
  <1>. QED
    BY <1>2, <1>3, <1>4, <1>5, Locally DEF Disciplined

LEMMA CommitLocks ==
    ASSUME LockInvariant, TypeOK', NEW p \in Processes, Commit(p)
    PROVE  LockInvariant'
  <1>1. /\ pc[p] = "publishing" /\ pc'[p] = "committed" /\ todo'[p] = todo[p]
        /\ op'[p] = op[p] /\ opened'[p] = opened[p] /\ held'[p] = held[p]
        /\ gates'[p] = gates[p] /\ shared'[p] = shared[p] /\ exclusive'[p] = exclusive[p]
    BY DEF Commit, LockInvariant, TypeOK, Goto, locks, lease
  <1>2. \A q \in Processes \ {p} : Same(q)
    BY DEF Commit, LockInvariant, TypeOK, Goto, locks, lease, Same
  <1>3. Flocks'
    BY DEF LockInvariant, Flocks, Commit, locks
  <1>4. InOrder(p)'
    BY <1>1 DEF LockInvariant, InOrder, HoldsWrite, OnlyWriteLeft, Writes, EnteringPCs
  <1>5. Holds(p)' /\ Enters(p)'
    BY <1>1 DEF LockInvariant, Holds, Enters, Locked, Writes, Domain, Gate, EnteringPCs
  <1>. QED
    BY <1>2, <1>3, <1>4, <1>5, Locally DEF Disciplined

LEMMA ReleaseWriteLocks ==
    ASSUME LockInvariant, TypeOK', NEW p \in Processes, ReleaseWrite(p)
    PROVE  LockInvariant'
  <1>1. \A q \in Processes : /\ gates'[q] \subseteq gates[q] /\ exclusive'[q] \subseteq exclusive[q]
                             /\ shared'[q] = shared[q]
                             /\ q # p => gates'[q] = gates[q] /\ exclusive'[q] = exclusive[q]
    <2>1. CASE UNCHANGED locks
      BY <2>1 DEF locks
    <2>2. CASE /\ gates' = [gates EXCEPT ![p] = @ \ {Gate(op[p].write)}]
               /\ exclusive' = [exclusive EXCEPT ![p] = @ \ {Domain(op[p].write)}]
               /\ shared' = shared
      BY <2>2 DEF LockInvariant, TypeOK
    <2>. QED
      BY <2>1, <2>2, Zenon DEF ReleaseWrite
  <1>2. Flocks'
    BY <1>1, FlocksReleased DEF LockInvariant
  <1>3. Finish(p)
    BY DEF ReleaseWrite
  <1>4. \A q \in Processes \ {p} : Same(q)
    BY <1>1, <1>3, FinishDisciplined DEF Same
  <1>. QED
    BY <1>2, <1>3, <1>4, FinishDisciplined, Locally

-----------------------------------------------------------------------------
(* Faults.                                                                   *)

LEMMA FailLocks ==
    ASSUME LockInvariant, TypeOK', NEW p \in Processes, Fail(p)
    PROVE  LockInvariant'
  <1>1. /\ pc'[p] = "failing" /\ op'[p] = op[p] /\ held'[p] = held[p]
        /\ \A q \in Processes \ {p} :
             /\ pc'[q] = pc[q] /\ op'[q] = op[q] /\ todo'[q] = todo[q] /\ held'[q] = held[q]
             /\ changed'[q] = changed[q] /\ anchor'[q] = anchor[q]
    BY DEF Fail, LockInvariant, TypeOK, Goto
  <1>2. ASSUME NEW r \in Roots, pc[p] \in EnteringPCs, Current(p, r), DropEntering(p, r)
        PROVE  LockInvariant'
    <2>1. \A q \in Processes \ {p} : Same(q)
      BY <1>1, <1>2 DEF DropEntering, LockInvariant, TypeOK, Same
    <2>. QED
      BY <1>1, <1>2, <2>1, DropEnteringHolds, Locally DEF Disciplined
  <1>3. CASE pc[p] \notin EnteringPCs /\ UNCHANGED <<locks, opened>>
    <2>1. \A q \in Processes \ {p} : Same(q)
      BY <1>1, <1>3 DEF locks, Same
    <2>2. Flocks'
      BY <1>3 DEF LockInvariant, Flocks, locks
    <2>3. InOrder(p)'
      BY <1>1 DEF LockInvariant, InOrder, EnteringPCs
    <2>4. Holds(p)'
      BY <1>1, <1>3 DEF LockInvariant, Holds, Locked, Writes, Domain, Gate, EnteringPCs, locks
    <2>5. Enters(p)'
      BY <1>1 DEF Enters, EnteringPCs
    <2>. QED
      BY <2>1, <2>2, <2>3, <2>4, <2>5, Locally DEF Disciplined
  <1>. QED
    BY <1>2, <1>3, Zenon DEF Fail

LEMMA CrashLocks ==
    ASSUME LockInvariant, TypeOK', NEW p \in Processes, Crash(p)
    PROVE  LockInvariant'
  <1>1. \A q \in Processes : /\ gates'[q] \subseteq gates[q] /\ exclusive'[q] \subseteq exclusive[q]
                             /\ shared'[q] \subseteq shared[q]
                             /\ q # p => /\ gates'[q] = gates[q] /\ exclusive'[q] = exclusive[q]
                                         /\ shared'[q] = shared[q]
    BY DEF Crash, LockInvariant, TypeOK
  <1>2. Flocks'
    BY <1>1, FlocksReleased DEF LockInvariant
  <1>3. Finish(p)
    BY DEF Crash
  <1>4. \A q \in Processes \ {p} : Same(q)
    BY <1>1, <1>3, FinishDisciplined DEF Same
  <1>. QED
    BY <1>2, <1>3, <1>4, FinishDisciplined, Locally

-----------------------------------------------------------------------------
(* The invariant, and what follows from it.                                  *)

\* A step that no process takes, or none at all.
LEMMA QuietLocks ==
    ASSUME LockInvariant, TypeOK', UNCHANGED <<locks, lease, pc, op>>
    PROVE  LockInvariant'
  <1>1. \A q \in Processes : Same(q)
    BY DEF Same, locks, lease
  <1>2. Flocks'
    BY DEF LockInvariant, Flocks, locks
  <1>3. \A q \in Processes : Disciplined(q)'
    BY <1>1, SameStaysDisciplined DEF LockInvariant, Disciplined
  <1>. QED
    BY <1>2, <1>3 DEF LockInvariant, Disciplined

LEMMA NextLocks == LockInvariant /\ [Next]_vars => LockInvariant'
  <1>. SUFFICES ASSUME LockInvariant, [Next]_vars PROVE LockInvariant'
    OBVIOUS
  <1>1. TypeOK'
    BY NextTypes DEF LockInvariant
  <1>2. ASSUME NEW p \in Processes, NEW o \in OperationsOf[p],
               BeginRead(p, o) \/ BeginPublish(p, o)
        PROVE  LockInvariant'
    BY <1>1, <1>2, BeginReadLocks, BeginPublishLocks
  <1>3. ASSUME NEW p \in Processes, Step(p) PROVE LockInvariant'
    BY <1>1, <1>3, PrepareLocks, ReenterLocks, DrainLocks, OpenLeaseLocks, EnterLocks,
       ConfirmLocks, DowngradeLocks, LockDataLocks, LeaseReplacedLocks, ReleaseReadLocks, EndReadLocks,
       DoneReadingLocks, StartReadsLocks, CommitLocks, ReleaseWriteLocks
    DEF Step
  <1>4. ASSUME NEW p \in Processes, PassGate(p) PROVE LockInvariant'
    BY <1>1, <1>4, TakeGateLocks DEF PassGate
  <1>5. ASSUME NEW p \in Processes, Fail(p) \/ Crash(p) PROVE LockInvariant'
    BY <1>1, <1>5, FailLocks, CrashLocks
  <1>6. ASSUME NEW r \in Roots, ReplaceLease(r) PROVE LockInvariant'
    BY <1>1, <1>6, QuietLocks DEF ReplaceLease
  <1>7. CASE UNCHANGED vars
    BY <1>1, <1>7, QuietLocks DEF vars
  <1>. QED
    BY <1>2, <1>3, <1>4, <1>5, <1>6, <1>7 DEF Next

THEOREM LocksDisciplined == Spec => []LockInvariant
  BY InitLocks, NextLocks, PTL DEF Spec

\* A publisher's lease is held by nobody else: LeasesExclude.
THEOREM WritersAreAlone == Spec => []LeasesExclude
  <1>1. LockInvariant => LeasesExclude
    <2>. SUFFICES ASSUME LockInvariant, NEW p \in Processes, NEW q \in Processes, p # q,
                         NEW r \in held[p] \cap held[q], Writes(p, r)
                  PROVE  FALSE
      BY DEF LeasesExclude
    <2>1. Domain(r) \in exclusive[p]
      BY DEF LockInvariant, Holds
    <2>2. Domain(r) \in exclusive[q] \cup shared[q]
      <3>1. PICK t \in held[q] : opened[q][t] # None /\ Domain(t) = Domain(r)
        BY DEF LockInvariant, Holds, Locked
      <3>. QED
        BY <3>1 DEF LockInvariant, Holds
    <2>. QED
      BY <2>1, <2>2 DEF LockInvariant, Flocks
  <1>. QED
    BY <1>1, LocksDisciplined, PTL

\* Nobody gets past a writer that drains its domain: WriterNotOvertaken.
THEOREM WritersAreNotOvertaken == Spec => WriterNotOvertaken
  <1>1. ASSUME LockInvariant, [Next]_vars, NEW p \in Processes, NEW q \in Processes,
               NEW r \in Roots, pc[p] = "drain", Current(p, r),
               Domain(r) \in shared'[q], Domain(r) \notin shared[q]
        PROVE  FALSE
    <2>1. Gate(r) \in gates[p]
      BY <1>1, EnteringOne DEF EnteringPCs
    <2>2. ASSUME NEW s \in Roots, pc[q] \in EnteringPCs, Current(q, s), Domain(s) = Domain(r), p # q
          PROVE  FALSE
      <3>1. Gate(s) \in gates[q]
        BY <1>1, <2>2, EnteringOne
      <3>2. Gate(s) = Gate(r)
        BY <2>2 DEF Gate, Domain
      <3>. QED
        BY <1>1, <2>1, <2>2, <3>1, <3>2 DEF LockInvariant, Flocks
    <2>3. TypeOK
      BY <1>1 DEF LockInvariant
    <2>4. ASSUME NEW x \in Processes, NEW s \in Roots, Enter(x, s) PROVE FALSE
      <3>1. \/ shared' = shared
            \/ shared' = [shared EXCEPT ![x] = @ \cup {Domain(s)}]
        BY <2>4, Zenon DEF Enter
      <3>2. shared' # shared
        BY <1>1
      <3>3. shared' = [shared EXCEPT ![x] = @ \cup {Domain(s)}]
        BY <3>1, <3>2, Zenon
      <3>4. x = q
        BY <1>1, <2>3, <3>3 DEF TypeOK
      <3>5. shared'[q] = shared[q] \cup {Domain(s)}
        BY <2>3, <3>3, <3>4 DEF TypeOK
      <3>6. Domain(s) = Domain(r)
        BY <1>1, <3>5
      <3>7. pc[x] = "enter" /\ Current(x, s)
        BY <2>4 DEF Enter
      <3>. QED
        BY <1>1, <2>2, <3>4, <3>6, <3>7 DEF EnteringPCs
    <2>5. ASSUME NEW x \in Processes, NEW s \in Roots, Downgrade(x, s) PROVE FALSE
      <3>1. shared' = [shared EXCEPT ![x] = @ \cup {Domain(s)}]
        BY <2>5 DEF Downgrade
      <3>2. x = q
        BY <1>1, <2>3, <3>1 DEF TypeOK
      <3>3. shared'[q] = shared[q] \cup {Domain(s)}
        BY <2>3, <3>1, <3>2 DEF TypeOK
      <3>4. Domain(s) = Domain(r)
        BY <1>1, <3>3
      <3>5. pc[x] = "downgrade" /\ Current(x, s)
        BY <2>5 DEF Downgrade
      <3>. QED
        BY <1>1, <2>2, <3>2, <3>4, <3>5 DEF EnteringPCs
    <2>6. ASSUME shared'[q] \subseteq shared[q] PROVE FALSE
      BY <1>1, <2>6
    <2>7. ASSUME NEW x \in Processes, NEW s \in Roots,
                 Prepare(x, s) \/ Reenter(x, s) \/ Drain(x, s) \/ OpenLease(x, s)
                 \/ Confirm(x, s) \/ LockData(x, s) \/ LeaseReplaced(x, s) \/ ReleaseRead(x, s)
                 \/ TakeGate(x, s)
          PROVE  FALSE
      <3>1. CASE Prepare(x, s) \/ Reenter(x, s) \/ OpenLease(x, s)
        BY <2>6, <3>1, Zenon DEF Prepare, Reenter, OpenLease, locks
      <3>2. CASE Drain(x, s) \/ Confirm(x, s) \/ LockData(x, s) \/ TakeGate(x, s)
        BY <2>6, <3>2, Zenon DEF Drain, Confirm, LockData, TakeGate
      <3>3. CASE LeaseReplaced(x, s)
        BY <2>3, <2>6, <3>3 DEF TypeOK, LeaseReplaced, DropEntering
      <3>4. CASE ReleaseRead(x, s)
        <4>1. CASE opened[x][s] = None
          BY <2>6, <3>4, <4>1 DEF ReleaseRead
        <4>2. CASE opened[x][s] # None
          BY <2>3, <2>6, <3>4, <4>2 DEF TypeOK, ReleaseRead
        <4>. QED
          BY <4>1, <4>2
      <3>. QED
        BY <2>7, <3>1, <3>2, <3>3, <3>4
    <2>8. ASSUME NEW x \in Processes, EndRead(x) \/ StartReads(x) \/ Commit(x)
          PROVE  FALSE
      BY <2>6, <2>8 DEF EndRead, StartReads, Commit, locks
    <2>9. ASSUME NEW x \in Processes, DoneReading(x) \/ ReleaseWrite(x) PROVE FALSE
      <3>1. shared' = shared
        BY <2>9, Zenon DEF DoneReading, ReleaseWrite, locks
      <3>. QED
        BY <2>6, <3>1
    <2>10. ASSUME NEW x \in Processes, Fail(x) PROVE FALSE
      <3>1. \/ shared' = shared
            \/ \E s \in Roots : shared' = [shared EXCEPT ![x] = @ \ {Domain(s)}]
        BY <2>10, Zenon DEF Fail, DropEntering, locks
      <3>. QED
        BY <2>3, <2>6, <3>1 DEF TypeOK
    <2>11. ASSUME NEW x \in Processes, Crash(x) PROVE FALSE
      BY <2>3, <2>6, <2>11 DEF TypeOK, Crash
    <2>12. ASSUME NEW x \in Processes, NEW o \in OperationsOf[x],
                  BeginRead(x, o) \/ BeginPublish(x, o)
           PROVE  FALSE
      BY <2>6, <2>12 DEF BeginRead, BeginPublish, locks
    <2>13. ASSUME UNCHANGED locks PROVE FALSE
      BY <2>6, <2>13 DEF locks
    <2>. QED
      BY <1>1, <2>4, <2>5, <2>7, <2>8, <2>9, <2>10, <2>11, <2>12, <2>13
      DEF Next, Step, PassGate, ReplaceLease, vars
  <1>2. LockInvariant /\ [Next]_vars =>
          [\A p, q \in Processes, r \in Roots :
             (pc[p] = "drain" /\ Current(p, r) /\ Domain(r) \in shared'[q])
               => Domain(r) \in shared[q]]_vars
    BY <1>1
  <1>. QED
    BY <1>2, LocksDisciplined, PTL DEF Spec, WriterNotOvertaken
-----------------------------------------------------------------------------
(* The anchor invariant: what a process has open is what is published.       *)

\* A step leaves what the process q reads alone.
Keeps(q) ==
    pc'[q] = pc[q] /\ op'[q] = op[q] /\ held'[q] = held[q] /\ anchor'[q] = anchor[q]

LEMMA OthersKeep ==
    ASSUME TypeOK, NEW p \in Processes, NEW q \in Processes \ {p},
           \/ \E o \in OperationsOf[p] : BeginRead(p, o) \/ BeginPublish(p, o)
           \/ Step(p) \/ PassGate(p) \/ Fail(p) \/ Crash(p)
    PROVE  Keeps(q)
  <1>. USE DEF TypeOK, Goto, lease, Keeps
  <1>1. ASSUME NEW o \in OperationsOf[p], BeginRead(p, o) \/ BeginPublish(p, o)
        PROVE  Keeps(q)
    BY <1>1 DEF BeginRead, BeginPublish
  <1>2. ASSUME NEW r \in Roots, Prepare(p, r) \/ Reenter(p, r) PROVE Keeps(q)
    BY <1>2 DEF Prepare, Reenter
  <1>3. ASSUME NEW r \in Roots, TakeGate(p, r) \/ Drain(p, r) \/ OpenLease(p, r) PROVE Keeps(q)
    BY <1>3 DEF TakeGate, Drain, OpenLease
  <1>4. ASSUME NEW r \in Roots, Enter(p, r) PROVE Keeps(q)
    BY <1>4 DEF Enter
  <1>5. ASSUME NEW r \in Roots, Confirm(p, r) \/ Downgrade(p, r) PROVE Keeps(q)
    BY <1>5 DEF Confirm, Downgrade
  <1>6. ASSUME NEW r \in Roots, LockData(p, r) PROVE Keeps(q)
    BY <1>6 DEF LockData, CurrentAnchor
  <1>7. ASSUME NEW r \in Roots, LeaseReplaced(p, r) PROVE Keeps(q)
    BY <1>7 DEF LeaseReplaced
  <1>8. ASSUME NEW r \in Roots, ReleaseRead(p, r) PROVE Keeps(q)
    BY <1>8 DEF ReleaseRead
  <1>9. CASE EndRead(p) \/ StartReads(p) \/ Commit(p)
    BY <1>9 DEF EndRead, StartReads, Commit
  <1>10. ASSUME Finish(p) PROVE Keeps(q)
    BY <1>10 DEF Finish
  <1>11. CASE DoneReading(p)
    BY <1>10, <1>11 DEF DoneReading
  <1>12. CASE ReleaseWrite(p) \/ Crash(p)
    BY <1>10, <1>12 DEF ReleaseWrite, Crash
  <1>13. CASE Fail(p)
    BY <1>13 DEF Fail
  <1>. QED
    BY <1>1, <1>2, <1>3, <1>4, <1>5, <1>6, <1>7, <1>8, <1>9, <1>11, <1>12, <1>13
    DEF Step, PassGate

\* A process that opens nothing and holds no more than before.
LEMMA StaysAnchored ==
    ASSUME NEW q \in Processes, Anchored(q), tree' = tree,
           Separate(op'[q]), op'[q].write = op[q].write, held'[q] \subseteq held[q],
           \A r \in held'[q] : anchor'[q][r] = anchor[q][r],
           \A r \in Roots : anchor'[q][r] # None => anchor'[q][r] = anchor[q][r]
    PROVE  Anchored(q)'
  <1>1. \A r \in held'[q] : ~Writes(q, r)' => anchor'[q][r] = tree'[r]
    BY DEF Anchored, Writes
  <1>2. ASSUME HoldsWrite(q)', NEW r \in Roots \ {op'[q].write}, Domain(r) = Domain(op'[q].write),
               anchor'[q][r] # None
        PROVE  anchor'[q][r] = tree'[r]
    BY <1>2 DEF Anchored, HoldsWrite
  <1>. QED
    BY <1>1, <1>2 DEF Anchored, Domain

LEMMA KeptAnchored ==
    ASSUME NEW q \in Processes, Anchored(q), tree' = tree, Keeps(q)
    PROVE  Anchored(q)'
  BY StaysAnchored DEF Keeps, Anchored

\* A process that holds nothing.
LEMMA EmptyAnchored ==
    ASSUME NEW p \in Processes, held'[p] = {}, Separate(op'[p])
    PROVE  Anchored(p)'
  BY DEF Anchored, HoldsWrite

\* A lease is held in a domain that is locked.
LEMMA DomainsLocked ==
    ASSUME LockInvariant, NEW q \in Processes, NEW r \in held[q]
    PROVE  Domain(r) \in shared[q] \cup exclusive[q]
  <1>1. PICK s \in held[q] : opened[q][s] # None /\ Domain(s) = Domain(r)
    BY DEF LockInvariant, Holds, Locked
  <1>. QED
    BY <1>1 DEF LockInvariant, Holds

LEMMA NothingSeparate == Separate(NoOperation)
  BY DEF Separate, NoOperation


LEMMA PrepareAnchored ==
    ASSUME AnchorInvariant, NEW p \in Processes, NEW r \in Roots, Prepare(p, r)
    PROVE  Anchored(p)'
  <1>1. /\ op'[p] = op[p] /\ held'[p] = held[p] /\ tree' = tree
        /\ anchor'[p] = [anchor[p] EXCEPT ![r] = tree[r]]
    BY DEF Prepare, AnchorInvariant, LockInvariant, TypeOK, disk
  <1>2. \A s \in Roots : anchor'[p][s] = tree[s] \/ anchor'[p][s] = anchor[p][s]
    BY <1>1 DEF AnchorInvariant, LockInvariant, TypeOK
  <1>3. held[p] \subseteq Roots
    BY DEF AnchorInvariant, LockInvariant, TypeOK
  <1>. QED
    BY <1>1, <1>2, <1>3 DEF AnchorInvariant, Anchored, Writes, HoldsWrite, Separate, Domain

\* A re-entrant lease keeps an anchor that was opened before the domain was
\* locked: only a publisher of that domain has one, and it is up to date.
LEMMA ReenterAnchored ==
    ASSUME AnchorInvariant, NEW p \in Processes, NEW r \in Roots, Reenter(p, r)
    PROVE  Anchored(p)'
  <1>1. /\ op'[p] = op[p] /\ held'[p] = held[p] \cup {r} /\ tree' = tree
        /\ anchor'[p] = [anchor[p] EXCEPT ![r] = IF @ = None THEN tree[r] ELSE @]
        /\ pc[p] = "turnstile" /\ Current(p, r) /\ Locked(p, Domain(r))
    BY DEF Reenter, AnchorInvariant, LockInvariant, TypeOK, disk
  <1>2. PICK s \in held[p] : Domain(s) = Domain(r)
    BY <1>1 DEF Locked
  <1>3. /\ op[p].write = None \/ HoldsWrite(p)
        /\ r \in op[p].reads /\ r # op[p].write /\ s # r
        /\ held[p] \subseteq op[p].reads \cup {op[p].write}
    BY <1>1, <1>2 DEF AnchorInvariant, LockInvariant, InOrder, EnteringPCs, Current
  <1>4. HoldsWrite(p) /\ Domain(r) = Domain(op[p].write)
    <2>1. CASE s = op[p].write
      <3>1. op[p].write # None
        BY <2>1, LeaseAssumption DEF AnchorInvariant, LockInvariant, TypeOK
      <3>. QED
        BY <1>2, <1>3, <2>1, <3>1
    <2>2. CASE s # op[p].write
      BY <1>2, <1>3, <2>2 DEF AnchorInvariant, Anchored, Separate
    <2>. QED
      BY <2>1, <2>2
  <1>5. anchor'[p][r] = tree[r]
    BY <1>1, <1>3, <1>4 DEF AnchorInvariant, Anchored, LockInvariant, TypeOK
  <1>6. \A t \in Roots \ {r} : anchor'[p][t] = anchor[p][t]
    BY <1>1 DEF AnchorInvariant, LockInvariant, TypeOK
  <1>7. held[p] \subseteq Roots
    BY DEF AnchorInvariant, LockInvariant, TypeOK
  <1>. QED
    BY <1>1, <1>3, <1>5, <1>6, <1>7 DEF AnchorInvariant, Anchored, Writes, HoldsWrite, Separate, Domain

LEMMA LockDataAnchored ==
    ASSUME AnchorInvariant, NEW p \in Processes, NEW r \in Roots, LockData(p, r)
    PROVE  Anchored(p)'
  <1>1. /\ op'[p] = op[p] /\ held'[p] = held[p] \cup {r} /\ tree' = tree
        /\ pc[p] = "data" /\ Current(p, r)
        /\ anchor'[p] = IF Writes(p, r) THEN anchor[p] ELSE [anchor[p] EXCEPT ![r] = tree[r]]
    BY DEF LockData, CurrentAnchor, AnchorInvariant, LockInvariant, TypeOK, disk
  <1>2. held[p] \subseteq Roots /\ LockInvariant
    BY DEF AnchorInvariant, LockInvariant, TypeOK
  <1>3. CASE Writes(p, r)
    <2>1. held[p] = {} /\ anchor[p] = [s \in Roots |-> None]
      BY <1>1, <1>3 DEF AnchorInvariant, LockInvariant, InOrder, EnteringPCs, Current, Writes
    <2>. QED
      BY <1>1, <1>3, <2>1 DEF AnchorInvariant, Anchored, Writes, HoldsWrite, Separate
  <1>4. CASE ~Writes(p, r)
    <2>1. anchor'[p][r] = tree[r] /\ \A t \in Roots \ {r} : anchor'[p][t] = anchor[p][t]
      BY <1>1, <1>4 DEF AnchorInvariant, LockInvariant, TypeOK
    <2>. QED
      BY <1>1, <1>2, <1>4, <2>1 DEF AnchorInvariant, Anchored, Writes, HoldsWrite, Separate, Domain
  <1>. QED
    BY <1>3, <1>4

\* What is published under a lease nobody else holds or has open.
LEMMA CommitAnchored ==
    ASSUME AnchorInvariant, NEW p \in Processes, NEW q \in Processes, Commit(p)
    PROVE  Anchored(q)'
  <1>1. /\ op' = op /\ held' = held /\ anchor' = anchor /\ pc[p] = "publishing"
        /\ \A r \in Roots \ {op[p].write} : tree'[r] = tree[r]
    BY DEF Commit, AnchorInvariant, LockInvariant, TypeOK, lease
  <1>2. HoldsWrite(p) /\ Domain(op[p].write) \in exclusive[p] /\ op[p].write \in Roots
    <2>1. held[p] = {op[p].write}
      BY <1>1 DEF AnchorInvariant, LockInvariant, InOrder
    <2>2. op[p].write \in Roots /\ op[p].write # None
      BY <2>1, LeaseAssumption DEF AnchorInvariant, LockInvariant, TypeOK
    <2>. QED
      BY <2>1, <2>2 DEF AnchorInvariant, LockInvariant, HoldsWrite, Holds, Writes
  <1>3. ASSUME NEW r \in held[q], ~Writes(q, r) PROVE anchor[q][r] = tree'[r]
    <2>1. CASE q = p
      BY <1>1, <1>3, <2>1 DEF AnchorInvariant, Anchored, Writes, LockInvariant, TypeOK
    <2>2. CASE q # p
      <3>1. Domain(r) \in shared[q] \cup exclusive[q]
        BY DomainsLocked DEF AnchorInvariant
      <3>2. r # op[p].write
        BY <1>2, <2>2, <3>1 DEF AnchorInvariant, LockInvariant, Flocks
      <3>. QED
        BY <1>1, <1>3, <3>2 DEF AnchorInvariant, Anchored, LockInvariant, TypeOK
    <2>. QED
      BY <2>1, <2>2
  <1>4. ASSUME HoldsWrite(q), NEW r \in Roots \ {op[q].write}, Domain(r) = Domain(op[q].write),
               anchor[q][r] # None
        PROVE  anchor[q][r] = tree'[r]
    <2>1. q # p => Domain(r) \in exclusive[q]
      BY <1>4 DEF AnchorInvariant, LockInvariant, HoldsWrite, Holds, Writes
    <2>2. r # op[p].write
      BY <1>2, <1>4, <2>1 DEF AnchorInvariant, LockInvariant, Flocks
    <2>. QED
      BY <1>1, <1>4, <2>2 DEF AnchorInvariant, Anchored
  <1>. QED
    BY <1>1, <1>3, <1>4 DEF AnchorInvariant, Anchored, Writes, HoldsWrite, Domain

\* What the other processes do to the anchors of p: nothing, unless they commit.
LEMMA NextAnchors ==
    ASSUME SeparateDomains, AnchorInvariant, [Next]_vars
    PROVE  AnchorInvariant'
  <1>1. LockInvariant' /\ TypeOK
    BY NextLocks DEF AnchorInvariant, LockInvariant
  <1>2. ASSUME NEW p \in Processes, tree' = tree, Anchored(p)',
               \A q \in Processes \ {p} : Keeps(q)
        PROVE  \A q \in Processes : Anchored(q)'
    BY <1>2, KeptAnchored DEF AnchorInvariant
  <1>3. ASSUME NEW p \in Processes, NEW o \in OperationsOf[p],
               BeginRead(p, o) \/ BeginPublish(p, o)
        PROVE  \A q \in Processes : Anchored(q)'
    <2>1. /\ op'[p] = o /\ held'[p] = held[p] /\ tree' = tree /\ pc[p] = "idle"
      BY <1>1, <1>3 DEF BeginRead, BeginPublish, TypeOK, disk
    <2>2. held'[p] = {}
      BY <2>1 DEF AnchorInvariant, LockInvariant, InOrder
    <2>3. Anchored(p)'
      BY <2>1, <2>2, EmptyAnchored DEF SeparateDomains
    <2>. QED
      BY <1>1, <1>2, <1>3, <2>1, <2>3, OthersKeep
  <1>4. ASSUME NEW p \in Processes, NEW r \in Roots, Prepare(p, r) \/ Reenter(p, r) \/ LockData(p, r)
        PROVE  \A q \in Processes : Anchored(q)'
    <2>1. tree' = tree
      BY <1>4 DEF Prepare, Reenter, LockData, disk
    <2>2. Anchored(p)'
      BY <1>4, PrepareAnchored, ReenterAnchored, LockDataAnchored
    <2>. QED
      BY <1>1, <1>2, <1>4, <2>1, <2>2, OthersKeep DEF Step
  <1>5. ASSUME NEW p \in Processes, NEW r \in Roots,
               \/ TakeGate(p, r) \/ Drain(p, r) \/ OpenLease(p, r) \/ Enter(p, r)
               \/ Confirm(p, r) \/ Downgrade(p, r) \/ LeaseReplaced(p, r)
        PROVE  \A q \in Processes : Anchored(q)'
    <2>1. tree' = tree /\ op' = op /\ held' = held /\ anchor' = anchor
      BY <1>5 DEF TakeGate, Drain, OpenLease, Enter, Confirm, Downgrade, LeaseReplaced,
         DropEntering,
         disk, lease
    <2>2. Anchored(p)'
      BY <2>1, StaysAnchored DEF AnchorInvariant, Anchored
    <2>. QED
      BY <1>1, <1>2, <1>5, <2>1, <2>2, OthersKeep DEF Step, PassGate
  <1>6. ASSUME NEW p \in Processes, NEW r \in Roots, ReleaseRead(p, r)
        PROVE  \A q \in Processes : Anchored(q)'
    <2>1. /\ tree' = tree /\ op' = op /\ held'[p] = held[p] \ {r}
          /\ anchor'[p] = [anchor[p] EXCEPT ![r] = None] /\ held[p] \subseteq Roots
      BY <1>1, <1>6 DEF ReleaseRead, TypeOK, disk
    <2>2. Anchored(p)'
      BY <1>1, <2>1, StaysAnchored DEF AnchorInvariant, Anchored, TypeOK
    <2>. QED
      BY <1>1, <1>2, <1>6, <2>1, <2>2, OthersKeep DEF Step
  <1>7. ASSUME NEW p \in Processes, EndRead(p) \/ StartReads(p) \/ Fail(p)
        PROVE  \A q \in Processes : Anchored(q)'
    <2>1. tree' = tree /\ op' = op /\ held' = held /\ anchor' = anchor
      BY <1>7 DEF EndRead, StartReads, Fail, disk, lease
    <2>2. Anchored(p)'
      BY <2>1, StaysAnchored DEF AnchorInvariant, Anchored
    <2>. QED
      BY <1>1, <1>2, <1>7, <2>1, <2>2, OthersKeep DEF Step
  <1>8. ASSUME NEW p \in Processes, DoneReading(p) \/ ReleaseWrite(p) \/ Crash(p)
        PROVE  \A q \in Processes : Anchored(q)'
    <2>1. tree' = tree
      BY <1>8 DEF DoneReading, ReleaseWrite, Crash, disk
    <2>2. CASE Finish(p)
      <3>1. held'[p] = {} /\ op'[p] = NoOperation
        BY <1>1, <2>2 DEF Finish, TypeOK
      <3>2. Anchored(p)'
        BY <3>1, EmptyAnchored, NothingSeparate
      <3>. QED
        BY <1>1, <1>2, <1>8, <2>1, <3>2, OthersKeep DEF Step
    <2>3. CASE /\ op' = [op EXCEPT ![p] = [write |-> @.write, reads |-> {}]]
               /\ UNCHANGED lease
      <3>1. op'[p].write = op[p].write /\ op'[p].reads = {} /\ held' = held /\ anchor' = anchor
        BY <1>1, <2>3 DEF TypeOK, lease
      <3>2. Anchored(p)'
        BY <2>1, <3>1, StaysAnchored DEF AnchorInvariant, Separate
      <3>. QED
        BY <1>1, <1>2, <1>8, <2>1, <3>2, OthersKeep DEF Step
    <2>. QED
      BY <1>8, <2>2, <2>3, Zenon DEF DoneReading, ReleaseWrite, Crash
  <1>9. ASSUME NEW p \in Processes, Commit(p) PROVE \A q \in Processes : Anchored(q)'
    BY <1>9, CommitAnchored
  <1>10. ASSUME UNCHANGED <<tree, op, held, anchor>> PROVE \A q \in Processes : Anchored(q)'
    BY <1>10, StaysAnchored DEF AnchorInvariant, Anchored
  <1>11. \A q \in Processes : Anchored(q)'
    BY <1>3, <1>4, <1>5, <1>6, <1>7, <1>8, <1>9, <1>10
    DEF Next, Step, PassGate, ReplaceLease, vars, disk, lease
  <1>. QED
    BY <1>1, <1>11 DEF AnchorInvariant

\* What is open is up to date at every step: AnchorInvariant.
LEMMA AnchorsAreCurrent ==
    ASSUME SeparateDomains
    PROVE  Spec => []AnchorInvariant
  <1>1. Init => AnchorInvariant
    <2>. SUFFICES ASSUME Init PROVE AnchorInvariant
      OBVIOUS
    <2>1. ASSUME NEW p \in Processes PROVE Anchored(p)
      BY NothingSeparate DEF Init, Anchored, HoldsWrite
    <2>. QED
      BY <2>1, InitLocks DEF AnchorInvariant
  <1>2. AnchorInvariant /\ [Next]_vars => AnchorInvariant'
    BY NextAnchors
  <1>. QED
    BY <1>1, <1>2, PTL DEF Spec

LEMMA ReadingWhatIsPublished == AnchorInvariant => ReadsOneCut
  <1>. SUFFICES ASSUME AnchorInvariant, NEW p \in Processes, pc[p] = "reading",
                       NEW r \in op[p].reads
                PROVE  anchor[p][r] = tree[r]
    BY DEF ReadsOneCut
  <1>1. r \in held[p] /\ ~Writes(p, r)
    BY DEF AnchorInvariant, LockInvariant, InOrder, Writes
  <1>. QED
    BY <1>1 DEF AnchorInvariant, Anchored

\* Nothing a reader has open is replaced while it reads, provided that no
\* operation reads two artifacts of one domain: ReadsOneCut.
THEOREM ReadersSeeOneCut ==
    ASSUME SeparateDomains
    PROVE  Spec => []ReadsOneCut
  BY AnchorsAreCurrent, ReadingWhatIsPublished, PTL

-----------------------------------------------------------------------------
(* The leases implement ArtifactSnapshots.                                   *)

SnapshotViews == [p \in Processes |-> View(p)]

NothingRead == [r \in Roots |-> None]

LEMMA ViewNothing ==
    ASSUME NEW p \in Processes
    PROVE  /\ pc[p] # "reading" => View(p) = NothingRead
           /\ pc'[p] # "reading" => View(p)' = NothingRead
  BY DEF View, NothingRead

LEMMA ViewKept ==
    ASSUME NEW q \in Processes, Keeps(q)
    PROVE  View(q)' = View(q)
  BY DEF View, Keeps

\* A process that is about to read, or is done: nothing is published.
LEMMA StepImplements ==
    ASSUME NEW p \in Processes, \A q \in Processes \ {p} : Keeps(q), tree' = tree,
           TypeOK', ReadsOneCut', pc[p] # "reading" \/ pc'[p] # "reading"
    PROVE  Snapshots!Next
  <1>1. \A q \in Processes \ {p} : View(q)' = View(q)
    BY ViewKept
  <1>2. CASE pc'[p] # "reading"
    <2>1. SnapshotViews' = [SnapshotViews EXCEPT ![p] = NothingRead]
      BY <1>1, <1>2, ViewNothing DEF SnapshotViews
    <2>2. Snapshots!Leave(p)
      BY <2>1 DEF Snapshots!Leave, Snapshots!Nothing, SnapshotViews, NothingRead
    <2>. QED
      BY <2>2 DEF Snapshots!Next
  <1>3. CASE pc'[p] = "reading"
    <2>1. SnapshotViews[p] = NothingRead
      BY <1>3, ViewNothing DEF SnapshotViews
    <2>2. op'[p].reads \in SUBSET Roots
      BY DEF TypeOK
    <2>3. View(p)' = [r \in Roots |-> IF r \in op'[p].reads THEN tree[r] ELSE None]
      BY <1>3, <2>2 DEF View, ReadsOneCut
    <2>4. SnapshotViews' = [SnapshotViews EXCEPT ![p] = View(p)']
      BY <1>1 DEF SnapshotViews
    <2>5. Snapshots!Read(p, op'[p].reads)
      BY <2>1, <2>3, <2>4 DEF Snapshots!Read, Snapshots!Nothing, SnapshotViews, NothingRead
    <2>. QED
      BY <2>2, <2>5 DEF Snapshots!Next
  <1>. QED
    BY <1>2, <1>3

LEMMA CommitImplements ==
    ASSUME AnchorInvariant, NEW p \in Processes, Commit(p)
    PROVE  Snapshots!Next
  <1>1. /\ op' = op /\ held' = held /\ anchor' = anchor
        /\ pc[p] = "publishing" /\ pc' = [pc EXCEPT ![p] = "committed"]
    BY DEF Commit, Goto, lease
  <1>2. HoldsWrite(p) /\ Domain(op[p].write) \in exclusive[p] /\ op[p].write \in Roots
    <2>1. held[p] = {op[p].write}
      BY <1>1 DEF AnchorInvariant, LockInvariant, InOrder
    <2>2. op[p].write \in Roots /\ op[p].write # None
      BY <2>1, LeaseAssumption DEF AnchorInvariant, LockInvariant, TypeOK
    <2>. QED
      BY <2>1, <2>2 DEF AnchorInvariant, LockInvariant, HoldsWrite, Holds, Writes
  <1>3. SnapshotViews' = SnapshotViews
    <2>1. pc \in [Processes -> PCs]
      BY DEF AnchorInvariant, LockInvariant, TypeOK
    <2>2. \A q \in Processes : pc'[q] = "reading" <=> pc[q] = "reading"
      BY <1>1, <2>1
    <2>. QED
      BY <1>1, <2>2 DEF SnapshotViews, View
  <1>4. ASSUME NEW q \in Processes PROVE View(q)[op[p].write] = None
    <2>1. CASE pc[q] = "reading" /\ op[p].write \in op[q].reads
      <3>1. op[p].write \in held[q] /\ p # q
        BY <1>1, <2>1 DEF AnchorInvariant, LockInvariant, InOrder
      <3>2. Domain(op[p].write) \in shared[q] \cup exclusive[q]
        BY <3>1, DomainsLocked DEF AnchorInvariant
      <3>. QED
        BY <1>2, <3>1, <3>2 DEF AnchorInvariant, LockInvariant, Flocks
    <2>2. CASE ~(pc[q] = "reading" /\ op[p].write \in op[q].reads)
      BY <1>2, <2>2 DEF View
    <2>. QED
      BY <2>1, <2>2
  <1>5. \E t \in Trees \ {tree[op[p].write]} : tree' = [tree EXCEPT ![op[p].write] = t]
    <2>1. /\ Unused(op[p].write) # {}
          /\ tree' = [tree EXCEPT ![op[p].write] = CHOOSE t \in Unused(op[p].write) : TRUE]
      BY DEF Commit
    <2>2. (CHOOSE t \in Unused(op[p].write) : TRUE) \in Unused(op[p].write)
      BY <2>1
    <2>. QED
      BY <2>1, <2>2 DEF Unused
  <1>6. Snapshots!Publish(op[p].write)
    BY <1>3, <1>4, <1>5 DEF Snapshots!Publish, SnapshotViews
  <1>. QED
    BY <1>2, <1>6 DEF Snapshots!Next

\* No step leads from the protected read into it.
LEMMA NotReadingOn ==
    ASSUME TypeOK, NEW p \in Processes,
           \/ \E o \in OperationsOf[p] : BeginRead(p, o) \/ BeginPublish(p, o)
           \/ Step(p) \/ PassGate(p) \/ Fail(p) \/ Crash(p)
    PROVE  pc[p] # "reading" \/ pc'[p] # "reading"
  <1>1. ASSUME NEW r \in Roots,
               \/ Prepare(p, r) \/ Reenter(p, r) \/ TakeGate(p, r) \/ Drain(p, r)
               \/ OpenLease(p, r) \/ Enter(p, r) \/ Confirm(p, r) \/ Downgrade(p, r)
               \/ LockData(p, r) \/ LeaseReplaced(p, r) \/ ReleaseRead(p, r)
        PROVE  pc[p] # "reading"
    BY <1>1 DEF Prepare, Reenter, TakeGate, Drain, OpenLease, Enter, Confirm, Downgrade,
       LockData, LeaseReplaced, ReleaseRead
  <1>2. ASSUME \/ \E o \in OperationsOf[p] : BeginRead(p, o) \/ BeginPublish(p, o)
               \/ DoneReading(p) \/ StartReads(p) \/ Commit(p) \/ ReleaseWrite(p)
        PROVE  pc[p] # "reading"
    BY <1>2 DEF BeginRead, BeginPublish, DoneReading, StartReads, Commit, ReleaseWrite
  <1>3. ASSUME EndRead(p) \/ Fail(p) \/ Crash(p) PROVE pc'[p] # "reading"
    BY <1>3 DEF EndRead, Fail, Crash, Finish, Goto, TypeOK
  <1>. QED
    BY <1>1, <1>2, <1>3 DEF Step, PassGate

\* Only a commit replaces a tree.
LEMMA TreesKept ==
    ASSUME NEW p \in Processes,
           \/ \E o \in OperationsOf[p] : BeginRead(p, o) \/ BeginPublish(p, o)
           \/ (Step(p) /\ ~Commit(p)) \/ PassGate(p) \/ Fail(p) \/ Crash(p)
    PROVE  tree' = tree
  BY DEF Step, PassGate, BeginRead, BeginPublish, Prepare, Reenter, TakeGate, Drain, OpenLease,
     Enter, Confirm, Downgrade, LockData, LeaseReplaced, ReleaseRead, EndRead, DoneReading, StartReads,
     ReleaseWrite, Fail, Crash, disk

\* With no operation that reads two artifacts of one domain, the leases give
\* every reader one cut through the published trees: ImplementsSnapshots.
THEOREM LeasesImplementSnapshots ==
    ASSUME SeparateDomains
    PROVE  Spec => ImplementsSnapshots
  <1>1. Init => Snapshots!Init
    <2>. SUFFICES ASSUME Init PROVE Snapshots!Init
      OBVIOUS
    <2>1. tree \in [Roots -> Trees]
      BY InitTypes DEF TypeOK
    <2>2. \A p \in Processes : pc[p] # "reading"
      BY DEF Init
    <2>3. SnapshotViews = [p \in Processes |-> NothingRead]
      BY <2>2, ViewNothing DEF SnapshotViews
    <2>. QED
      BY <2>1, <2>3 DEF Snapshots!Init, Snapshots!Nothing, SnapshotViews, NothingRead
  <1>2. AnchorInvariant /\ [Next]_vars => [Snapshots!Next]_<<tree, SnapshotViews>>
    <2>. SUFFICES ASSUME AnchorInvariant, [Next]_vars
                  PROVE  [Snapshots!Next]_<<tree, SnapshotViews>>
      OBVIOUS
    <2>1. TypeOK /\ TypeOK'
      BY NextTypes DEF AnchorInvariant, LockInvariant
    <2>2. ReadsOneCut'
      <3>1. AnchorInvariant'
        BY NextAnchors
      <3>. QED
        BY <3>1, ReadingWhatIsPublished, PTL
    <2>3. ASSUME NEW p \in Processes,
                 \/ \E o \in OperationsOf[p] : BeginRead(p, o) \/ BeginPublish(p, o)
                 \/ Step(p) \/ PassGate(p) \/ Fail(p) \/ Crash(p)
          PROVE  Snapshots!Next
      <3>1. CASE Commit(p)
        BY <3>1, CommitImplements
      <3>2. CASE ~Commit(p)
        <4>1. \A q \in Processes \ {p} : Keeps(q)
          BY <2>1, <2>3, OthersKeep
        <4>2. tree' = tree
          BY <2>3, <3>2, TreesKept
        <4>3. pc[p] # "reading" \/ pc'[p] # "reading"
          BY <2>1, <2>3, NotReadingOn
        <4>. QED
          BY <2>1, <2>2, <4>1, <4>2, <4>3, StepImplements
      <3>. QED
        BY <3>1, <3>2
    <2>4. ASSUME NEW r \in Roots, ReplaceLease(r) PROVE UNCHANGED <<tree, SnapshotViews>>
      BY <2>4 DEF ReplaceLease, lease, SnapshotViews, View
    <2>5. CASE UNCHANGED vars
      BY <2>5 DEF vars, disk, lease, SnapshotViews, View
    <2>. QED
      BY <2>3, <2>4, <2>5 DEF Next
  <1>. QED
    BY <1>1, <1>2, AnchorsAreCurrent, PTL
    DEF Spec, ImplementsSnapshots, Snapshots!Spec, Snapshots!vars, SnapshotViews
=============================================================================
