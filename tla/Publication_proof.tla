-------------------------- MODULE Publication_proof --------------------------
(***************************************************************************)
(* Proofs about AtomicDirectoryPublisher: whatever fails, is killed or     *)
(* loses power, the target is a complete tree, the caller is told the      *)
(* truth, and the publisher implements a register of complete trees.       *)
(***************************************************************************)
EXTENDS Publication, TLAPS

\* Points before and after the exchange that makes a tree visible.
Before == {"idle", "waiting", "leased", "checked", "named", "locked",
           "staged", "written", "synced"}
After  == {"swapped", "committed", "durable"}

\* What the publication of a tree depends on: a tree is visible, or may be
\* after a loss of power, only if its payload is on disk.
Sound ==
  /\ \A d \in journal : d.target \in past \ barred
  /\ \A t \in past : t = None \/ t \in synced
  /\ \A a \in Attempt : pc[a] = "written" => a \in full
  /\ \A a \in Attempt : pc[a] \in {"synced"} \cup After => a \in synced

\* What is known of one attempt by the point it has reached.
Reported ==
  \A a \in Attempt :
    /\ pc[a] \in Before => a \notin past
    /\ pc[a] \in After => a \in past
    /\ pc[a] \in Before \cup After => outcome[a] = "none"

IInv == TypeOK /\ Sound /\ Reported /\ ReportsTrue

-----------------------------------------------------------------------------

LEMMA InitHolds == Init => IInv
  BY PublicationAssumption
  DEF Init, IInv, TypeOK, Sound, Reported, ReportsTrue, Dir, Points, Outcomes,
      Before, After, Entered, Bare, Staged, Leaving

\* What leaving changes: the attempt goes out, with a result of its own.
LEMMA LeaveType ==
    ASSUME NEW a \in Attempt, pc \in [Attempt -> Points],
           outcome \in [Attempt -> Outcomes], NEW r \in Outcomes, Leave(a, r)
    PROVE  /\ pc' \in [Attempt -> Points] /\ pc'[a] \in Leaving
           /\ \A b \in Attempt : b # a => pc'[b] = pc[b]
           /\ outcome' \in [Attempt -> Outcomes] /\ outcome'[a] = r
           /\ \A b \in Attempt : b # a => outcome'[b] = outcome[b]
  <1>1. WayOut(pc[a]) \in Leaving /\ WayOut(pc[a]) \in Points
    BY DEF WayOut, Leaving, Points
  <1>. QED
    BY <1>1 DEF Leave, Goto

\* A move to a point before the exchange or out of the publisher.
LEMMA GotoType ==
    ASSUME NEW a \in Attempt, pc \in [Attempt -> Points], NEW q \in Points,
           Goto(a, q)
    PROVE  /\ pc' \in [Attempt -> Points] /\ pc'[a] = q
           /\ \A b \in Attempt : b # a => pc'[b] = pc[b]
  BY DEF Goto

LEMMA StackType ==
    ASSUME NEW s \in Seq(Attempt), s # <<>>
    PROVE  SubSeq(s, 1, Len(s) - 1) \in Seq(Attempt)
  OBVIOUS

\* The invariant over the points alone: nothing is installed.
LEMMA Elsewhere ==
    ASSUME IInv, NEW a \in Attempt,
           pc' \in [Attempt -> Points],
           \A b \in Attempt : b # a => pc'[b] = pc[b] /\ outcome'[b] = outcome[b],
           outcome' \in [Attempt -> Outcomes],
           \/ /\ pc[a] \in Before /\ pc'[a] \in Before \ {"written", "synced"}
              /\ outcome'[a] = outcome[a]
           \/ /\ pc[a] \in Before /\ pc'[a] \in Leaving
              /\ outcome'[a] \in {"exists", "locked", "not committed"}
           \/ /\ pc[a] \in After /\ pc'[a] \in After /\ outcome'[a] = outcome[a]
           \/ /\ pc[a] \in After /\ pc'[a] \in Leaving
              /\ outcome'[a] \in {"published", "interrupted", "uncertain", "not cleaned"}
           \/ /\ pc[a] \in Leaving /\ pc'[a] \in Leaving \cup {"ended"}
              /\ outcome'[a] = outcome[a],
           UNCHANGED <<full, synced, past>>
    PROVE  /\ Reported' /\ ReportsTrue'
           /\ \A t \in past' : t = None \/ t \in synced'
           /\ \A b \in Attempt : pc'[b] = "written" => b \in full'
           /\ \A b \in Attempt : pc'[b] \in {"synced"} \cup After => b \in synced'
  <1>1. Reported'
    BY DEF IInv, Reported, Before, After, Leaving
  <1>2. ReportsTrue'
    BY DEF IInv, Reported, ReportsTrue, Before, After, Leaving
  <1>. QED
    BY <1>1, <1>2 DEF IInv, Sound, Before, After, Leaving

\* A directory whose target is the old one stays within what may be found.
LEMMA SameTarget ==
    ASSUME IInv, dir' \in Dir, dir'.target = dir.target,
           journal' \in {journal, journal \cup {dir'}, {dir'}}, dir' \in journal',
           UNCHANGED <<past, barred>>
    PROVE  /\ journal' \subseteq Dir
           /\ \A d \in journal' : d.target \in past' \ barred'
  BY DEF IInv, TypeOK, Sound

LEMMA ResultType ==
    ASSUME NEW x
    PROVE  Verdict(x) \in Outcomes
  BY DEF Verdict, Outcomes

\* The steps that touch neither the directory nor the history.
LEMMA QuietStep ==
    ASSUME IInv, NEW a \in Attempt,
           \/ Begin(a) \/ AcquireLease(a) \/ CheckTarget(a) \/ Identify(a)
           \/ AbortBody(a) \/ ReleaseLease(a) \/ Fail(a)
           \/ FailLeaving(a) \/ MarkCommitted(a)
    PROVE  IInv'
  <1>. USE PublicationAssumption
  <1>0. TypeOK /\ Sound /\ OwnerOf[a] \in Owner
    BY DEF IInv
  <1>1. UNCHANGED <<dir, journal, full, synced, past, barred>>
    BY DEF Begin, AcquireLease, CheckTarget, Identify, AbortBody, ReleaseLease,
           Fail, FailLeaving, MarkCommitted, disk, trail
  <1>2. stack' \in [Owner -> Seq(Attempt)] /\ lease' \in Owner \cup {None}
        /\ faults' \in 0 .. MaxFaults
    <2>1. CASE ReleaseLease(a)
      <3>1. stack[OwnerOf[a]] \in Seq(Attempt) /\ stack[OwnerOf[a]] # <<>>
        BY <1>0, <2>1 DEF ReleaseLease, At, Running, TypeOK
      <3>2. SubSeq(stack[OwnerOf[a]], 1, Len(stack[OwnerOf[a]]) - 1) \in Seq(Attempt)
        BY <3>1, StackType
      <3>. QED
        BY <1>0, <2>1, <3>2 DEF ReleaseLease, TypeOK
    <2>2. CASE Begin(a)
      BY <1>0, <2>2 DEF Begin, TypeOK
    <2>3. CASE Fail(a) \/ FailLeaving(a)
      BY <1>0, <2>3 DEF Fail, FailLeaving, Fault, TypeOK
    <2>4. CASE AcquireLease(a) \/ CheckTarget(a) \/ Identify(a) \/ AbortBody(a)
               \/ MarkCommitted(a)
      BY <1>0, <2>4 DEF AcquireLease, CheckTarget, Identify, AbortBody,
                        MarkCommitted, TypeOK
    <2>. QED
      BY <2>1, <2>2, <2>3, <2>4
  <1>3. /\ pc' \in [Attempt -> Points] /\ outcome' \in [Attempt -> Outcomes]
        /\ Reported' /\ ReportsTrue'
        /\ \A b \in Attempt : pc'[b] = "written" => b \in full'
        /\ \A b \in Attempt : pc'[b] \in {"synced"} \cup After => b \in synced'
    <2>. USE DEF Before, After, Leaving, Points, Entered, Bare, Staged
    <2>0. pc \in [Attempt -> Points] /\ outcome \in [Attempt -> Outcomes]
      BY <1>0 DEF TypeOK
    <2>1. CASE Begin(a)
      <3>1. pc[a] = "idle" /\ Goto(a, "waiting") /\ outcome' = outcome
        BY <2>1 DEF Begin
      <3>. QED
        BY <1>1, <2>0, <3>1, GotoType, Elsewhere, ZenonT(40)
    <2>2. CASE AcquireLease(a)
      <3>1. pc[a] = "waiting" /\ Goto(a, "leased") /\ outcome' = outcome
        BY <2>2 DEF AcquireLease, At
      <3>. QED
        BY <1>1, <2>0, <3>1, GotoType, Elsewhere, ZenonT(40)
    <2>3. CASE CheckTarget(a)
      <3>1. CASE Leave(a, "exists")
        <4>1. pc[a] = "leased" /\ "exists" \in Outcomes
          BY <2>3 DEF CheckTarget, At, Outcomes
        <4>. QED
          BY <1>1, <2>0, <3>1, <4>1, LeaveType, Elsewhere, ZenonT(40)
      <3>2. CASE Goto(a, "checked") /\ outcome' = outcome
        <4>1. pc[a] = "leased"
          BY <2>3 DEF CheckTarget, At
        <4>. QED
          BY <1>1, <2>0, <3>2, <4>1, GotoType, Elsewhere, ZenonT(40)
      <3>. QED
        BY <2>3, <3>1, <3>2 DEF CheckTarget
    <2>4. CASE Identify(a)
      <3>1. pc[a] = "named" /\ Goto(a, "locked") /\ outcome' = outcome
        BY <2>4 DEF Identify, At
      <3>. QED
        BY <1>1, <2>0, <3>1, GotoType, Elsewhere, ZenonT(40)
    <2>5. CASE AbortBody(a)
      <3>1. pc[a] \in {"staged", "written"} /\ Leave(a, "not committed")
            /\ "not committed" \in Outcomes
        BY <2>5 DEF AbortBody, Outcomes
      <3>. QED
        BY <1>1, <2>0, <3>1, LeaveType, Elsewhere, ZenonT(40)
    <2>6. CASE ReleaseLease(a)
      <3>1. pc[a] = "unlocked" /\ Goto(a, "ended") /\ outcome' = outcome
        BY <2>6 DEF ReleaseLease, At
      <3>. QED
        BY <1>1, <2>0, <3>1, GotoType, Elsewhere, ZenonT(40)
    <2>7. CASE Fail(a)
      <3>1. pc[a] \in Before \cup After /\ Leave(a, Verdict(pc[a]))
        BY <2>7 DEF Fail
      <3>2. pc[a] \in Before => Verdict(pc[a]) = "not committed"
        BY DEF Verdict
      <3>3. pc[a] \in After => Verdict(pc[a]) \in {"interrupted", "uncertain", "not cleaned"}
        BY DEF Verdict
      <3>4. Verdict(pc[a]) \in Outcomes
        BY ResultType
      <3>5. /\ pc' \in [Attempt -> Points] /\ pc'[a] \in Leaving
            /\ \A b \in Attempt : b # a => pc'[b] = pc[b]
            /\ outcome' \in [Attempt -> Outcomes] /\ outcome'[a] = Verdict(pc[a])
            /\ \A b \in Attempt : b # a => outcome'[b] = outcome[b]
        BY <2>0, <3>1, <3>4, LeaveType
      <3>6. CASE pc[a] \in Before
        BY <1>1, <3>2, <3>5, <3>6, Elsewhere, ZenonT(40)
      <3>7. CASE pc[a] \in After
        BY <1>1, <3>3, <3>5, <3>7, Elsewhere, ZenonT(40)
      <3>. QED
        BY <3>1, <3>6, <3>7
    <2>8. CASE FailLeaving(a)
      <3>1. /\ outcome' = outcome
            /\ \/ pc[a] = "cleaning" /\ Goto(a, "releasing")
               \/ pc[a] = "releasing" /\ Goto(a, "unlocked")
        BY <2>8 DEF FailLeaving
      <3>2. CASE pc[a] = "cleaning" /\ Goto(a, "releasing")
        BY <1>1, <2>0, <3>1, <3>2, GotoType, Elsewhere, ZenonT(40)
      <3>3. CASE pc[a] = "releasing" /\ Goto(a, "unlocked")
        BY <1>1, <2>0, <3>1, <3>3, GotoType, Elsewhere, ZenonT(40)
      <3>. QED
        BY <3>1, <3>2, <3>3
    <2>9. CASE MarkCommitted(a)
      <3>1. pc[a] = "swapped" /\ Goto(a, "committed") /\ outcome' = outcome
        BY <2>9 DEF MarkCommitted, At
      <3>. QED
        BY <1>1, <2>0, <3>1, GotoType, Elsewhere, ZenonT(40)
    <2>. QED
      BY <2>1, <2>2, <2>3, <2>4, <2>5, <2>6, <2>7, <2>8, <2>9
  <1>4. TypeOK'
    BY <1>0, <1>1, <1>2, <1>3 DEF TypeOK
  <1>5. Sound'
    BY <1>0, <1>1, <1>3 DEF Sound
  <1>. QED
    BY <1>3, <1>4, <1>5 DEF IInv

\* The steps that change the directory but not what the target names.
LEMMA DirectoryStep ==
    ASSUME IInv, NEW a \in Attempt,
           \/ CreateLock(a) \/ MakeStaging(a) \/ SyncParent(a) \/ RemoveOld(a)
           \/ CleanStaging(a) \/ ReleaseLock(a)
    PROVE  IInv'
  <1>. USE PublicationAssumption
  <1>0. TypeOK /\ Sound /\ dir \in Dir /\ dir \in journal
    BY DEF IInv, TypeOK
  <1>1. UNCHANGED <<full, synced, past, lease, stack, faults>>
    BY DEF CreateLock, MakeStaging, SyncParent, RemoveOld, CleanStaging, ReleaseLock, trail
  <1>2. /\ dir' \in Dir /\ dir'.target = dir.target /\ dir' \in journal'
        /\ journal' \in {journal, journal \cup {dir'}, {dir'}}
    <2>1. CASE CreateLock(a) \/ ReleaseLock(a)
      BY <1>0, <2>1 DEF CreateLock, ReleaseLock, Change, Dir
    <2>2. CASE MakeStaging(a) \/ CleanStaging(a)
      BY <1>0, <2>2 DEF MakeStaging, CleanStaging, Change, Dir
    <2>3. CASE SyncParent(a)
      BY <1>0, <2>3 DEF SyncParent
    <2>4. CASE RemoveOld(a)
      BY <1>0, <2>4 DEF RemoveOld, Dir
    <2>. QED
      BY <2>1, <2>2, <2>3, <2>4
  <1>3. /\ journal' \subseteq Dir /\ barred' \subseteq past'
        /\ \A d \in journal' : d.target \in past' \ barred'
    <2>1. CASE SyncParent(a)
      BY <1>0, <1>1, <2>1 DEF SyncParent, Sound
    <2>2. CASE barred' = barred
      BY <1>0, <1>1, <1>2, <2>2, SameTarget DEF TypeOK
    <2>. QED
      BY <2>1, <2>2 DEF CreateLock, MakeStaging, RemoveOld, CleanStaging, ReleaseLock, trail
  <1>4. /\ pc' \in [Attempt -> Points] /\ outcome' \in [Attempt -> Outcomes]
        /\ Reported' /\ ReportsTrue'
        /\ \A b \in Attempt : pc'[b] = "written" => b \in full'
        /\ \A b \in Attempt : pc'[b] \in {"synced"} \cup After => b \in synced'
    <2>. USE DEF Before, After, Leaving, Points, Entered, Bare, Staged
    <2>0. pc \in [Attempt -> Points] /\ outcome \in [Attempt -> Outcomes]
      BY <1>0 DEF TypeOK
    <2>1. CASE CreateLock(a)
      <3>1. pc[a] = "checked" /\ "locked" \in Outcomes
        BY <2>1 DEF CreateLock, At, Outcomes
      <3>2. CASE Leave(a, "locked")
        BY <1>1, <2>0, <3>1, <3>2, LeaveType, Elsewhere, ZenonT(40)
      <3>3. CASE Goto(a, "named") /\ outcome' = outcome
        BY <1>1, <2>0, <3>1, <3>3, GotoType, Elsewhere, ZenonT(40)
      <3>. QED
        BY <2>1, <3>2, <3>3 DEF CreateLock
    <2>2. CASE MakeStaging(a)
      <3>1. pc[a] = "locked" /\ Goto(a, "staged") /\ outcome' = outcome
        BY <2>2 DEF MakeStaging, At, Outcomes
      <3>. QED
        BY <1>1, <2>0, <3>1, GotoType, Elsewhere, ZenonT(40)
    <2>3. CASE SyncParent(a)
      <3>1. pc[a] = "committed" /\ Goto(a, "durable") /\ outcome' = outcome
        BY <2>3 DEF SyncParent, At, Outcomes
      <3>. QED
        BY <1>1, <2>0, <3>1, GotoType, Elsewhere, ZenonT(40)
    <2>4. CASE RemoveOld(a)
      <3>1. pc[a] = "durable" /\ Leave(a, "published") /\ "published" \in Outcomes
        BY <2>4 DEF RemoveOld, At, Outcomes
      <3>. QED
        BY <1>1, <2>0, <3>1, LeaveType, Elsewhere, ZenonT(40)
    <2>5. CASE CleanStaging(a)
      <3>1. pc[a] = "cleaning" /\ Goto(a, "releasing") /\ outcome' = outcome
        BY <2>5 DEF CleanStaging, At, Outcomes
      <3>. QED
        BY <1>1, <2>0, <3>1, GotoType, Elsewhere, ZenonT(40)
    <2>6. CASE ReleaseLock(a)
      <3>1. pc[a] = "releasing" /\ Goto(a, "unlocked") /\ outcome' = outcome
        BY <2>6 DEF ReleaseLock, At, Outcomes
      <3>. QED
        BY <1>1, <2>0, <3>1, GotoType, Elsewhere, ZenonT(40)
    <2>. QED
      BY <2>1, <2>2, <2>3, <2>4, <2>5, <2>6
  <1>5. TypeOK'
    BY <1>0, <1>1, <1>2, <1>3, <1>4 DEF TypeOK
  <1>6. Sound'
    BY <1>0, <1>1, <1>3, <1>4 DEF Sound
  <1>. QED
    BY <1>4, <1>5, <1>6 DEF IInv

\* The steps that write, sync and install a payload.
LEMMA PayloadStep ==
    ASSUME IInv, NEW a \in Attempt,
           WritePayload(a) \/ SyncPayload(a) \/ Swap(a)
    PROVE  IInv'
  <1>. USE PublicationAssumption
  <1>0. /\ TypeOK /\ Sound /\ Reported /\ ReportsTrue
        /\ dir \in Dir /\ dir \in journal
    BY DEF IInv, TypeOK
  <1>1. /\ UNCHANGED <<lease, stack, faults, outcome, barred>>
        /\ pc[a] \in {"staged", "written", "synced"}
        /\ pc' \in [Attempt -> Points] /\ \A b \in Attempt : b # a => pc'[b] = pc[b]
    <2>1. pc \in [Attempt -> Points] /\ {"written", "synced", "swapped"} \subseteq Points
      BY <1>0 DEF TypeOK, Points, Entered, Staged
    <2>2. \E q \in {"written", "synced", "swapped"} : Goto(a, q)
      BY DEF WritePayload, SyncPayload, Swap
    <2>. QED
      BY <2>1, <2>2, GotoType DEF WritePayload, SyncPayload, Swap, At, trail
  <1>2. CASE WritePayload(a)
    <2>1. pc'[a] = "written" /\ full' = full \cup {a} /\ UNCHANGED <<dir, journal, synced, past>>
      BY <1>0, <1>2 DEF WritePayload, Goto, TypeOK, trail
    <2>2. TypeOK'
      BY <1>0, <1>1, <2>1 DEF TypeOK
    <2>3. Sound'
      BY <1>0, <1>1, <2>1 DEF Sound, After
    <2>4. Reported' /\ ReportsTrue'
      BY <1>0, <1>1, <2>1 DEF Reported, ReportsTrue, Before, After
    <2>. QED
      BY <2>2, <2>3, <2>4 DEF IInv
  <1>3. CASE SyncPayload(a)
    <2>1. /\ pc[a] = "written" /\ pc'[a] = "synced" /\ synced' = synced \cup {a}
          /\ UNCHANGED <<dir, journal, full, past>>
      BY <1>0, <1>3 DEF SyncPayload, At, Goto, TypeOK, trail
    <2>2. TypeOK'
      BY <1>0, <1>1, <2>1 DEF TypeOK, Sound
    <2>3. Sound'
      BY <1>0, <1>1, <2>1 DEF Sound, After
    <2>4. Reported' /\ ReportsTrue'
      BY <1>0, <1>1, <2>1 DEF Reported, ReportsTrue, Before, After
    <2>. QED
      BY <2>2, <2>3, <2>4 DEF IInv
  <1>4. CASE Swap(a)
    <2>1. /\ pc[a] = "synced" /\ pc'[a] = "swapped" /\ past' = past \cup {a}
          /\ dir' = [dir EXCEPT !.target = a, !.temps[a] = dir.target]
          /\ journal' = journal \cup {dir'} /\ UNCHANGED <<full, synced>>
      BY <1>0, <1>4 DEF Swap, At, Goto, Change, TypeOK
    <2>2. a \notin past /\ a \in synced
      BY <1>0, <2>1 DEF Reported, Before, Sound
    <2>3. dir' \in Dir /\ dir'.target = a
      BY <1>0, <2>1 DEF Dir
    <2>4. TypeOK'
      BY <1>0, <1>1, <2>1, <2>3 DEF TypeOK
    <2>5. a \notin barred
      BY <1>0, <2>2 DEF TypeOK
    <2>6. Sound'
      BY <1>0, <1>1, <2>1, <2>2, <2>3, <2>5 DEF Sound, After
    <2>7. outcome[a] = "none"
      BY <1>0, <2>1 DEF Reported, Before
    <2>8. Reported' /\ ReportsTrue'
      BY <1>0, <1>1, <2>1, <2>7 DEF Reported, ReportsTrue, Before, After
    <2>. QED
      BY <2>4, <2>6, <2>8 DEF IInv
  <1>. QED
    BY <1>2, <1>3, <1>4

\* A kill or a loss of power leaves dead attempts, and an operator nothing
\* but one lock file less.
LEMMA DisturbanceStep ==
    ASSUME IInv, \/ \E o \in Owner : Crash(o)
                 \/ LosePower \/ RemoveStaleLock
    PROVE  IInv'
  <1>. USE PublicationAssumption
  <1>0. /\ TypeOK /\ Sound /\ Reported /\ ReportsTrue
        /\ dir \in Dir /\ dir \in journal
    BY DEF IInv, TypeOK
  <1>1. UNCHANGED <<synced, past, barred, outcome>> /\ faults' \in 0 .. MaxFaults
    BY <1>0 DEF Crash, LosePower, RemoveStaleLock, Fault, TypeOK, disk, trail
  <1>2. /\ pc' \in [Attempt -> Points]
        /\ \A b \in Attempt : pc'[b] \in {"dead", pc[b]}
    BY <1>0 DEF Crash, LosePower, RemoveStaleLock, TypeOK, Points
  <1>3. /\ stack' \in [Owner -> Seq(Attempt)] /\ lease' \in Owner \cup {None}
    <2>1. CASE \E o \in Owner : Crash(o)
      BY <1>0, <2>1 DEF Crash, TypeOK
    <2>2. CASE LosePower
      BY <2>2 DEF LosePower
    <2>3. CASE RemoveStaleLock
      BY <1>0, <2>3 DEF RemoveStaleLock, TypeOK
    <2>. QED
      BY <2>1, <2>2, <2>3
  <1>4. /\ dir' \in Dir /\ dir' \in journal' /\ journal' \subseteq Dir
        /\ \A d \in journal' : d.target \in past' \ barred'
    <2>1. CASE \E o \in Owner : Crash(o)
      BY <1>0, <1>1, <2>1 DEF Crash, disk, TypeOK, Sound
    <2>2. CASE LosePower
      BY <1>0, <1>1, <2>2 DEF LosePower, TypeOK, Sound
    <2>3. CASE RemoveStaleLock
      <3>1. dir' = [dir EXCEPT !.lock = None] /\ journal' = journal \cup {dir'}
        BY <2>3 DEF RemoveStaleLock, Change
      <3>2. dir' \in Dir /\ dir'.target = dir.target
        BY <1>0, <3>1 DEF Dir
      <3>. QED
        BY <1>1, <3>1, <3>2, SameTarget
    <2>. QED
      BY <2>1, <2>2, <2>3
  <1>5. /\ full' \subseteq full /\ synced' \subseteq full'
        /\ \A b \in Attempt : pc'[b] = "written" => b \in full'
    <2>1. CASE LosePower
      <3>1. full' \subseteq full /\ synced \subseteq full'
        BY <1>0, <2>1 DEF LosePower, TypeOK
      <3>2. \A b \in Attempt : pc'[b] # "written"
        BY <1>0, <2>1 DEF LosePower, Entered, Staged, TypeOK
      <3>. QED
        BY <1>1, <3>1, <3>2
    <2>2. CASE full' = full
      BY <1>0, <1>1, <1>2, <2>2 DEF TypeOK, Sound
    <2>. QED
      BY <2>1, <2>2 DEF Crash, RemoveStaleLock, disk
  <1>6. TypeOK'
    BY <1>0, <1>1, <1>2, <1>3, <1>4, <1>5 DEF TypeOK
  <1>7. Sound'
    BY <1>0, <1>1, <1>2, <1>4, <1>5 DEF Sound, After
  <1>8. Reported' /\ ReportsTrue'
    BY <1>0, <1>1, <1>2 DEF Reported, ReportsTrue, Before, After
  <1>. QED
    BY <1>6, <1>7, <1>8 DEF IInv

LEMMA StepHolds == IInv /\ [Next]_vars => IInv'
  <1>. SUFFICES ASSUME IInv, [Next]_vars
                PROVE  IInv'
    OBVIOUS
  <1>1. ASSUME NEW a \in Attempt,
               Begin(a) \/ Step(a) \/ AbortBody(a) \/ Fail(a) \/ FailLeaving(a)
        PROVE  IInv'
    BY <1>1, QuietStep, DirectoryStep, PayloadStep DEF Step
  <1>2. CASE UNCHANGED vars
    BY <1>2 DEF vars, disk, trail, IInv, TypeOK, Sound, Reported, ReportsTrue
  <1>. QED
    BY <1>1, <1>2, DisturbanceStep DEF Next

LEMMA Invariance == Spec => []IInv
  BY InitHolds, StepHolds, PTL DEF Spec

-----------------------------------------------------------------------------

\* The state of every publication is well typed, in every reachable state.
THEOREM TypeCorrect == Spec => []TypeOK
  BY Invariance, PTL DEF IInv

\* commit() syncs a payload before it becomes visible: the target is absent
\* or complete after any failure, kill or loss of power.
THEOREM TargetIsComplete == Spec => []TargetComplete
  <1>1. IInv => TargetComplete
    BY DEF IInv, TypeOK, Sound, TargetComplete
  <1>. QED
    BY <1>1, Invariance, PTL

\* No loss of power brings back what a confirmed publication replaced.
THEOREM ConfirmedIsDurable == Spec => []ConfirmedSurvives
  <1>1. IInv => ConfirmedSurvives
    BY DEF IInv, Sound, ConfirmedSurvives
  <1>. QED
    BY <1>1, Invariance, PTL

\* What commit() and __enter__() report of a publication is what happened.
THEOREM ReportsAreTrue == Spec => []ReportsTrue
  BY Invariance, PTL DEF IInv

\* Every step of the publisher installs a new tree, confirms, loses what was
\* not confirmed, or is invisible.
LEMMA StepRefines ==
    ASSUME IInv, IInv', [Next]_vars
    PROVE  [Register!RegisterNext]_<<dir.target, past, barred>>
  <1>. USE PublicationAssumption DEF Register!RegisterNext
  <1>0. TypeOK /\ Sound /\ Reported /\ dir \in Dir /\ dir \in journal
    BY DEF IInv, TypeOK
  <1>1. CASE \E a \in Attempt : Swap(a)
    <2>1. PICK a \in Attempt : Swap(a)
      BY <1>1
    <2>2. a \notin past /\ past' = past \cup {a} /\ barred' = barred
      BY <1>0, <2>1 DEF Swap, At, Reported, Before
    <2>3. dir'.target = a
      BY <1>0, <2>1 DEF Swap, Change, Dir
    <2>. QED
      BY <2>2, <2>3 DEF Register!Install
  <1>2. CASE \E a \in Attempt : SyncParent(a)
    BY <1>2 DEF SyncParent, Register!Confirm
  <1>3. CASE LosePower
    BY <1>0, <1>3 DEF LosePower, trail, Sound, Register!Revert
  <1>4. ASSUME NEW a \in Attempt,
               \/ Begin(a) \/ AcquireLease(a) \/ CheckTarget(a) \/ Identify(a)
               \/ AbortBody(a) \/ ReleaseLease(a) \/ Fail(a) \/ FailLeaving(a)
               \/ MarkCommitted(a) \/ WritePayload(a) \/ SyncPayload(a)
        PROVE  UNCHANGED <<dir.target, past, barred>>
    BY <1>4 DEF Begin, AcquireLease, CheckTarget, Identify, AbortBody, ReleaseLease,
                Fail, FailLeaving, MarkCommitted, WritePayload, SyncPayload, disk, trail
  <1>5. ASSUME NEW a \in Attempt,
               \/ CreateLock(a) \/ MakeStaging(a) \/ RemoveOld(a)
               \/ CleanStaging(a) \/ ReleaseLock(a)
        PROVE  UNCHANGED <<dir.target, past, barred>>
    BY <1>0, <1>5 DEF CreateLock, MakeStaging, RemoveOld, CleanStaging, ReleaseLock,
                      Change, Dir, trail
  <1>6. CASE RemoveStaleLock \/ \E o \in Owner : Crash(o)
    BY <1>0, <1>6 DEF RemoveStaleLock, Crash, Change, Dir, disk, trail
  <1>7. CASE UNCHANGED vars
    BY <1>7 DEF vars, disk, trail
  <1>. QED
    BY <1>1, <1>2, <1>3, <1>4, <1>5, <1>6, <1>7 DEF Next, Step

\* The publisher implements a register of complete trees, for any number of
\* processes, nested publications, failures, kills and losses of power.
THEOREM PublisherImplementsRegister == Spec => ImplementsRegister
  <1>1. Init => Register!RegisterInit
    BY DEF Init, Register!RegisterInit
  <1>2. IInv /\ IInv' /\ [Next]_vars => [Register!RegisterNext]_<<dir.target, past, barred>>
    BY StepRefines
  <1>. QED
    BY <1>1, <1>2, Invariance, PTL
    DEF Spec, ImplementsRegister, Register!RegisterSpec, Register!registerVars

-----------------------------------------------------------------------------
(* The locks: why the check of the target and the exchange are one         *)
(* decision, and why a lock file that outlives its attempt keeps every     *)
(* other attempt out.                                                      *)

Active  == Entered \cup Leaving

\* Points at which an attempt has the writer lock, and at which it relies on
\* what it has found under the target.
Holding == {"named", "locked", "staged", "written", "synced", "swapped",
            "committed", "durable"}
Relying == {"checked", "named", "locked", "staged", "written", "synced"}

\* The attempts under way are those on the stacks, each once and on that of
\* its owner; one with another inside has made its staging directory.
Nesting ==
  /\ \A o \in Owner : \A i \in DOMAIN stack[o] :
       OwnerOf[stack[o][i]] = o /\ pc[stack[o][i]] \in Active
  /\ \A o \in Owner : \A i, j \in DOMAIN stack[o] :
       stack[o][i] = stack[o][j] => i = j
  /\ \A o \in Owner : \A i \in DOMAIN stack[o] :
       i # Len(stack[o]) => pc[stack[o][i]] = "staged"
  /\ \A a \in Attempt : pc[a] \in Active =>
       \E i \in DOMAIN stack[OwnerOf[a]] : stack[OwnerOf[a]][i] = a

Leased  == \A a \in Attempt : pc[a] \in Entered \ {"waiting"} => lease = OwnerOf[a]
Locking == \A a \in Attempt : pc[a] \in Holding => dir.lock = a
Unreplaced ==
  \A a \in Attempt : pc[a] \in Relying /\ a \notin Overwrite => dir.target = None

LockInv == Nesting /\ Leased /\ Locking /\ Unreplaced

-----------------------------------------------------------------------------

LEMMA LockInit == Init => LockInv
  BY PublicationAssumption
  DEF Init, LockInv, Nesting, Leased, Locking, Unreplaced, Active, Holding,
      Relying, Entered, Leaving, Bare, Staged

\* What a step of the attempt on top of its stack has to preserve.
LEMMA LocalStep ==
    ASSUME TypeOK, LockInv, NEW a \in Attempt, Running(a), pc[a] \in Active,
           pc' \in [Attempt -> Points], pc'[a] \in Active,
           \A b \in Attempt : b # a => pc'[b] = pc[b],
           stack' = stack,
           pc'[a] \in Entered \ {"waiting"} => lease' = OwnerOf[a],
           pc'[a] \in Holding => dir'.lock = a,
           pc'[a] \in Relying /\ a \notin Overwrite => dir'.target = None,
           \A b \in Attempt : b # a =>
             /\ pc[b] \in Entered \ {"waiting"} => lease' = OwnerOf[b]
             /\ pc[b] \in Holding => dir'.lock = b
             /\ pc[b] \in Relying /\ b \notin Overwrite => dir'.target = None
    PROVE  LockInv'
  <1>. USE PublicationAssumption
  <1>0. Nesting /\ OwnerOf[a] \in Owner /\ stack \in [Owner -> Seq(Attempt)]
    BY DEF LockInv, TypeOK
  <1>1. \A o \in Owner : \A i \in DOMAIN stack[o] :
          stack[o][i] \in Attempt /\ i \in 1 .. Len(stack[o])
    BY <1>0
  <1>2. ASSUME NEW o \in Owner, NEW i \in DOMAIN stack[o], i # Len(stack[o])
        PROVE  stack[o][i] # a
    <2>1. SUFFICES ASSUME stack[o][i] = a PROVE FALSE
      OBVIOUS
    <2>2. o = OwnerOf[a]
      BY <1>0, <2>1 DEF Nesting
    <2>3. Len(stack[o]) \in DOMAIN stack[o] /\ stack[o][Len(stack[o])] = a
      BY <1>0, <1>1, <2>2 DEF Running
    <2>. QED
      BY <1>0, <1>2, <2>1, <2>3 DEF Nesting
  <1>3. Nesting'
    <2>1. \A o \in Owner : \A i \in DOMAIN stack[o] :
            OwnerOf[stack[o][i]] = o /\ pc'[stack[o][i]] \in Active
      BY <1>0, <1>1 DEF Nesting
    <2>2. \A o \in Owner : \A i \in DOMAIN stack[o] :
            i # Len(stack[o]) => pc'[stack[o][i]] = "staged"
      BY <1>0, <1>1, <1>2 DEF Nesting
    <2>3. \A b \in Attempt : pc'[b] \in Active =>
            \E i \in DOMAIN stack[OwnerOf[b]] : stack[OwnerOf[b]][i] = b
      BY <1>0 DEF Nesting
    <2>. QED
      BY <1>0, <2>1, <2>2, <2>3 DEF Nesting
  <1>4. Leased'
    BY DEF Leased
  <1>5. Locking'
    BY DEF Locking
  <1>6. Unreplaced'
    BY DEF Unreplaced
  <1>. QED
    BY <1>3, <1>4, <1>5, <1>6 DEF LockInv

\* A step that changes neither the target nor a lock, to a point that calls
\* for no more than the one before.
LEMMA QuietMove ==
    ASSUME TypeOK, LockInv, NEW a \in Attempt, Running(a), pc[a] \in Active,
           pc' \in [Attempt -> Points], pc'[a] \in Active,
           \A b \in Attempt : b # a => pc'[b] = pc[b],
           stack' = stack, lease' = lease,
           dir'.lock = dir.lock, dir'.target = dir.target,
           pc'[a] \in Entered \ {"waiting"} => pc[a] \in Entered \ {"waiting"},
           pc'[a] \in Holding => pc[a] \in Holding,
           pc'[a] \in Relying => pc[a] \in Relying
    PROVE  LockInv'
  <1>1. /\ pc'[a] \in Entered \ {"waiting"} => lease' = OwnerOf[a]
        /\ \A b \in Attempt : pc[b] \in Entered \ {"waiting"} => lease' = OwnerOf[b]
    BY DEF LockInv, Leased
  <1>2. /\ pc'[a] \in Holding => dir'.lock = a
        /\ \A b \in Attempt : pc[b] \in Holding => dir'.lock = b
    BY DEF LockInv, Locking
  <1>3. /\ pc'[a] \in Relying /\ a \notin Overwrite => dir'.target = None
        /\ \A b \in Attempt : pc[b] \in Relying /\ b \notin Overwrite
                                => dir'.target = None
    BY DEF LockInv, Unreplaced
  <1>. QED
    BY <1>1, <1>2, <1>3, LocalStep

\* Leaving is such a step, wherever it starts.
LEMMA LeavingMove ==
    ASSUME TypeOK, LockInv, NEW a \in Attempt, Running(a), pc[a] \in Active,
           NEW r, Leave(a, r),
           stack' = stack, lease' = lease,
           dir'.lock = dir.lock, dir'.target = dir.target
    PROVE  LockInv'
  <1>1. WayOut(pc[a]) \in Leaving /\ WayOut(pc[a]) \in Points
    BY DEF WayOut, Leaving, Points
  <1>2. /\ pc' \in [Attempt -> Points] /\ pc'[a] \in Leaving
        /\ \A b \in Attempt : b # a => pc'[b] = pc[b]
    BY <1>1 DEF Leave, Goto, TypeOK
  <1>3. /\ pc'[a] \in Active
        /\ pc'[a] \notin Entered /\ pc'[a] \notin Holding /\ pc'[a] \notin Relying
    BY <1>2 DEF Active, Entered, Bare, Staged, Leaving, Holding, Relying
  <1>. QED
    BY <1>2, <1>3, QuietMove

-----------------------------------------------------------------------------

\* The steps that change neither the target nor a lock.
LEMMA QuietSteps ==
    ASSUME TypeOK, LockInv, NEW a \in Attempt,
           \/ Identify(a) \/ MakeStaging(a) \/ WritePayload(a) \/ SyncPayload(a)
           \/ MarkCommitted(a) \/ SyncParent(a) \/ CleanStaging(a) \/ FailLeaving(a)
    PROVE  LockInv'
  <1>. USE DEF Active, Entered, Bare, Staged, Leaving, Holding, Relying, Points
  <1>1. Running(a) /\ stack' = stack /\ lease' = lease
    BY DEF Identify, MakeStaging, WritePayload, SyncPayload, MarkCommitted,
           SyncParent, CleanStaging, FailLeaving, At
  <1>2. dir'.lock = dir.lock /\ dir'.target = dir.target
    BY DEF Identify, MakeStaging, WritePayload, SyncPayload, MarkCommitted,
           SyncParent, CleanStaging, FailLeaving, Change, TypeOK, Dir, disk
  <1>3. \/ pc[a] = "named" /\ Goto(a, "locked")
        \/ pc[a] = "locked" /\ Goto(a, "staged")
        \/ pc[a] = "staged" /\ Goto(a, "written")
        \/ pc[a] = "written" /\ Goto(a, "synced")
        \/ pc[a] = "swapped" /\ Goto(a, "committed")
        \/ pc[a] = "committed" /\ Goto(a, "durable")
        \/ pc[a] = "cleaning" /\ Goto(a, "releasing")
        \/ pc[a] = "releasing" /\ Goto(a, "unlocked")
    BY DEF Identify, MakeStaging, WritePayload, SyncPayload, MarkCommitted,
           SyncParent, CleanStaging, FailLeaving, At
  <1>4. PICK q \in Points : Goto(a, q)
    BY <1>3
  <1>5. /\ pc' \in [Attempt -> Points] /\ pc'[a] = q
        /\ \A b \in Attempt : b # a => pc'[b] = pc[b]
    BY <1>4 DEF Goto, TypeOK
  <1>6. /\ pc[a] \in Active /\ pc'[a] \in Active
        /\ pc'[a] \in Entered \ {"waiting"} => pc[a] \in Entered \ {"waiting"}
        /\ pc'[a] \in Holding => pc[a] \in Holding
        /\ pc'[a] \in Relying => pc[a] \in Relying
    BY <1>3 DEF Goto, TypeOK
  <1>. QED
    BY <1>1, <1>2, <1>5, <1>6, QuietMove

\* The steps that leave.
LEMMA LeavingSteps ==
    ASSUME TypeOK, LockInv, NEW a \in Attempt,
           AbortBody(a) \/ Fail(a) \/ RemoveOld(a)
    PROVE  LockInv'
  <1>1. /\ Running(a) /\ pc[a] \in Active /\ stack' = stack /\ lease' = lease
        /\ \E r : Leave(a, r)
    BY DEF AbortBody, Fail, RemoveOld, At, Active, Entered, Staged, Bare
  <1>2. dir'.lock = dir.lock /\ dir'.target = dir.target
    BY DEF AbortBody, Fail, RemoveOld, TypeOK, Dir, disk
  <1>. QED
    BY <1>1, <1>2, LeavingMove

LEMMA AcquireStep ==
    ASSUME TypeOK, LockInv, NEW a \in Attempt, AcquireLease(a)
    PROVE  LockInv'
  <1>. USE DEF Active, Entered, Bare, Staged, Leaving, Holding, Relying, Points
  <1>1. /\ pc[a] = "waiting" /\ Running(a) /\ stack' = stack /\ dir' = dir
        /\ pc' \in [Attempt -> Points] /\ pc'[a] = "leased"
        /\ \A b \in Attempt : b # a => pc'[b] = pc[b]
        /\ lease' = OwnerOf[a] /\ lease \in {None, OwnerOf[a]}
    BY DEF AcquireLease, At, Goto, TypeOK, disk
  <1>2. \A b \in Attempt : pc[b] \in Entered \ {"waiting"} => lease' = OwnerOf[b]
    <2>1. \A b \in Attempt : OwnerOf[b] # None
      BY PublicationAssumption
    <2>. QED
      BY <1>1, <2>1 DEF LockInv, Leased
  <1>3. \A b \in Attempt : /\ pc[b] \in Holding => dir'.lock = b
                           /\ pc[b] \in Relying /\ b \notin Overwrite => dir'.target = None
    BY <1>1 DEF LockInv, Locking, Unreplaced
  <1>. QED
    BY <1>1, <1>2, <1>3, LocalStep

LEMMA CheckStep ==
    ASSUME TypeOK, LockInv, NEW a \in Attempt, CheckTarget(a)
    PROVE  LockInv'
  <1>1. /\ pc[a] = "leased" /\ Running(a) /\ stack' = stack /\ lease' = lease
        /\ dir' = dir /\ pc[a] \in Active
    BY DEF CheckTarget, At, disk, Active, Entered, Bare
  <1>2. CASE dir.target # None /\ a \notin Overwrite
    BY <1>1, <1>2, LeavingMove DEF CheckTarget
  <1>3. CASE ~(dir.target # None /\ a \notin Overwrite)
    <2>. USE DEF Active, Entered, Bare, Staged, Leaving, Holding, Relying, Points
    <2>1. /\ pc' \in [Attempt -> Points] /\ pc'[a] = "checked"
          /\ \A b \in Attempt : b # a => pc'[b] = pc[b]
      BY <1>3 DEF CheckTarget, Goto, TypeOK
    <2>2. \A b \in Attempt :
            /\ pc[b] \in Entered \ {"waiting"} => lease' = OwnerOf[b]
            /\ pc[b] \in Holding => dir'.lock = b
            /\ pc[b] \in Relying /\ b \notin Overwrite => dir'.target = None
      BY <1>1 DEF LockInv, Leased, Locking, Unreplaced
    <2>. QED
      BY <1>1, <1>3, <2>1, <2>2, LocalStep
  <1>. QED
    BY <1>2, <1>3

LEMMA CreateStep ==
    ASSUME TypeOK, LockInv, NEW a \in Attempt, CreateLock(a)
    PROVE  LockInv'
  <1>1. /\ pc[a] = "checked" /\ Running(a) /\ stack' = stack /\ lease' = lease
        /\ pc[a] \in Active
    BY DEF CreateLock, At, Active, Entered, Bare
  <1>2. CASE dir.lock # None
    <2>1. Leave(a, "locked") /\ dir' = dir
      BY <1>2 DEF CreateLock
    <2>. QED
      BY <1>1, <2>1, LeavingMove
  <1>3. CASE dir.lock = None
    <2>. USE DEF Active, Entered, Bare, Staged, Leaving, Holding, Relying, Points
    <2>1. /\ pc' \in [Attempt -> Points] /\ pc'[a] = "named"
          /\ \A b \in Attempt : b # a => pc'[b] = pc[b]
          /\ dir'.lock = a /\ dir'.target = dir.target
      BY <1>3 DEF CreateLock, Goto, Change, TypeOK, Dir
    <2>2. \A b \in Attempt : pc[b] \notin Holding
      <3>1. \A b \in Attempt : b # None
        BY PublicationAssumption
      <3>. QED
        BY <1>3, <3>1 DEF LockInv, Locking
    <2>3. \A b \in Attempt :
            /\ pc[b] \in Entered \ {"waiting"} => lease' = OwnerOf[b]
            /\ pc[b] \in Relying /\ b \notin Overwrite => dir'.target = None
      BY <1>1, <2>1 DEF LockInv, Leased, Unreplaced
    <2>. QED
      BY <1>1, <2>1, <2>2, <2>3, LocalStep
  <1>. QED
    BY <1>2, <1>3

\* Whoever else relies on the target is the owner's own, further down its
\* stack, and therefore has the lock.
LEMMA SwapStep ==
    ASSUME TypeOK, LockInv, NEW a \in Attempt, Swap(a)
    PROVE  LockInv'
  <1>. USE PublicationAssumption
  <1>1. /\ pc[a] = "synced" /\ Running(a) /\ stack' = stack /\ lease' = lease
        /\ pc' \in [Attempt -> Points] /\ pc'[a] = "swapped"
        /\ \A b \in Attempt : b # a => pc'[b] = pc[b]
        /\ dir'.lock = dir.lock
    BY DEF Swap, At, Goto, Change, TypeOK, Dir, Points, Entered, Staged
  <1>2. dir.lock = a /\ lease = OwnerOf[a]
    BY <1>1 DEF LockInv, Locking, Leased, Holding, Entered, Staged
  <1>3. ASSUME NEW b \in Attempt, b # a, pc[b] \in Relying
        PROVE  FALSE
    <2>1. pc[b] \in Active /\ pc[b] \in Entered \ {"waiting"}
      BY <1>3 DEF Relying, Active, Entered, Bare, Staged
    <2>2. OwnerOf[b] = OwnerOf[a]
      BY <1>2, <2>1 DEF LockInv, Leased
    <2>3. PICK i \in DOMAIN stack[OwnerOf[a]] : stack[OwnerOf[a]][i] = b
      BY <2>1, <2>2 DEF LockInv, Nesting
    <2>4. i # Len(stack[OwnerOf[a]])
      BY <1>1, <1>3, <2>3 DEF Running
    <2>5. pc[b] = "staged"
      BY <2>3, <2>4 DEF LockInv, Nesting
    <2>. QED
      BY <1>2, <1>3, <2>5 DEF LockInv, Locking, Holding
  <1>4. \A b \in Attempt :
          /\ pc[b] \in Entered \ {"waiting"} => lease' = OwnerOf[b]
          /\ pc[b] \in Holding => dir'.lock = b
    BY <1>1 DEF LockInv, Leased, Locking
  <1>5. /\ pc[a] \in Active /\ pc'[a] \in Active /\ pc'[a] \notin Relying
        /\ pc'[a] \in Entered \ {"waiting"} => pc[a] \in Entered \ {"waiting"}
    BY <1>1 DEF Active, Entered, Staged, Relying
  <1>. QED
    BY <1>1, <1>2, <1>3, <1>4, <1>5, LocalStep

LEMMA ReleaseLockStep ==
    ASSUME TypeOK, LockInv, NEW a \in Attempt, ReleaseLock(a)
    PROVE  LockInv'
  <1>. USE DEF Active, Entered, Bare, Staged, Leaving, Holding, Relying, Points
  <1>1. /\ pc[a] = "releasing" /\ Running(a) /\ stack' = stack /\ lease' = lease
        /\ pc' \in [Attempt -> Points] /\ pc'[a] = "unlocked"
        /\ \A b \in Attempt : b # a => pc'[b] = pc[b]
    BY DEF ReleaseLock, At, Goto, TypeOK
  <1>2. dir'.target = dir.target /\ (dir.lock # a => dir'.lock = dir.lock)
    BY DEF ReleaseLock, Change, TypeOK, Dir
  <1>3. \A b \in Attempt : b # a /\ pc[b] \in Holding => dir'.lock = b
    BY <1>2 DEF LockInv, Locking
  <1>4. \A b \in Attempt :
          /\ pc[b] \in Entered \ {"waiting"} => lease' = OwnerOf[b]
          /\ pc[b] \in Relying /\ b \notin Overwrite => dir'.target = None
    BY <1>1, <1>2 DEF LockInv, Leased, Unreplaced
  <1>. QED
    BY <1>1, <1>2, <1>3, <1>4, LocalStep

-----------------------------------------------------------------------------

\* An attempt that begins is on no stack yet, and the one it is nested in has
\* made its staging directory.
LEMMA BeginStep ==
    ASSUME TypeOK, LockInv, NEW a \in Attempt, Begin(a)
    PROVE  LockInv'
  <1>. DEFINE o == OwnerOf[a]
              s == stack[o]
  <1>0. o \in Owner /\ stack \in [Owner -> Seq(Attempt)] /\ s \in Seq(Attempt)
    BY PublicationAssumption DEF TypeOK
  <1>1. /\ pc[a] = "idle" /\ pc' \in [Attempt -> Points] /\ pc'[a] = "waiting"
        /\ \A b \in Attempt : b # a => pc'[b] = pc[b]
        /\ lease' = lease /\ dir' = dir
    BY DEF Begin, Goto, TypeOK, Points, Entered, Bare, disk
  <1>2. /\ stack' \in [Owner -> Seq(Attempt)]
        /\ stack'[o] = Append(s, a)
        /\ \A q \in Owner : q # o => stack'[q] = stack[q]
    BY <1>0 DEF Begin
  <1>3. /\ Len(stack'[o]) = Len(s) + 1 /\ DOMAIN stack'[o] = 1 .. Len(s) + 1
        /\ stack'[o][Len(s) + 1] = a
        /\ DOMAIN s = 1 .. Len(s) /\ Len(s) \in Nat
        /\ \A i \in 1 .. Len(s) : stack'[o][i] = s[i]
    BY <1>0, <1>2
  <1>4. \A q \in Owner : \A i \in DOMAIN stack[q] :
          /\ stack[q][i] \in Attempt /\ stack[q][i] # a
          /\ OwnerOf[stack[q][i]] = q /\ pc[stack[q][i]] \in Active
    BY <1>0, <1>1 DEF LockInv, Nesting, Active, Entered, Bare, Staged, Leaving
  <1>5. pc'[a] \in Active
    BY <1>1 DEF Active, Entered, Bare
  <1>6. Nesting'
    <2>1. \A q \in Owner : \A i \in DOMAIN stack'[q] :
            OwnerOf[stack'[q][i]] = q /\ pc'[stack'[q][i]] \in Active
      <3>. SUFFICES ASSUME NEW q \in Owner, NEW i \in DOMAIN stack'[q]
                    PROVE  OwnerOf[stack'[q][i]] = q /\ pc'[stack'[q][i]] \in Active
        OBVIOUS
      <3>1. CASE q # o
        BY <1>1, <1>2, <1>4, <3>1
      <3>2. CASE q = o /\ i = Len(s) + 1
        BY <1>3, <1>5, <3>2
      <3>3. CASE q = o /\ i \in 1 .. Len(s)
        BY <1>1, <1>3, <1>4, <3>3
      <3>. QED
        BY <1>3, <3>1, <3>2, <3>3
    <2>2. \A q \in Owner : \A i, j \in DOMAIN stack'[q] :
            stack'[q][i] = stack'[q][j] => i = j
      <3>. SUFFICES ASSUME NEW q \in Owner,
                           NEW i \in DOMAIN stack'[q], NEW j \in DOMAIN stack'[q],
                           stack'[q][i] = stack'[q][j]
                    PROVE  i = j
        OBVIOUS
      <3>1. CASE q # o
        BY <1>2, <3>1 DEF LockInv, Nesting
      <3>2. CASE q = o /\ i \in 1 .. Len(s) /\ j \in 1 .. Len(s)
        BY <1>0, <1>3, <3>2 DEF LockInv, Nesting
      <3>3. CASE q = o /\ (i = Len(s) + 1 \/ j = Len(s) + 1)
        <4>1. i \in 1 .. Len(s) + 1 /\ j \in 1 .. Len(s) + 1
          BY <1>3, <3>3
        <4>2. \A k \in 1 .. Len(s) : stack'[o][k] # a
          BY <1>0, <1>3, <1>4
        <4>. QED
          BY <1>3, <3>3, <4>1, <4>2
      <3>. QED
        BY <1>3, <3>1, <3>2, <3>3
    <2>3. \A q \in Owner : \A i \in DOMAIN stack'[q] :
            i # Len(stack'[q]) => pc'[stack'[q][i]] = "staged"
      <3>. SUFFICES ASSUME NEW q \in Owner, NEW i \in DOMAIN stack'[q],
                           i # Len(stack'[q])
                    PROVE  pc'[stack'[q][i]] = "staged"
        OBVIOUS
      <3>1. CASE q # o
        BY <1>1, <1>2, <1>4, <3>1 DEF LockInv, Nesting
      <3>2. CASE q = o
        <4>1. i \in 1 .. Len(s)
          BY <1>3, <3>2
        <4>2. pc[s[i]] = "staged"
          <5>1. CASE i = Len(s)
            BY <1>0, <4>1, <5>1 DEF Begin
          <5>2. CASE i # Len(s)
            BY <1>0, <1>3, <4>1, <5>2 DEF LockInv, Nesting
          <5>. QED
            BY <5>1, <5>2
        <4>. QED
          BY <1>0, <1>1, <1>3, <1>4, <3>2, <4>1, <4>2
      <3>. QED
        BY <3>1, <3>2
    <2>4. ASSUME NEW b \in Attempt, pc'[b] \in Active
          PROVE  \E i \in DOMAIN stack'[OwnerOf[b]] : stack'[OwnerOf[b]][i] = b
      <3>1. CASE b = a
        BY <1>3, <3>1
      <3>2. CASE b # a
        <4>1. PICK i \in DOMAIN stack[OwnerOf[b]] : stack[OwnerOf[b]][i] = b
          BY <1>1, <2>4, <3>2 DEF LockInv, Nesting
        <4>2. OwnerOf[b] \in Owner
          BY PublicationAssumption
        <4>. QED
          BY <1>2, <1>3, <4>1, <4>2
      <3>. QED
        BY <3>1, <3>2
    <2>. QED
      BY <2>1, <2>2, <2>3, <2>4 DEF Nesting
  <1>7. Leased' /\ Locking' /\ Unreplaced'
    BY <1>1 DEF LockInv, Leased, Locking, Unreplaced, Holding, Relying, Entered, Bare
  <1>. QED
    BY <1>6, <1>7 DEF LockInv

\* The lease is free only once no other attempt of the owner is under way.
LEMMA ReleaseLeaseStep ==
    ASSUME TypeOK, LockInv, NEW a \in Attempt, ReleaseLease(a)
    PROVE  LockInv'
  <1>. DEFINE o == OwnerOf[a]
              s == stack[o]
              n == Len(s)
  <1>0. /\ o \in Owner /\ stack \in [Owner -> Seq(Attempt)] /\ s \in Seq(Attempt)
        /\ s # <<>> /\ a = s[n] /\ n \in Nat \ {0} /\ DOMAIN s = 1 .. n
    BY PublicationAssumption DEF TypeOK, ReleaseLease, At, Running
  <1>1. /\ pc' \in [Attempt -> Points] /\ pc'[a] = "ended"
        /\ \A b \in Attempt : b # a => pc'[b] = pc[b]
        /\ dir' = dir
    BY DEF ReleaseLease, Goto, TypeOK, Points, disk
  <1>2. /\ stack'[o] = SubSeq(s, 1, n - 1)
        /\ \A q \in Owner : q # o => stack'[q] = stack[q]
    BY <1>0 DEF ReleaseLease
  <1>3. /\ Len(stack'[o]) = n - 1 /\ DOMAIN stack'[o] = 1 .. n - 1
        /\ \A i \in 1 .. n - 1 : stack'[o][i] = s[i]
    BY <1>0, <1>2
  <1>4. \A i \in 1 .. n - 1 : s[i] # a /\ s[i] \in Attempt /\ pc[s[i]] = "staged"
    BY <1>0 DEF LockInv, Nesting
  <1>5. \A q \in Owner : q # o =>
          \A i \in DOMAIN stack[q] : stack[q][i] \in Attempt /\ stack[q][i] # a
    BY <1>0 DEF LockInv, Nesting
  <1>6. Nesting'
    <2>1. \A q \in Owner : \A i \in DOMAIN stack'[q] :
            /\ OwnerOf[stack'[q][i]] = q /\ pc'[stack'[q][i]] \in Active
            /\ i # Len(stack'[q]) => pc'[stack'[q][i]] = "staged"
      <3>. SUFFICES ASSUME NEW q \in Owner, NEW i \in DOMAIN stack'[q]
                    PROVE  /\ OwnerOf[stack'[q][i]] = q /\ pc'[stack'[q][i]] \in Active
                           /\ i # Len(stack'[q]) => pc'[stack'[q][i]] = "staged"
        OBVIOUS
      <3>1. CASE q # o
        BY <1>1, <1>2, <1>5, <3>1 DEF LockInv, Nesting
      <3>2. CASE q = o
        <4>0. i \in 1 .. n - 1
          BY <1>3, <3>2
        <4>1. /\ i \in 1 .. n - 1 /\ i \in 1 .. n /\ stack'[q][i] = s[i]
              /\ pc'[s[i]] = "staged"
          <5>1. stack'[q][i] = s[i]
            BY <1>3, <3>2, <4>0
          <5>2. pc'[s[i]] = "staged"
            BY <1>1, <1>4, <4>0
          <5>3. i \in 1 .. n
            BY <1>0, <4>0
          <5>. QED
            BY <4>0, <5>1, <5>2, <5>3
        <4>2. OwnerOf[s[i]] = o
          BY <1>0, <4>1 DEF LockInv, Nesting
        <4>. QED
          BY <3>2, <4>1, <4>2 DEF Active, Entered, Staged
      <3>. QED
        BY <3>1, <3>2
    <2>2. \A q \in Owner : \A i, j \in DOMAIN stack'[q] :
            stack'[q][i] = stack'[q][j] => i = j
      <3>. SUFFICES ASSUME NEW q \in Owner,
                           NEW i \in DOMAIN stack'[q], NEW j \in DOMAIN stack'[q],
                           stack'[q][i] = stack'[q][j]
                    PROVE  i = j
        OBVIOUS
      <3>1. CASE q # o
        BY <1>2, <3>1 DEF LockInv, Nesting
      <3>2. CASE q = o
        <4>0. i \in 1 .. n - 1 /\ j \in 1 .. n - 1
          BY <1>3, <3>2
        <4>1. s[i] = s[j]
          BY <1>3, <3>2, <4>0
        <4>2. i \in 1 .. n /\ j \in 1 .. n
          BY <1>0, <4>0
        <4>. QED
          BY <1>0, <4>1, <4>2 DEF LockInv, Nesting
      <3>. QED
        BY <3>1, <3>2
    <2>3. ASSUME NEW b \in Attempt, pc'[b] \in Active
          PROVE  \E i \in DOMAIN stack'[OwnerOf[b]] : stack'[OwnerOf[b]][i] = b
      <3>1. b # a
        BY <1>1, <2>3 DEF Active, Entered, Bare, Staged, Leaving
      <3>2. PICK i \in DOMAIN stack[OwnerOf[b]] : stack[OwnerOf[b]][i] = b
        BY <1>1, <2>3, <3>1 DEF LockInv, Nesting
      <3>3. CASE OwnerOf[b] # o
        BY <1>2, <3>2, <3>3, PublicationAssumption
      <3>4. CASE OwnerOf[b] = o
        <4>1. i \in 1 .. n - 1
          BY <1>0, <3>1, <3>2, <3>4
        <4>. QED
          BY <1>3, <3>2, <3>4, <4>1
      <3>. QED
        BY <3>3, <3>4
    <2>. QED
      BY <2>1, <2>2, <2>3 DEF Nesting
  <1>7. Leased'
    <2>. SUFFICES ASSUME NEW b \in Attempt, pc'[b] \in Entered \ {"waiting"}
                  PROVE  lease' = OwnerOf[b]
      BY DEF Leased
    <2>1. b # a /\ pc[b] \in Entered \ {"waiting"} /\ lease = OwnerOf[b]
      BY <1>1 DEF LockInv, Leased, Entered, Bare, Staged
    <2>2. CASE lease # o
      BY <2>1, <2>2 DEF ReleaseLease
    <2>3. CASE lease = o
      <3>0. OwnerOf[b] = o /\ pc[b] \in Active
        BY <2>1, <2>3 DEF Active
      <3>1. PICK i \in DOMAIN s : s[i] = b
        BY <3>0 DEF LockInv, Nesting
      <3>2. n # 1
        BY <1>0, <2>1, <3>1
      <3>. QED
        BY <2>1, <3>2 DEF ReleaseLease
    <2>. QED
      BY <2>2, <2>3
  <1>8. Locking' /\ Unreplaced'
    BY <1>1 DEF LockInv, Locking, Unreplaced, Holding, Relying
  <1>. QED
    BY <1>6, <1>7, <1>8 DEF LockInv

\* The attempts on the stack of an owner are all the attempts it has under way.
LEMMA CrashStep ==
    ASSUME TypeOK, LockInv, NEW o \in Owner, Crash(o)
    PROVE  LockInv'
  <1>. DEFINE Killed == {a \in Attempt : \E i \in DOMAIN stack[o] : stack[o][i] = a}
  <1>0. stack \in [Owner -> Seq(Attempt)] /\ stack[o] \in Seq(Attempt)
    BY DEF TypeOK
  <1>1. /\ \A a \in Attempt : a \in Killed => pc'[a] = "dead"
        /\ \A a \in Attempt : a \notin Killed => pc'[a] = pc[a]
        /\ dir' = dir /\ lease' = IF lease = o THEN None ELSE lease
    BY DEF Crash, TypeOK, disk
  <1>2. stack'[o] = <<>> /\ \A q \in Owner : q # o => stack'[q] = stack[q]
    BY <1>0 DEF Crash
  <1>3. \A q \in Owner : \A i \in DOMAIN stack[q] :
          /\ stack[q][i] \in Attempt /\ OwnerOf[stack[q][i]] = q
    BY <1>0 DEF LockInv, Nesting
  <1>4. \A q \in Owner : q # o =>
          \A i \in DOMAIN stack[q] : pc'[stack[q][i]] = pc[stack[q][i]]
    BY <1>0, <1>1, <1>3
  <1>5. \A a \in Attempt : pc'[a] \in Active =>
          pc'[a] = pc[a] /\ a \notin Killed /\ OwnerOf[a] # o
    <2>. SUFFICES ASSUME NEW a \in Attempt, pc'[a] \in Active
                  PROVE  pc'[a] = pc[a] /\ a \notin Killed /\ OwnerOf[a] # o
      OBVIOUS
    <2>1. a \notin Killed /\ pc'[a] = pc[a]
      BY <1>1 DEF Active, Entered, Bare, Staged, Leaving
    <2>. QED
      BY <2>1 DEF LockInv, Nesting
  <1>6. Nesting'
    <2>1. \A q \in Owner : \A i \in DOMAIN stack'[q] :
            q # o /\ stack'[q] = stack[q] /\ i \in DOMAIN stack[q]
      BY <1>2
    <2>2. \A q \in Owner : \A i \in DOMAIN stack'[q] :
            /\ OwnerOf[stack'[q][i]] = q /\ pc'[stack'[q][i]] \in Active
            /\ i # Len(stack'[q]) => pc'[stack'[q][i]] = "staged"
      BY <1>4, <2>1 DEF LockInv, Nesting
    <2>3. \A q \in Owner : \A i, j \in DOMAIN stack'[q] :
            stack'[q][i] = stack'[q][j] => i = j
      BY <2>1 DEF LockInv, Nesting
    <2>4. ASSUME NEW a \in Attempt, pc'[a] \in Active
          PROVE  \E i \in DOMAIN stack'[OwnerOf[a]] : stack'[OwnerOf[a]][i] = a
      <3>1. pc[a] \in Active /\ OwnerOf[a] # o
        BY <1>5, <2>4
      <3>. QED
        BY <1>2, <3>1, PublicationAssumption DEF LockInv, Nesting
    <2>. QED
      BY <2>2, <2>3, <2>4 DEF Nesting
  <1>7. Leased'
    <2>. SUFFICES ASSUME NEW a \in Attempt, pc'[a] \in Entered \ {"waiting"}
                  PROVE  lease' = OwnerOf[a]
      BY DEF Leased
    <2>1. pc[a] = pc'[a] /\ OwnerOf[a] # o
      BY <1>5 DEF Active
    <2>. QED
      BY <1>1, <2>1 DEF LockInv, Leased
  <1>8. Locking' /\ Unreplaced'
    <2>1. \A a \in Attempt : pc'[a] \in Holding \cup Relying => pc'[a] = pc[a]
      BY <1>1 DEF Holding, Relying
    <2>. QED
      BY <1>1, <2>1 DEF LockInv, Locking, Unreplaced
  <1>. QED
    BY <1>6, <1>7, <1>8 DEF LockInv

LEMMA LosePowerStep ==
    ASSUME TypeOK, LockInv, LosePower
    PROVE  LockInv'
  <1>1. \A a \in Attempt : pc'[a] \notin Active
    BY DEF LosePower, TypeOK, Active, Entered, Bare, Staged, Leaving
  <1>2. \A o \in Owner : stack'[o] = <<>> /\ DOMAIN stack'[o] = {}
    BY DEF LosePower
  <1>3. Nesting'
    BY <1>1, <1>2 DEF Nesting
  <1>4. Leased' /\ Locking' /\ Unreplaced'
    BY <1>1 DEF Leased, Locking, Unreplaced, Active, Entered, Bare, Staged,
                Holding, Relying
  <1>. QED
    BY <1>3, <1>4 DEF LockInv

LEMMA RemoveStaleLockStep ==
    ASSUME TypeOK, LockInv, RemoveStaleLock
    PROVE  LockInv'
  <1>1. pc' = pc /\ stack' = stack /\ lease' = lease /\ dir'.target = dir.target
    BY DEF RemoveStaleLock, Change, TypeOK, Dir
  <1>2. \A a \in Attempt : pc[a] \notin Holding
    BY DEF RemoveStaleLock, LockInv, Locking, Holding
  <1>. QED
    BY <1>1, <1>2 DEF LockInv, Nesting, Leased, Locking, Unreplaced

-----------------------------------------------------------------------------

LEMMA LockStep == TypeOK /\ LockInv /\ [Next]_vars => LockInv'
  <1>. SUFFICES ASSUME TypeOK, LockInv, [Next]_vars PROVE LockInv'
    OBVIOUS
  <1>1. ASSUME NEW a \in Attempt, Begin(a) \/ Step(a) \/ AbortBody(a) \/ Fail(a) \/ FailLeaving(a)
        PROVE  LockInv'
    BY <1>1, BeginStep, AcquireStep, CheckStep, CreateStep, QuietSteps, SwapStep,
       LeavingSteps, ReleaseLockStep, ReleaseLeaseStep DEF Step
  <1>2. CASE UNCHANGED vars
    BY <1>2 DEF vars, disk, LockInv, Nesting, Leased, Locking, Unreplaced
  <1>. QED
    BY <1>1, <1>2, CrashStep, LosePowerStep, RemoveStaleLockStep DEF Next

LEMMA LockInvariance == Spec => [](TypeOK /\ LockInv)
  <1>. QED
    BY TypeCorrect, LockInit, LockStep, PTL DEF Spec

\* Only the exchange installs a tree.
LEMMA Installs ==
    ASSUME TypeOK, [Next]_vars, past' # past
    PROVE  \E a \in Attempt : Swap(a) /\ past' = past \cup {a}
  <1>. USE DEF trail
  <1>1. ASSUME NEW a \in Attempt, Begin(a) \/ Step(a) \/ AbortBody(a) \/ Fail(a) \/ FailLeaving(a)
        PROVE  Swap(a) /\ past' = past \cup {a}
    BY <1>1 DEF Step, Begin, AcquireLease, CheckTarget, CreateLock, Identify, MakeStaging,
       WritePayload, SyncPayload, Swap, MarkCommitted, SyncParent, RemoveOld,
       CleanStaging, ReleaseLock, ReleaseLease, AbortBody, Fail, FailLeaving
  <1>2. ~ \E o \in Owner : Crash(o)
    BY DEF Crash
  <1>3. ~ LosePower /\ ~ RemoveStaleLock /\ ~ UNCHANGED vars
    BY DEF LosePower, RemoveStaleLock, vars
  <1>. QED
    BY <1>1, <1>2, <1>3 DEF Next

\* A publisher that may not overwrite replaces nothing, however long its body
\* takes and whatever others publish, crash or remove meanwhile.
THEOREM NothingIsReplacedUnasked == Spec => NoUnwantedReplacement
  <1>1. ASSUME TypeOK, LockInv, [Next]_vars
        PROVE  [\A a \in Attempt : (a \notin past /\ a \in past' /\ dir.target # None)
                  => a \in Overwrite]_vars
    <2>. SUFFICES ASSUME NEW a \in Attempt, a \notin past, a \in past', dir.target # None
                  PROVE  a \in Overwrite
      OBVIOUS
    <2>1. PICK b \in Attempt : Swap(b) /\ past' = past \cup {b}
      BY <1>1, Installs
    <2>2. a = b /\ pc[a] = "synced"
      BY <2>1 DEF Swap, At
    <2>. QED
      BY <1>1, <2>2 DEF LockInv, Unreplaced, Relying
  <1>. QED
    BY <1>1, LockInvariance, PTL DEF Spec, NoUnwantedReplacement

\* The lock file of a killed attempt stops every publication, and nothing but
\* an operator or a loss of power takes it away.
THEOREM StaleLockKeepsOut == Spec => StaleLockHolds
  <1>1. ASSUME TypeOK, LockInv, [Next]_vars
        PROVE  [\A a \in Attempt : (dir.lock = a /\ pc[a] = "dead")
                  => /\ past' = past
                     /\ dir'.lock = a \/ RemoveStaleLock \/ LosePower]_vars
    <2>. SUFFICES ASSUME NEW a \in Attempt, dir.lock = a, pc[a] = "dead"
                  PROVE  /\ past' = past
                         /\ dir'.lock = a \/ RemoveStaleLock \/ LosePower
      OBVIOUS
    <2>1. \A b \in Attempt : pc[b] \notin Holding
      BY <1>1 DEF LockInv, Locking, Holding
    <2>2. past' = past
      BY <1>1, <2>1, Installs DEF Swap, At, Holding
    <2>3. ASSUME NEW b \in Attempt, Begin(b) \/ Step(b) \/ AbortBody(b) \/ Fail(b) \/ FailLeaving(b)
          PROVE  dir'.lock = a
      <3>1. CASE \/ Begin(b) \/ AcquireLease(b) \/ CheckTarget(b) \/ Identify(b)
                 \/ WritePayload(b) \/ SyncPayload(b) \/ MarkCommitted(b) \/ SyncParent(b)
                 \/ ReleaseLease(b) \/ AbortBody(b) \/ Fail(b) \/ FailLeaving(b)
        BY <3>1 DEF Begin, AcquireLease, CheckTarget, Identify, WritePayload, SyncPayload,
           MarkCommitted, SyncParent, ReleaseLease, AbortBody, Fail, FailLeaving, disk
      <3>2. CASE MakeStaging(b) \/ Swap(b) \/ RemoveOld(b) \/ CleanStaging(b)
        BY <1>1, <3>2 DEF MakeStaging, Swap, RemoveOld, CleanStaging, Change, TypeOK, Dir
      <3>3. CASE CreateLock(b)
        BY <3>3, PublicationAssumption DEF CreateLock
      <3>4. CASE ReleaseLock(b)
        BY <3>4 DEF ReleaseLock, At
      <3>. QED
        BY <2>3, <3>1, <3>2, <3>3, <3>4 DEF Step
    <2>4. (\E o \in Owner : Crash(o)) \/ UNCHANGED vars => dir'.lock = a
      BY DEF Crash, vars, disk
    <2>. QED
      BY <1>1, <2>2, <2>3, <2>4 DEF Next
  <1>. QED
    BY <1>1, LockInvariance, PTL DEF Spec, StaleLockHolds

-----------------------------------------------------------------------------

\* Without a fault, what an attempt has made is there only while the attempt
\* will still remove it.
Tidy ==
  faults = 0 =>
    \A a \in Attempt :
      /\ dir.temps[a] # None
           => pc[a] \in Staged \cup {"committed", "durable", "cleaning"}
      /\ dir.lock = a => pc[a] \in Holding \cup {"cleaning", "releasing"}

LEMMA TidyStep ==
    ASSUME TypeOK, Tidy, [Next]_vars
    PROVE  Tidy'
  <1>. USE PublicationAssumption
  <1>. SUFFICES ASSUME faults' = 0 PROVE Tidy'
    BY DEF Tidy
  <1>0. /\ dir \in Dir /\ pc \in [Attempt -> Points] /\ faults \in Nat
        /\ dir.temps \in [Attempt -> Attempt \cup {None}]
    BY DEF TypeOK, Dir
  <1>1. faults + 1 # 0
    BY <1>0
  <1>2. ASSUME NEW a \in Attempt,
               \/ Begin(a) \/ AcquireLease(a) \/ CheckTarget(a) \/ Identify(a)
               \/ WritePayload(a) \/ SyncPayload(a) \/ AbortBody(a)
               \/ MarkCommitted(a) \/ SyncParent(a) \/ ReleaseLease(a)
        PROVE  Tidy'
    <2>1. dir' = dir /\ faults' = faults
      BY <1>2 DEF Begin, AcquireLease, CheckTarget, Identify, WritePayload, SyncPayload,
                  AbortBody, MarkCommitted, SyncParent, ReleaseLease, disk
    <2>2. /\ \A b \in Attempt : b # a => pc'[b] = pc[b]
          /\ pc[a] \in Staged \cup {"committed", "durable", "cleaning"}
               => pc'[a] \in Staged \cup {"committed", "durable", "cleaning"}
          /\ pc[a] \in Holding \cup {"cleaning", "releasing"}
               => pc'[a] \in Holding \cup {"cleaning", "releasing"}
      BY <1>0, <1>2
      DEF Begin, AcquireLease, CheckTarget, Identify, WritePayload, SyncPayload,
          AbortBody, MarkCommitted, SyncParent, ReleaseLease, At, Goto, Leave, WayOut,
          Holding, Staged, Bare
    <2>. QED
      BY <2>1, <2>2 DEF Tidy
  <1>3. ASSUME NEW a \in Attempt, CreateLock(a)
        PROVE  Tidy'
    <2>1. pc[a] = "checked" /\ faults' = faults
      BY <1>3 DEF CreateLock, At
    <2>2. CASE dir.lock # None
      BY <1>0, <1>3, <2>1, <2>2
      DEF CreateLock, Tidy, Leave, Goto, WayOut, Bare, Staged, Holding
    <2>3. CASE dir.lock = None
      <3>1. /\ dir'.lock = a /\ dir'.temps = dir.temps /\ pc'[a] = "named"
            /\ \A b \in Attempt : b # a => pc'[b] = pc[b]
        BY <1>0, <1>3, <2>3 DEF CreateLock, Change, Goto, Dir
      <3>. QED
        BY <2>1, <3>1 DEF Tidy, Staged, Holding
    <2>. QED
      BY <2>2, <2>3
  <1>4. ASSUME NEW a \in Attempt, MakeStaging(a) \/ Swap(a)
        PROVE  Tidy'
    <2>1. faults' = faults /\ pc[a] \in {"locked", "synced"}
      BY <1>4 DEF MakeStaging, Swap, At
    <2>2. pc' = [pc EXCEPT ![a] = "staged"] \/ pc' = [pc EXCEPT ![a] = "swapped"]
      BY <1>4 DEF MakeStaging, Swap, Goto
    <2>3. /\ dir'.lock = dir.lock
          /\ \A b \in Attempt : b # a => dir'.temps[b] = dir.temps[b]
      <3>1. CASE MakeStaging(a)
        BY <1>0, <3>1 DEF MakeStaging, Change, Dir
      <3>2. CASE Swap(a)
        BY <1>0, <3>2 DEF Swap, Change, Dir
      <3>. QED
        BY <1>4, <3>1, <3>2
    <2>4. /\ \A b \in Attempt : b # a => pc'[b] = pc[b]
          /\ pc'[a] \in Staged /\ pc'[a] \in Holding
      BY <1>0, <2>2 DEF Staged, Holding
    <2>. QED
      BY <2>1, <2>3, <2>4 DEF Tidy
  <1>5. ASSUME NEW a \in Attempt, RemoveOld(a) \/ CleanStaging(a)
        PROVE  Tidy'
    <2>1. faults' = faults /\ dir' = [dir EXCEPT !.temps[a] = None]
      BY <1>5 DEF RemoveOld, CleanStaging, Change
    <2>2. pc' = [pc EXCEPT ![a] = "releasing"]
      BY <1>0, <1>5 DEF RemoveOld, CleanStaging, Goto, Leave, WayOut, At, Staged, Bare
    <2>3. /\ dir'.lock = dir.lock /\ dir'.temps[a] = None
          /\ \A b \in Attempt : b # a => dir'.temps[b] = dir.temps[b]
      BY <1>0, <2>1 DEF Dir
    <2>4. pc'[a] = "releasing" /\ \A b \in Attempt : b # a => pc'[b] = pc[b]
      BY <1>0, <2>2
    <2>. QED
      BY <2>1, <2>3, <2>4 DEF Tidy
  <1>6. ASSUME NEW a \in Attempt, ReleaseLock(a)
        PROVE  Tidy'
    <2>1. /\ faults' = faults /\ dir'.lock # a /\ dir'.temps = dir.temps
          /\ dir'.lock \in {dir.lock, None} /\ pc[a] = "releasing"
          /\ \A b \in Attempt : b # a => pc'[b] = pc[b]
      BY <1>0, <1>6 DEF ReleaseLock, Change, Goto, At, Dir
    <2>. QED
      BY <2>1 DEF Tidy, Staged
  <1>7. CASE RemoveStaleLock
    <2>1. /\ faults' = faults /\ dir'.lock = None /\ dir'.temps = dir.temps /\ pc' = pc
      BY <1>0, <1>7 DEF RemoveStaleLock, Change, Dir
    <2>. QED
      BY <2>1 DEF Tidy
  <1>8. CASE UNCHANGED vars
    BY <1>8 DEF vars, disk, Tidy
  <1>9. /\ \A a \in Attempt : ~ Fail(a) /\ ~ FailLeaving(a)
        /\ \A o \in Owner : ~ Crash(o)
        /\ ~ LosePower
    BY <1>1 DEF Fail, FailLeaving, Crash, LosePower, Fault
  <1>. QED
    BY <1>2, <1>3, <1>4, <1>5, <1>6, <1>7, <1>8, <1>9 DEF Next, Step

\* An attempt that gives up because its body raised, its target exists or
\* another one has the lock leaves neither a staging directory nor a lock.
THEOREM NothingIsLeftBehind == Spec => []LeavesNothing
  <1>1. Init => Tidy
    BY PublicationAssumption DEF Init, Tidy
  <1>2. TypeOK /\ Tidy => LeavesNothing
    BY DEF TypeOK, Dir, Tidy, LeavesNothing, Staged, Holding
  <1>. QED
    BY <1>1, <1>2, TidyStep, TypeCorrect, PTL DEF Spec
=============================================================================
