----------------------------- MODULE Publication -----------------------------
(***************************************************************************)
(* AtomicDirectoryPublisher (artifacts/publication.py): attempts to        *)
(* publish a tree under one name, in processes that may be killed, on a    *)
(* file system that may lose power.                                        *)
(*                                                                         *)
(* A tree is named by the attempt that writes it.  The parent directory is *)
(* the record dir; journal holds the directories a loss of power may leave *)
(* behind, the last synced one and every later one.  The artifact lease    *)
(* (modelled in ArtifactLease) is one lock, held by an execution owner,    *)
(* which may enter it again: stack holds the attempts nested in an owner.  *)
(***************************************************************************)
EXTENDS Naturals, Sequences, FiniteSets

CONSTANTS Attempt,      \* attempts to publish, each made once
          Owner,        \* process, thread and task of an attempt
          OwnerOf,      \* the owner of each attempt
          Overwrite,    \* the attempts that may replace a tree
          MaxFaults,    \* bound on failing calls, kills and losses of power
          None

ASSUME PublicationAssumption ==
  /\ OwnerOf \in [Attempt -> Owner]
  /\ Overwrite \subseteq Attempt
  /\ MaxFaults \in Nat
  /\ None \notin Attempt \cup Owner

VARIABLES dir,       \* the parent directory: target, leftovers, lock file
          journal,   \* the directories a loss of power may leave
          full,      \* trees whose payload is written
          synced,    \* trees whose payload is on disk
          lease,     \* the owner of the artifact lease
          stack,     \* the attempts nested in each owner
          pc,        \* where each attempt is
          outcome,   \* how each attempt ended
          faults,
          past,      \* history: what the target has been
          barred     \* history: what a confirmed publication replaced

disk  == <<dir, journal, full, synced>>
trail == <<past, barred>>
vars  == <<disk, lease, stack, pc, outcome, faults, trail>>

\* temps[a] is the tree under the staging name of attempt a.
Dir == [target : Attempt \cup {None}, temps : [Attempt -> Attempt \cup {None}],
        lock : Attempt \cup {None}]

\* Where an attempt is; a staging directory or a lock it knows is its own
\* decides where an exception takes it.
Bare    == {"waiting", "leased", "checked", "named"}
Staged  == {"staged", "written", "synced", "swapped"}
Entered == Bare \cup Staged \cup {"locked", "committed", "durable"}
Leaving == {"cleaning", "releasing", "unlocked"}
Points  == {"idle", "ended", "dead"} \cup Entered \cup Leaving

Outcomes == {"none", "published", "exists", "locked", "not committed",
             "interrupted", "uncertain", "not cleaned"}

Init ==
  /\ dir = [target |-> None, temps |-> [a \in Attempt |-> None], lock |-> None]
  /\ journal = {dir}
  /\ full = {} /\ synced = {}
  /\ lease = None
  /\ stack = [o \in Owner |-> <<>>]
  /\ pc = [a \in Attempt |-> "idle"]
  /\ outcome = [a \in Attempt |-> "none"]
  /\ faults = 0
  /\ past = {None} /\ barred = {}

-----------------------------------------------------------------------------

\* The innermost attempt of its owner is the one whose code is running.
Running(a) == LET s == stack[OwnerOf[a]] IN s # <<>> /\ a = s[Len(s)]

At(a, point) == pc[a] = point /\ Running(a)

Goto(a, point) == pc' = [pc EXCEPT ![a] = point]

\* The staging directory is forgotten on the way out (mutant).
WayOutKeepingStaging(point) == IF point \in Bare THEN "unlocked" ELSE "releasing"

\* __exit__ removes the staging directory the attempt still has, then its
\* lock, then the lease.
WayOut(point) == IF point \in Bare THEN "unlocked"
                 ELSE IF point \in Staged THEN "cleaning" ELSE "releasing"

Leave(a, result) == /\ Goto(a, WayOut(pc[a]))
                    /\ outcome' = [outcome EXCEPT ![a] = result]

\* A system call that changes the directory, which the disk learns later.
Change(d) == dir' = d /\ journal' = journal \cup {d}

\* The caller constructs a publisher and enters it, at the top of a command
\* or inside the body of another publication of the same owner.
Begin(a) ==
  LET s == stack[OwnerOf[a]] IN
  /\ pc[a] = "idle"
  /\ s # <<>> => pc[s[Len(s)]] = "staged"
  /\ stack' = [stack EXCEPT ![OwnerOf[a]] = Append(s, a)]
  /\ Goto(a, "waiting")
  /\ UNCHANGED <<disk, lease, outcome, faults, trail>>

\* Writers do not exclude each other (mutant).
EnterShared(a) ==
  /\ At(a, "waiting")
  /\ lease' = OwnerOf[a]
  /\ Goto(a, "leased")
  /\ UNCHANGED <<disk, stack, outcome, faults, trail>>

\* artifact_lease(root, exclusive=True): it waits for another owner, and is
\* entered again by the owner that has it.
AcquireLease(a) ==
  /\ At(a, "waiting")
  /\ lease \in {None, OwnerOf[a]}
  /\ lease' = OwnerOf[a]
  /\ Goto(a, "leased")
  /\ UNCHANGED <<disk, stack, outcome, faults, trail>>

\* The target exists already and the attempt may not replace it.
CheckTarget(a) ==
  /\ At(a, "leased")
  /\ IF dir.target # None /\ a \notin Overwrite
     THEN Leave(a, "exists")
     ELSE Goto(a, "checked") /\ UNCHANGED outcome
  /\ UNCHANGED <<disk, lease, stack, faults, trail>>

\* A lock file whose process is gone is taken over (mutant).
StealLock(a) ==
  /\ At(a, "checked")
  /\ IF dir.lock # None /\ pc[dir.lock] # "dead"
     THEN Leave(a, "locked") /\ UNCHANGED <<dir, journal>>
     ELSE Goto(a, "named") /\ Change([dir EXCEPT !.lock = a]) /\ UNCHANGED outcome
  /\ UNCHANGED <<full, synced, lease, stack, faults, trail>>

\* open(O_CREAT | O_EXCL) of the writer lock: whoever finds one gives up.
CreateLock(a) ==
  /\ At(a, "checked")
  /\ IF dir.lock # None
     THEN Leave(a, "locked") /\ UNCHANGED <<dir, journal>>
     ELSE Goto(a, "named") /\ Change([dir EXCEPT !.lock = a]) /\ UNCHANGED outcome
  /\ UNCHANGED <<full, synced, lease, stack, faults, trail>>

\* fstat of the new lock file: from here on the attempt can recognise it.
Identify(a) ==
  /\ At(a, "named")
  /\ Goto(a, "locked")
  /\ UNCHANGED <<disk, lease, stack, outcome, faults, trail>>

MakeStaging(a) ==
  /\ At(a, "locked")
  /\ Change([dir EXCEPT !.temps[a] = a])
  /\ Goto(a, "staged")
  /\ UNCHANGED <<full, synced, lease, stack, outcome, faults, trail>>

\* The payload is renamed without having been synced (mutant).
WriteUnsynced(a) ==
  /\ At(a, "staged")
  /\ full' = full \cup {a}
  /\ Goto(a, "synced")
  /\ UNCHANGED <<dir, journal, synced, lease, stack, outcome, faults, trail>>

\* The body of the with statement writes the payload.
WritePayload(a) ==
  /\ At(a, "staged")
  /\ full' = full \cup {a}
  /\ Goto(a, "written")
  /\ UNCHANGED <<dir, journal, synced, lease, stack, outcome, faults, trail>>

\* The body raises: validation of the staged tree failed, say.
AbortBody(a) ==
  /\ pc[a] \in {"staged", "written"} /\ Running(a)
  /\ Leave(a, "not committed")
  /\ UNCHANGED <<disk, lease, stack, faults, trail>>

-----------------------------------------------------------------------------
(* commit                                                                   *)

SyncPayload(a) ==
  /\ At(a, "written")
  /\ synced' = synced \cup {a}
  /\ Goto(a, "synced")
  /\ UNCHANGED <<dir, journal, full, lease, stack, outcome, faults, trail>>

\* renameat2(RENAME_EXCHANGE) if the target exists, else a plain rename: the
\* old tree is now under the staging name.
Swap(a) ==
  /\ At(a, "synced")
  /\ Change([dir EXCEPT !.target = a, !.temps[a] = dir.target])
  /\ past' = past \cup {a}
  /\ Goto(a, "swapped")
  /\ UNCHANGED <<full, synced, lease, stack, outcome, faults, barred>>

\* self.committed = True, self.staging = None.
MarkCommitted(a) ==
  /\ At(a, "swapped")
  /\ Goto(a, "committed")
  /\ UNCHANGED <<disk, lease, stack, outcome, faults, trail>>

\* Durability is claimed without the fsync (mutant).
ConfirmUnsynced(a) ==
  /\ At(a, "committed")
  /\ barred' = past \ {dir.target}
  /\ Goto(a, "durable")
  /\ UNCHANGED <<disk, lease, stack, outcome, faults, past>>

\* fsync of the parent directory confirms the publication.
SyncParent(a) ==
  /\ At(a, "committed")
  /\ journal' = {dir}
  /\ barred' = past \ {dir.target}
  /\ Goto(a, "durable")
  /\ UNCHANGED <<dir, full, synced, lease, stack, outcome, faults, past>>

\* rmtree of the replaced tree, if there was one, then fsync of the parent.
RemoveOld(a) ==
  /\ At(a, "durable")
  /\ dir' = [dir EXCEPT !.temps[a] = None]
  /\ journal' = {dir'}
  /\ Leave(a, "published")
  /\ UNCHANGED <<full, synced, lease, stack, faults, trail>>

-----------------------------------------------------------------------------
(* __exit__                                                                 *)

CleanStaging(a) ==
  /\ At(a, "cleaning")
  /\ Change([dir EXCEPT !.temps[a] = None])
  /\ Goto(a, "releasing")
  /\ UNCHANGED <<full, synced, lease, stack, outcome, faults, trail>>

\* _release_lock unlinks the lock file only if it is the one it created.
ReleaseLock(a) ==
  /\ At(a, "releasing")
  /\ IF dir.lock = a THEN Change([dir EXCEPT !.lock = None])
                     ELSE UNCHANGED <<dir, journal>>
  /\ Goto(a, "unlocked")
  /\ UNCHANGED <<full, synced, lease, stack, outcome, faults, trail>>

\* A failed attempt keeps the lease of its process (mutant).
ReleaseLeaseIfPublished(a) ==
  LET o == OwnerOf[a]
      s == stack[o]
  IN  /\ At(a, "unlocked")
      /\ stack' = [stack EXCEPT ![o] = SubSeq(s, 1, Len(s) - 1)]
      /\ lease' = IF lease = o /\ Len(s) = 1 /\ outcome[a] = "published" THEN None ELSE lease
      /\ Goto(a, "ended")
      /\ UNCHANGED <<disk, outcome, faults, trail>>

\* The lease is free once the outermost attempt of the owner has left it.
ReleaseLease(a) ==
  LET o == OwnerOf[a]
      s == stack[o]
  IN  /\ At(a, "unlocked")
      /\ stack' = [stack EXCEPT ![o] = SubSeq(s, 1, Len(s) - 1)]
      /\ lease' = IF lease = o /\ Len(s) = 1 THEN None ELSE lease
      /\ Goto(a, "ended")
      /\ UNCHANGED <<disk, outcome, faults, trail>>

-----------------------------------------------------------------------------
(* Failures                                                                 *)

Fault == faults < MaxFaults /\ faults' = faults + 1

\* The tree is called committed only once the parent is synced (mutant).
VerdictBySync(point) == IF point = "durable" THEN "not cleaned" ELSE "not committed"

\* What commit() and __enter__() say of an exception; between the exchange
\* and the assignment after it only an interrupt can be raised.
Verdict(point) == IF point = "swapped" THEN "interrupted"
                  ELSE IF point = "committed" THEN "uncertain"
                  ELSE IF point = "durable" THEN "not cleaned"
                  ELSE "not committed"

\* A system call fails, or the parent directory is found replaced.
Fail(a) ==
  /\ pc[a] \in Entered /\ Running(a)
  /\ Fault
  /\ Leave(a, Verdict(pc[a]))
  /\ UNCHANGED <<disk, lease, stack, trail>>

\* rmtree or unlink fails on the way out: the entry stays, the exit goes on.
FailLeaving(a) ==
  /\ pc[a] \in {"cleaning", "releasing"} /\ Running(a)
  /\ Fault
  /\ Goto(a, IF pc[a] = "cleaning" THEN "releasing" ELSE "unlocked")
  /\ UNCHANGED <<disk, lease, stack, outcome, trail>>

\* The owner is killed; the kernel drops its lease, nothing else happens.
Crash(o) ==
  /\ stack[o] # <<>>
  /\ Fault
  /\ pc' = [a \in Attempt |->
               IF \E i \in DOMAIN stack[o] : stack[o][i] = a THEN "dead" ELSE pc[a]]
  /\ stack' = [stack EXCEPT ![o] = <<>>]
  /\ lease' = IF lease = o THEN None ELSE lease
  /\ UNCHANGED <<disk, outcome, trail>>

\* Power is lost: the disk has some directory of the journal, and the payload
\* of any tree that was not synced may be gone.
LosePower ==
  /\ Fault
  /\ \E d \in journal : dir' = d /\ journal' = {d}
  /\ \E lost \in SUBSET (full \ synced) : full' = full \ lost
  /\ pc' = [a \in Attempt |->
               IF pc[a] \in Entered \cup Leaving THEN "dead" ELSE pc[a]]
  /\ stack' = [o \in Owner |-> <<>>]
  /\ lease' = None
  /\ UNCHANGED <<synced, outcome, trail>>

\* An operator removes a lock file whose attempt is over.
RemoveStaleLock ==
  /\ dir.lock # None /\ pc[dir.lock] \in {"dead", "ended"}
  /\ Change([dir EXCEPT !.lock = None])
  /\ UNCHANGED <<full, synced, lease, stack, pc, outcome, faults, trail>>

Step(a) ==
  \/ AcquireLease(a) \/ CheckTarget(a) \/ CreateLock(a) \/ Identify(a)
  \/ MakeStaging(a) \/ WritePayload(a) \/ SyncPayload(a) \/ Swap(a)
  \/ MarkCommitted(a) \/ SyncParent(a) \/ RemoveOld(a)
  \/ CleanStaging(a) \/ ReleaseLock(a) \/ ReleaseLease(a)

Next ==
  \/ \E a \in Attempt : Begin(a) \/ Step(a) \/ AbortBody(a) \/ Fail(a) \/ FailLeaving(a)
  \/ \E o \in Owner : Crash(o)
  \/ LosePower \/ RemoveStaleLock

\* A process that can take a step takes it, and the lease is a fair lock.
Fairness == \A a \in Attempt : WF_vars(Step(a)) /\ SF_vars(AcquireLease(a))

Spec == Init /\ [][Next]_vars /\ Fairness

-----------------------------------------------------------------------------
(* Properties                                                               *)

\* Every variable has its type; only an attempt that runs is in its owner.
TypeOK ==
  /\ dir \in Dir /\ journal \subseteq Dir /\ dir \in journal
  /\ full \subseteq Attempt /\ synced \subseteq full
  /\ lease \in Owner \cup {None}
  /\ stack \in [Owner -> Seq(Attempt)]
  /\ pc \in [Attempt -> Points]
  /\ outcome \in [Attempt -> Outcomes]
  /\ faults \in 0 .. MaxFaults
  /\ past \subseteq Attempt \cup {None} /\ barred \subseteq past

\* commit(): whatever fails, is killed or loses power, and whenever it does,
\* the target is absent or a tree whose whole payload is there.
TargetComplete == dir.target # None => dir.target \in full

\* commit(): once a publication has been confirmed durable, no loss of power
\* brings back what it replaced, or the absence of a tree.
ConfirmedSurvives == \A d \in journal : d.target \notin barred

\* __exit__(): an attempt that ends without a fault, because its body raised,
\* its target exists, or another one has the lock, leaves nothing behind.
LeavesNothing ==
  (faults = 0 /\ \A a \in Attempt : pc[a] \in {"idle", "ended"})
     => dir.lock = None /\ \A a \in Attempt : dir.temps[a] = None

\* PublicationResult: what the caller is told is true of the trees that were
\* installed: "not committed" was never visible, everything else was.
ReportsTrue ==
  \A a \in Attempt :
    /\ outcome[a] \in {"exists", "locked", "not committed"} => a \notin past
    /\ outcome[a] \in {"published", "uncertain", "not cleaned"} => a \in past

\* __enter__(): the check of overwrite and the installation are one decision,
\* though a lock, a body and an fsync lie between them.
NoUnwantedReplacement ==
  [][\A a \in Attempt : (a \notin past /\ a \in past' /\ dir.target # None)
       => a \in Overwrite]_vars

\* _release_lock(): a lock file left by a killed attempt stops every
\* publication until an operator removes it, and nobody else does.
StaleLockHolds ==
  [][\A a \in Attempt : (dir.lock = a /\ pc[a] = "dead")
       => /\ past' = past
          /\ dir'.lock = a \/ RemoveStaleLock \/ LosePower]_vars

\* Every attempt that begins ends, nested ones too: the lease is waited for
\* only by the owners that do not have it.
EveryAttemptEnds ==
  \A a \in Attempt : pc[a] = "waiting" ~> pc[a] \in {"ended", "dead"}

\* The publisher implements a register of complete trees.
Register == INSTANCE PublishedTree WITH Tree <- Attempt, tree <- dir.target
ImplementsRegister == Register!RegisterSpec
=============================================================================
