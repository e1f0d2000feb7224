---------------------------- MODULE RecoveryStore ----------------------------
(***************************************************************************)
(* The local store of recovery lifecycle generations                       *)
(* (recovery/lifecycle.py), driven by `paic recovery state apply`          *)
(* (recovery/cli.py:158-170).                                              *)
(*                                                                         *)
(* Each applier is one process; the file system and the lock are shared.   *)
(* A generation directory is named by its number and a prefix of the hash  *)
(* of its event, which binds the states before and after it and the whole  *)
(* chain of events before it: an entry is the state it holds.              *)
(***************************************************************************)
EXTENDS RecoveryHistory

CONSTANTS
    Appliers,    \* processes that apply reports to one store
    MaxFaults,   \* bound: crashes and failing system calls in one behaviour
    None         \* no pointer, no report, no draft, no lock holder

ASSUME RecoveryAssumption ==
    /\ MaxFaults \in Nat
    /\ None \notin State \cup Report \cup Appliers

VARIABLES
    pointer,      \* the entry current.json names, or None: no such file
    generations,  \* the entries of the generations directory
    lock,         \* holder of .recovery.lock
    pc,           \* [Appliers -> control point]
    args,         \* [Appliers -> the report of the running invocation]
    draft,        \* [Appliers -> the state computed]
    outcome,      \* [Appliers -> how the last invocation ended]
    faults        \* crashes and failures so far (bounded by MaxFaults)

disk    == <<pointer, generations>>
process == <<pc, args, draft, outcome>>
vars    == <<disk, lock, process, faults>>

\* The control points at which the process holds the lock.
InitializePCs == {"copying", "published"}
ApplyPCs      == {"prepared", "renamed", "replaced"}
PCs == {"idle", "initialize", "apply"} \cup InitializePCs \cup ApplyPCs

TypeOK ==
    /\ pointer \in State \cup {None}
    /\ generations \subseteq State
    /\ lock \in Appliers \cup {None}
    /\ pc \in [Appliers -> PCs]
    /\ args \in [Appliers -> Report \cup {None}]
    /\ draft \in [Appliers -> State \cup {None}]
    /\ outcome \in [Appliers -> {"none", "ok", "error"}]
    /\ faults \in 0 .. MaxFaults
    /\ \A x \in Appliers : /\ pc[x] # "idle" => args[x] \in Report
                           /\ pc[x] \in ApplyPCs => draft[x] \in State

Number(entry) == Len(entry.applied)

\* Entries of the committed lineage: numbered no later than the pointer.
Committed == {e \in generations : pointer # None /\ Number(e) <= Number(pointer)}

\* _validate_lineage_locked: the numbers are unique and contiguous up to the
\* pointer, and replaying each report on the generation before it gives the
\* generation.
Validates ==
    /\ pointer \in generations
    /\ \A e, f \in generations : Number(e) = Number(f) => e = f
    /\ \A e \in Committed :
         Number(e) > 0 =>
           \E f \in Committed :
             LET r == e.applied[Number(e)]
             IN  Admissible(f, r) /\ e = Transition(f, r)

Init ==
    /\ pointer = None
    /\ generations = {}
    /\ lock = None
    /\ pc = [x \in Appliers |-> "idle"]
    /\ args = [x \in Appliers |-> None]
    /\ draft = [x \in Appliers |-> None]
    /\ outcome = [x \in Appliers |-> "none"]
    /\ faults = 0

-----------------------------------------------------------------------------
Goto(x, point) == pc' = [pc EXCEPT ![x] = point]

Unlocked(x) == lock' = IF lock = x THEN None ELSE lock

\* The invocation ends: the lock is released and its memory is gone.
Finish(x, result) ==
    /\ Unlocked(x)
    /\ Goto(x, "idle")
    /\ args' = [args EXCEPT ![x] = None]
    /\ draft' = [draft EXCEPT ![x] = None]
    /\ outcome' = [outcome EXCEPT ![x] = result]

\* `_state_apply`: load the report.
Begin(x, r) ==
    /\ pc[x] = "idle"
    /\ Goto(x, "initialize")
    /\ args' = [args EXCEPT ![x] = r]
    /\ outcome' = [outcome EXCEPT ![x] = "none"]
    /\ UNCHANGED <<disk, lock, draft, faults>>

-----------------------------------------------------------------------------
(* initialize(): bind the store to one execution.                           *)

\* The store is bound: the whole lineage is validated on every call.
BoundTo(target) == Validates /\ pointer.target = target

HasOrigin == \E e \in generations : Number(e) = 0

InitializeBound(x) ==
    /\ pc[x] = "initialize"
    /\ lock = None
    /\ pointer # None
    /\ BoundTo(args[x].target)
    /\ Goto(x, "apply")
    /\ UNCHANGED <<disk, lock, args, draft, outcome, faults>>

InitializeRefused(x) ==
    /\ pc[x] = "initialize"
    /\ lock = None
    /\ IF pointer = None THEN HasOrigin ELSE ~BoundTo(args[x].target)
    /\ Finish(x, "error")
    /\ UNCHANGED <<disk, faults>>

InitializeFresh(x) ==
    /\ pc[x] = "initialize"
    /\ lock = None
    /\ pointer = None
    /\ ~HasOrigin
    /\ lock' = x
    /\ Goto(x, "copying")
    /\ UNCHANGED <<disk, args, draft, outcome, faults>>

PublishOrigin(x) ==
    /\ pc[x] = "copying"
    /\ generations' = generations \cup {InitialState(args[x].target)}
    /\ Goto(x, "published")
    /\ UNCHANGED <<pointer, lock, args, draft, outcome, faults>>

PointToOrigin(x) ==
    /\ pc[x] = "published"
    /\ pointer' = InitialState(args[x].target)
    /\ lock' = None
    /\ Goto(x, "apply")
    /\ UNCHANGED <<generations, args, draft, outcome, faults>>

-----------------------------------------------------------------------------
(* apply().                                                                 *)

\* A leftover directory of the same name stops the retry (mutant).
CanApplyFresh(x) ==
    /\ pointer # None
    /\ Validates
    /\ Admissible(pointer, args[x])
    /\ Transition(pointer, args[x]) \notin generations

CanApply(x) ==
    /\ pointer # None
    /\ Validates
    /\ Admissible(pointer, args[x])

\* Every directory but the current one is tidied away (mutant).
LoadPruning(x) ==
    /\ pc[x] = "apply"
    /\ lock = None
    /\ CanApply(x)
    /\ lock' = x
    /\ draft' = [draft EXCEPT ![x] = Transition(pointer, args[x])]
    /\ generations' = {pointer}
    /\ Goto(x, "prepared")
    /\ UNCHANGED <<pointer, args, outcome, faults>>

\* The next state is computed from the validated current one, and a directory
\* an interrupted attempt left under the same name is removed.
Load(x) ==
    /\ pc[x] = "apply"
    /\ lock = None
    /\ CanApply(x)
    /\ lock' = x
    /\ draft' = [draft EXCEPT ![x] = Transition(pointer, args[x])]
    /\ generations' = generations \ {draft'[x]}
    /\ Goto(x, "prepared")
    /\ UNCHANGED <<pointer, args, outcome, faults>>

LoadRefused(x) ==
    /\ pc[x] = "apply"
    /\ lock = None
    /\ ~CanApply(x)
    /\ Finish(x, "error")
    /\ UNCHANGED <<disk, faults>>

\* The pointer is moved before the directory is in place (mutant).
RenameLater(x) ==
    /\ pc[x] = "prepared"
    /\ Goto(x, "renamed")
    /\ UNCHANGED <<disk, lock, args, draft, outcome, faults>>

Rename(x) ==
    /\ pc[x] = "prepared"
    /\ generations' = generations \cup {draft[x]}
    /\ Goto(x, "renamed")
    /\ UNCHANGED <<pointer, lock, args, draft, outcome, faults>>

\* The commit point.  A temporary file an interrupted attempt left is unlinked
\* first, so that it never stops this step.
Replace(x) ==
    /\ pc[x] = "renamed"
    /\ pointer' = draft[x]
    /\ Goto(x, "replaced")
    /\ UNCHANGED <<generations, lock, args, draft, outcome, faults>>

Return(x) ==
    /\ pc[x] = "replaced"
    /\ Finish(x, "ok")
    /\ UNCHANGED <<disk, faults>>

-----------------------------------------------------------------------------
\* A system call fails and apply() or initialize() raises, or the process is
\* killed: either way the lock is released and nothing renamed is undone.
Interrupt(x, result) ==
    /\ faults < MaxFaults
    /\ pc[x] # "idle"
    /\ faults' = faults + 1
    /\ Finish(x, result)
    /\ UNCHANGED disk

Step(x) ==
    \/ InitializeBound(x) \/ InitializeRefused(x) \/ InitializeFresh(x)
    \/ PublishOrigin(x) \/ PointToOrigin(x)
    \/ Load(x) \/ LoadRefused(x) \/ Rename(x) \/ Replace(x) \/ Return(x)

Next ==
    \E x \in Appliers :
      \/ \E r \in Report : Begin(x, r)
      \/ Step(x)
      \/ Interrupt(x, "none")
      \/ Interrupt(x, "error")

Spec == Init /\ [][Next]_vars

\* An operator who applies one report at a time and, after an interruption,
\* applies the interrupted one again before any other.
RetriesFirst(x) ==
    pc[x] = "idle" /\ pc'[x] # "idle" =>
      /\ \A y \in Appliers : pc[y] # "idle" => args[y] = args'[x]
      /\ \A e \in generations \ Committed :
           Number(e) > 0 => e.applied[Number(e)] = args'[x]

RetrySpec == Init /\ [][Next /\ \A x \in Appliers : RetriesFirst(x)]_vars
-----------------------------------------------------------------------------
(* Properties.                                                              *)

\* The store implements the incident lifecycle: the generations the pointer
\* names are a growing history of reports about one execution, and the status
\* computed with a counter is the one the whole history calls for
\* (transition_state, lifecycle.py:111-140, through crashes and retries).
Lifecycle == INSTANCE IncidentLifecycle
    WITH history <- IF pointer = None THEN <<>> ELSE pointer.applied,
         status  <- IF pointer = None THEN "monitoring" ELSE pointer.status

ImplementsLifecycle == Lifecycle!Spec

\* Whatever is interrupted, the pointer names a generation whose whole lineage
\* is on disk, so that every decision can still be replayed from its reports
\* (lifecycle.py:374-440).
LineageOnDisk ==
    pointer # None =>
      /\ pointer \in generations
      /\ InitialState(pointer.target) \in generations
      /\ \A n \in 1 .. Number(pointer) :
           \E f, e \in generations :
             /\ e.applied = SubSeq(pointer.applied, 1, n)
             /\ e = Transition(f, pointer.applied[n])

\* Why: only the holder of the lock touches the lineage, so what it has computed
\* still follows the generation the pointer names, and that generation says
\* what its own history says.
Exclusive ==
    \A x \in Appliers : pc[x] \in InitializePCs \cup ApplyPCs => lock = x

\* initialize() only works on a store without a pointer.
Bound ==
    \A x \in Appliers :
      /\ pc[x] \in InitializePCs => pointer = None
      /\ pc[x] = "published" => InitialState(args[x].target) \in generations

\* apply() publishes the successor of the current generation.
Drafted ==
    \A x \in Appliers :
      /\ pc[x] \in {"prepared", "renamed"} =>
           /\ pointer # None
           /\ Admissible(pointer, args[x])
           /\ draft[x] = Transition(pointer, args[x])
      /\ pc[x] = "renamed" => draft[x] \in generations

\* The current generation is what its reports, in their order, make it.
Sound == pointer # None => Faithful(pointer) /\ Ordered(pointer)

\* The inductive invariant behind LineageOnDisk and ImplementsLifecycle.
StoreInvariant == Exclusive /\ Bound /\ Drafted /\ Sound /\ LineageOnDisk

\* lifecycle.py:322-325: a generation published without its pointer "is outside
\* the authoritative lineage": the store stays readable whenever nobody is in it.
AlwaysReadable == pointer # None /\ lock = None => Validates

\* Why, under RetrySpec: one report is applied at a time, so that whatever lies
\* beyond the pointer was published by an interrupted attempt at that report.
Stray == {e \in generations : pointer # None /\ Number(e) > Number(pointer)}

OneReport ==
    \A x \in Appliers : pc[x] # "idle" =>
      /\ \A y \in Appliers : pc[y] # "idle" => args[y] = args[x]
      /\ \A e \in Stray : e.applied[Number(e)] = args[x]

\* A stray entry succeeds the current one, and the attempt that takes the lock
\* clears it away before it publishes its own.
OneAttempt ==
    /\ \A e \in Stray : \E r \in Report : e = Transition(pointer, r)
    /\ \A x \in Appliers :
         /\ pc[x] = "prepared" => Stray = {}
         /\ pc[x] = "renamed" => Stray \subseteq {draft[x]}

\* Before the store is bound nothing but the origin can be in it.
Unbound ==
    /\ pointer = None => \A e \in generations : Number(e) = 0
    /\ \A x \in Appliers : pc[x] = "copying" => generations = {}

Distinct == \A e, f \in generations : Number(e) = Number(f) => e = f

\* The inductive invariant behind AlwaysReadable and RetryCommits.
RetryInvariant ==
    /\ OneReport /\ OneAttempt /\ Unbound /\ Distinct
    /\ pointer # None => Validates

\* test_recovery_lifecycle.py:108 "retry_succeeds": once the store is bound, an
\* invocation that meets no fault of its own fails only if its report must not
\* be applied to the state it found.
RetryCommits ==
    [][\A x \in Appliers :
         /\ pc[x] # "idle" /\ pc'[x] = "idle"
         /\ outcome'[x] = "error" /\ faults' = faults /\ pointer # None
         => ~Admissible(pointer, args[x])]_vars
=============================================================================
