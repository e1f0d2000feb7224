---------------------------- MODULE ControlStore ----------------------------
(***************************************************************************)
(* The local transaction store that executes remediation plans             *)
(* (remediation/state_store.py), with the approval ledgers it consults     *)
(* (remediation/approval.py) and the command line that drives it           *)
(* (remediation/cli.py).                                                   *)
(*                                                                         *)
(* Each executor is one process running `paic remediate execute`.  The     *)
(* file system and the locks are shared.  One action is one step between   *)
(* two points at which the process can be killed or a system call can      *)
(* fail; a private `.prepare-` directory is local to the process, because  *)
(* nothing ever looks at one.                                              *)
(***************************************************************************)
EXTENDS ApprovalRules, Sequences

CONSTANTS
    Executors,      \* processes that execute plans against one store
    Ledgers,        \* approval ledger directories
    Requests,       \* execution requests, named by their execution_id
    ExecutedAt,     \* [Requests -> instants]: ExecutionRequest.executed_at
    MaxTokens,      \* bound: tokens issued in one behaviour
    MaxFaults,      \* bound: crashes and failing system calls in one behaviour
    Origin,         \* the directory entry of generation 0
    None            \* no pointer, no arguments, no receipt, no lock holder

\* A control state, as far as admission reads it.  The resources a state holds
\* are a function of the plans that were executed, and are left out.
ControlState == [generation : Nat, executed : SUBSET Plans,
                 consumed : SUBSET Nonces]

InitialState == [generation |-> 0, executed |-> {}, consumed |-> {}]

\* An execution receipt; `before` is its before_state_manifest_sha256.
Receipt == [plan : Plans, request : Requests, nonce : Nonces,
            snapshot : SUBSET Decision, before : ControlState]

\* The command-line arguments of one invocation.
Arguments == [plan : Plans, ledger : Ledgers, token : Token,
              request : Requests]

ASSUME StoreAssumption ==
    /\ ExecutedAt \in [Requests -> Instants]
    /\ MaxTokens \in Nat
    /\ MaxFaults \in Nat
    /\ Origin \notin Receipt
    /\ None \notin Receipt \cup Arguments \cup ControlState \cup Executors
    /\ None # Origin

VARIABLES
    binding,      \* [Plans -> state the plan was built on, or None: no plan yet]
    decisions,    \* [Ledgers -> decisions recorded in the ledger]
    tokens,       \* tokens issued
    meta,         \* store.json exists
    pointer,      \* the entry current.json names, or None: no such file
    generations,  \* the entries of the generations directory
    stale,        \* the .tmp files present: subset of {"store", "current"}
    stateLock,    \* holder of .state.lock
    approvalLock, \* [Ledgers -> holder of .approval.lock]
    pc,           \* [Executors -> control point]
    args,         \* [Executors -> arguments of the running invocation]
    before,       \* [Executors -> the control state loaded]
    draft,        \* [Executors -> the receipt computed]
    outcome,      \* [Executors -> how the last invocation ended]
    faults,       \* crashes and failures so far (bounded by MaxFaults)
    commits       \* history: the receipts the pointer has named, in order

workflow == <<binding, decisions, tokens>>
disk     == <<meta, pointer, generations, stale>>
locks    == <<stateLock, approvalLock>>
process  == <<pc, args, before, draft, outcome>>
vars     == <<workflow, disk, locks, process, faults, commits>>

InitializePCs == {"copying", "published", "metaOpened", "metaWritten",
                  "originOpened"}
CommitPCs     == {"prepared", "staged", "renamed", "opened", "replaced"}

\* The control points at which the process holds the state lock.
CriticalPCs == InitializePCs \cup {"loaded", "deciding"} \cup CommitPCs
PCs == {"idle", "initialize", "execute", "exporting"} \cup CriticalPCs

TypeOK ==
    /\ binding \in [Plans -> ControlState \cup {None}]
    /\ decisions \in [Ledgers -> SUBSET Decision]
    /\ tokens \subseteq Token
    /\ meta \in BOOLEAN
    /\ pointer \in Receipt \cup {Origin, None}
    /\ generations \subseteq Receipt \cup {Origin}
    /\ stale \subseteq {"store", "current"}
    /\ stateLock \in Executors \cup {None}
    /\ approvalLock \in [Ledgers -> Executors \cup {None}]
    /\ pc \in [Executors -> PCs]
    /\ args \in [Executors -> Arguments \cup {None}]
    /\ before \in [Executors -> ControlState \cup {None}]
    /\ draft \in [Executors -> Receipt \cup {None}]
    /\ outcome \in [Executors -> {"none", "ok", "error"}]
    /\ faults \in 0 .. MaxFaults
    /\ commits \in Seq(Receipt)

-----------------------------------------------------------------------------
(* Directory entries: the name of a generation is its number and a prefix   *)
(* of its receipt hash, so an entry is its receipt.                          *)

AfterState(r) ==
    [generation |-> r.before.generation + 1,
     executed   |-> r.before.executed \cup {r.plan},
     consumed   |-> r.before.consumed \cup {r.nonce}]

StateOf(entry) == IF entry = Origin THEN InitialState ELSE AfterState(entry)

Number(entry) == StateOf(entry).generation

\* A receipt that does not bind the state it started from (mutant).
UnboundReceipt(x) ==
    [plan |-> args[x].plan, request |-> args[x].request,
     nonce |-> args[x].token.nonce,
     snapshot |-> decisions[args[x].ledger], before |-> None]

\* execute_plan's receipt for the running invocation.
ReceiptFor(x) ==
    [plan |-> args[x].plan, request |-> args[x].request,
     nonce |-> args[x].token.nonce,
     snapshot |-> decisions[args[x].ledger], before |-> before[x]]

\* validate(): the pointer names the last of a contiguous run of generations,
\* and no two directories carry the same generation number.
Validates ==
    /\ meta
    /\ pointer # None
    /\ \A e, f \in generations : Number(e) = Number(f) => e = f
    /\ pointer \in generations
    /\ {Number(e) : e \in generations} \cap 0 .. Number(pointer)
         = 0 .. Number(pointer)

-----------------------------------------------------------------------------
Init ==
    /\ binding = [p \in Plans |-> None]
    /\ decisions = [l \in Ledgers |-> {}]
    /\ tokens = {}
    /\ meta = FALSE
    /\ pointer = None
    /\ generations = {}
    /\ stale = {}
    /\ stateLock = None
    /\ approvalLock = [l \in Ledgers |-> None]
    /\ pc = [x \in Executors |-> "idle"]
    /\ args = [x \in Executors |-> None]
    /\ before = [x \in Executors |-> None]
    /\ draft = [x \in Executors |-> None]
    /\ outcome = [x \in Executors |-> "none"]
    /\ faults = 0
    /\ commits = <<>>

-----------------------------------------------------------------------------
(* The workflow around the store.                                           *)

\* `plan build` binds a plan to the manifest of a control-state artifact: the
\* initial export, or any generation on disk.
BuildPlan(p) ==
    /\ binding[p] = None
    /\ \E s \in {InitialState} \cup {StateOf(e) : e \in generations} :
           binding' = [binding EXCEPT ![p] = s]
    /\ UNCHANGED <<decisions, tokens, disk, locks, process, faults, commits>>

\* `approval record` appends under the ledger lock, one decision per approver.
Record(l, d) ==
    /\ binding[d.plan] # None
    /\ approvalLock[l] = None
    /\ \A e \in decisions[l] : e.approver # d.approver
    /\ decisions' = [decisions EXCEPT ![l] = @ \cup {d}]
    /\ UNCHANGED <<binding, tokens, disk, locks, process, faults, commits>>

\* `token issue` evaluates the ledger without its lock, for an instant the
\* caller supplies.
Issue(p, l, n, at) ==
    /\ binding[p] # None
    /\ EvaluateApproval(p, decisions[l], at) = "approved"
    /\ at < ExpiresAt[p]
    /\ Cardinality(tokens) < MaxTokens
    /\ tokens' = tokens \cup {IssueToken(p, decisions[l], n, at)}
    /\ UNCHANGED <<binding, decisions, disk, locks, process, faults, commits>>

-----------------------------------------------------------------------------
(* Helpers of the executor's steps.                                         *)

Goto(x, point) == pc' = [pc EXCEPT ![x] = point]

Locked(x) == stateLock = None /\ stateLock' = x

Unlock(x) ==
    /\ stateLock' = IF stateLock = x THEN None ELSE stateLock
    /\ approvalLock' = [l \in Ledgers |->
                          IF approvalLock[l] = x THEN None ELSE approvalLock[l]]

\* The invocation ends: every lock is released and its memory is gone.
Finish(x, result) ==
    /\ Unlock(x)
    /\ Goto(x, "idle")
    /\ args' = [args EXCEPT ![x] = None]
    /\ before' = [before EXCEPT ![x] = None]
    /\ draft' = [draft EXCEPT ![x] = None]
    /\ outcome' = [outcome EXCEPT ![x] = result]

\* `_execute`: load the plan, the request and the token.
Begin(x, a) ==
    /\ pc[x] = "idle"
    /\ binding[a.plan] # None
    /\ a.token \in tokens
    /\ Goto(x, "initialize")
    /\ args' = [args EXCEPT ![x] = a]
    /\ outcome' = [outcome EXCEPT ![x] = "none"]
    /\ UNCHANGED <<workflow, disk, locks, before, draft, faults, commits>>

-----------------------------------------------------------------------------
(* initialize(): bind the store to its initial state.                       *)

InitializeBound(x) ==
    /\ pc[x] = "initialize"
    /\ stateLock = None
    /\ meta
    /\ Goto(x, "execute")
    /\ UNCHANGED <<workflow, disk, locks, args, before, draft, outcome, faults,
                   commits>>

\* The command names a state directory other than the one the store is bound
\* to; which directory a command names is decided here.
InitializeForeign(x) ==
    /\ pc[x] = "initialize"
    /\ stateLock = None
    /\ meta
    /\ Finish(x, "error")
    /\ UNCHANGED <<workflow, disk, faults, commits>>

InitializeRefused(x) ==
    /\ pc[x] = "initialize"
    /\ stateLock = None
    /\ ~meta
    /\ Origin \in generations
    /\ Finish(x, "error")
    /\ UNCHANGED <<workflow, disk, faults, commits>>

InitializeFresh(x) ==
    /\ pc[x] = "initialize"
    /\ Locked(x)
    /\ ~meta
    /\ Origin \notin generations
    /\ Goto(x, "copying")
    /\ UNCHANGED <<workflow, disk, approvalLock, args, before, draft, outcome,
                   faults, commits>>

\* os.replace of the copied initial state into the generations directory.
PublishOrigin(x) ==
    /\ pc[x] = "copying"
    /\ generations' = generations \cup {Origin}
    /\ Goto(x, "published")
    /\ UNCHANGED <<workflow, meta, pointer, stale, locks, args, before, draft,
                   outcome, faults, commits>>

\* _write_json_atomic opens its fixed temporary name exclusively (mode "x").
OpenTemporary(x, name, from, to) ==
    /\ pc[x] = from
    /\ name \notin stale
    /\ stale' = stale \cup {name}
    /\ Goto(x, to)
    /\ UNCHANGED <<workflow, meta, pointer, generations, locks, args, before,
                   draft, outcome, faults, commits>>

TemporaryExists(x, name, from) ==
    /\ pc[x] = from
    /\ name \in stale
    /\ Finish(x, "error")
    /\ UNCHANGED <<workflow, disk, faults, commits>>

OpenMeta(x)   == OpenTemporary(x, "store", "published", "metaOpened")
OpenOrigin(x) == OpenTemporary(x, "current", "metaWritten", "originOpened")

WriteMeta(x) ==
    /\ pc[x] = "metaOpened"
    /\ meta' = TRUE
    /\ stale' = stale \ {"store"}
    /\ Goto(x, "metaWritten")
    /\ UNCHANGED <<workflow, pointer, generations, locks, args, before, draft,
                   outcome, faults, commits>>

PointToOrigin(x) ==
    /\ pc[x] = "originOpened"
    /\ pointer' = Origin
    /\ stale' = stale \ {"current"}
    /\ stateLock' = None
    /\ Goto(x, "execute")
    /\ UNCHANGED <<workflow, meta, generations, approvalLock, args, before,
                   draft, outcome, faults, commits>>

-----------------------------------------------------------------------------
(* execute(): admission under the state lock.                               *)

\* The checks made before the approval lock is taken.
StateAdmits(p, s) ==
    /\ p \notin s.executed
    /\ s.generation = 0 => binding[p] = s

\* The state is read without waiting for the lock (mutant).
LoadUnlocked(x) ==
    /\ pc[x] = "execute"
    /\ stateLock' = x
    /\ meta /\ pointer # None
    /\ StateAdmits(args[x].plan, StateOf(pointer))
    /\ before' = [before EXCEPT ![x] = StateOf(pointer)]
    /\ Goto(x, "loaded")
    /\ UNCHANGED <<workflow, disk, approvalLock, args, draft, outcome, faults,
                   commits>>

\* The ledger is locked to be read here, and locked again to decide (mutant).
LoadHoldingApprovals(x) ==
    /\ pc[x] = "execute"
    /\ Locked(x)
    /\ meta /\ pointer # None
    /\ StateAdmits(args[x].plan, StateOf(pointer))
    /\ approvalLock[args[x].ledger] = None
    /\ approvalLock' = [approvalLock EXCEPT ![args[x].ledger] = x]
    /\ before' = [before EXCEPT ![x] = StateOf(pointer)]
    /\ Goto(x, "loaded")
    /\ UNCHANGED <<workflow, disk, args, draft, outcome, faults, commits>>

Load(x) ==
    /\ pc[x] = "execute"
    /\ Locked(x)
    /\ meta /\ pointer # None
    /\ StateAdmits(args[x].plan, StateOf(pointer))
    /\ before' = [before EXCEPT ![x] = StateOf(pointer)]
    /\ Goto(x, "loaded")
    /\ UNCHANGED <<workflow, disk, approvalLock, args, draft, outcome, faults,
                   commits>>

LoadRefused(x) ==
    /\ pc[x] = "execute"
    /\ stateLock = None
    /\ ~ (/\ meta /\ pointer # None
          /\ StateAdmits(args[x].plan, StateOf(pointer)))
    /\ Finish(x, "error")
    /\ UNCHANGED <<workflow, disk, faults, commits>>

LockApprovals(x) ==
    /\ pc[x] = "loaded"
    /\ approvalLock[args[x].ledger] = None
    /\ approvalLock' = [approvalLock EXCEPT ![args[x].ledger] = x]
    /\ Goto(x, "deciding")
    /\ UNCHANGED <<workflow, disk, stateLock, args, before, draft, outcome,
                   faults, commits>>

\* The consumed nonces of the lineage are not consulted (mutant).
AdmittedWithAnyNonce(x) ==
    LET a == args[x]
        at == ExecutedAt[a.request]
    IN  /\ a.plan \notin Denied
        /\ binding[a.plan] = before[x]
        /\ TokenAccepted(a.token, a.plan, decisions[a.ledger], at)

\* evaluate_approval, then execute_plan's checks, for the loaded state.
ExecutionAdmitted(x) ==
    LET a == args[x]
        at == ExecutedAt[a.request]
    IN  /\ a.plan \notin Denied
        /\ binding[a.plan] = before[x]
        /\ a.plan \notin before[x].executed
        /\ TokenAccepted(a.token, a.plan, decisions[a.ledger], at)
        /\ a.token.nonce \notin before[x].consumed

\* The approval lock is released before anything is written.
Decide(x) ==
    /\ pc[x] = "deciding"
    /\ ExecutionAdmitted(x)
    /\ draft' = [draft EXCEPT ![x] = ReceiptFor(x)]
    /\ approvalLock' = [approvalLock EXCEPT ![args[x].ledger] = None]
    /\ Goto(x, "prepared")
    /\ UNCHANGED <<workflow, disk, stateLock, args, before, outcome, faults,
                   commits>>

DecideRefused(x) ==
    /\ pc[x] = "deciding"
    /\ ~ExecutionAdmitted(x)
    /\ Finish(x, "error")
    /\ UNCHANGED <<workflow, disk, faults, commits>>

-----------------------------------------------------------------------------
(* execute(): stage, publish and commit.                                    *)

\* Every directory but the current one is tidied away first (mutant), and the
\* exported state is not loaded back (mutant).
StagePruning(x) ==
    /\ pc[x] = "prepared"
    /\ generations' = generations \cap {pointer}
    /\ Goto(x, "staged")
    /\ UNCHANGED <<workflow, meta, pointer, stale, locks, args, before, draft,
                   outcome, faults, commits>>

\* A directory left by an earlier attempt with the same receipt is removed,
\* then state and receipt are exported to a private directory and validated.
\* Its validation fails, for a state with more plan hashes than ControlState
\* admits say, as Fail from the next point does.
Stage(x) ==
    /\ pc[x] = "prepared"
    /\ generations' = generations \ {draft[x]}
    /\ Goto(x, "staged")
    /\ UNCHANGED <<workflow, meta, pointer, stale, locks, args, before, draft,
                   outcome, faults, commits>>

Rename(x) ==
    /\ pc[x] = "staged"
    /\ generations' = generations \cup {draft[x]}
    /\ Goto(x, "renamed")
    /\ UNCHANGED <<workflow, meta, pointer, stale, locks, args, before, draft,
                   outcome, faults, commits>>

OpenPointer(x) == OpenTemporary(x, "current", "renamed", "opened")

\* The commit point: current.json is replaced.
Replace(x) ==
    /\ pc[x] = "opened"
    /\ pointer' = draft[x]
    /\ commits' = Append(commits, draft[x])
    /\ stale' = stale \ {"current"}
    /\ Goto(x, "replaced")
    /\ UNCHANGED <<workflow, meta, generations, locks, args, before, draft,
                   outcome, faults>>

\* execute() returns; a failing directory fsync is not an error if the pointer
\* reads back.  The command line then writes the compatibility exports.
Return(x) ==
    /\ pc[x] = "replaced"
    /\ stateLock' = None
    /\ Goto(x, "exporting")
    /\ UNCHANGED <<workflow, disk, approvalLock, args, before, draft, outcome,
                   faults, commits>>

Export(x) ==
    /\ pc[x] = "exporting"
    /\ Finish(x, "ok")
    /\ UNCHANGED <<workflow, disk, faults, commits>>

-----------------------------------------------------------------------------
(* Faults.                                                                  *)

\* A system call fails: the exception propagates to the command line, which
\* reports failure.  Nothing already renamed into place is undone, and a
\* temporary file already created is left behind.
Fail(x) ==
    /\ faults < MaxFaults
    /\ pc[x] \in CriticalPCs \cup {"exporting"}
    /\ faults' = faults + 1
    /\ Finish(x, "error")
    /\ UNCHANGED <<workflow, disk, commits>>

\* The process is killed: the kernel releases its locks and nothing else.
Crash(x) ==
    /\ faults < MaxFaults
    /\ pc[x] # "idle"
    /\ faults' = faults + 1
    /\ Finish(x, "none")
    /\ UNCHANGED <<workflow, disk, commits>>

-----------------------------------------------------------------------------
Initialize(x) ==
    \/ InitializeBound(x) \/ InitializeForeign(x) \/ InitializeRefused(x)
    \/ InitializeFresh(x)
    \/ PublishOrigin(x)
    \/ OpenMeta(x) \/ TemporaryExists(x, "store", "published")
    \/ WriteMeta(x)
    \/ OpenOrigin(x) \/ TemporaryExists(x, "current", "metaWritten")
    \/ PointToOrigin(x)

Execute(x) ==
    \/ Load(x) \/ LoadRefused(x)
    \/ LockApprovals(x) \/ Decide(x) \/ DecideRefused(x)
    \/ Stage(x) \/ Rename(x)
    \/ OpenPointer(x) \/ TemporaryExists(x, "current", "renamed")
    \/ Replace(x) \/ Return(x) \/ Export(x)

Workflow ==
    \/ \E p \in Plans : BuildPlan(p)
    \/ \E l \in Ledgers, d \in Decision : Record(l, d)
    \/ \E p \in Plans, l \in Ledgers, n \in Nonces, at \in Instants :
           Issue(p, l, n, at)

Next ==
    \/ Workflow
    \/ \E x \in Executors :
         \/ \E a \in [plan : Plans, ledger : Ledgers, token : tokens,
                      request : Requests] : Begin(x, a)
         \/ Initialize(x)
         \/ Execute(x)
         \/ Fail(x)
         \/ Crash(x)

Spec == Init /\ [][Next]_vars

\* Every process keeps running: each of its steps is weakly fair, and flock
\* hands a contended lock to every waiter in the end.
Fairness ==
    \A x \in Executors :
        /\ WF_vars(Initialize(x)) /\ WF_vars(Execute(x))
        /\ SF_vars(Initialize(x) /\ pc[x] = "initialize")
        /\ SF_vars(Execute(x) /\ pc[x] \in {"execute", "loaded"})

FairSpec == Spec /\ Fairness
-----------------------------------------------------------------------------
(* What the store promises.                                                 *)

\* state_store.py:90 "exactly-once": along one lineage no plan and no token
\* nonce is consumed twice, whichever processes race, crash and retry.
AtMostOnce ==
    \A i, j \in DOMAIN commits :
        i # j => /\ commits[i].plan # commits[j].plan
                 /\ commits[i].nonce # commits[j].nonce

\* Every generation the pointer has named is still on disk, the pointer names
\* the last, and each starts from the state the one before it produced: a
\* crash never leaves the pointer without its lineage.
LineageOnDisk ==
    /\ pointer # None => meta /\ Origin \in generations
    /\ commits # <<>> => pointer = commits[Len(commits)]
    /\ \A i \in DOMAIN commits :
         /\ commits[i] \in generations
         /\ commits[i].before =
              IF i = 1 THEN InitialState ELSE AfterState(commits[i - 1])

\* Every committed execution was authorised by decisions that some ledger
\* still holds, and ran on the exact state its plan was built for.
CommittedWasAuthorised ==
    \A i \in DOMAIN commits :
        /\ Authorised(commits[i].plan, commits[i].snapshot,
                      ExecutedAt[commits[i].request])
        /\ \E l \in Ledgers : commits[i].snapshot \subseteq decisions[l]
        /\ binding[commits[i].plan] = commits[i].before

\* Why AtMostOnce and LineageOnDisk hold: whatever a process has loaded or
\* computed is about the state the pointer names, because only the holder of the
\* state lock moves it, and that state lists exactly what was committed.
Exclusive == \A x \in Executors : pc[x] \in CriticalPCs => stateLock = x

Bound ==
    /\ meta => Origin \in generations
    /\ \A x \in Executors :
         /\ pc[x] \in InitializePCs => pointer = None
         /\ pc[x] \in InitializePCs \ {"copying"} => Origin \in generations
         /\ pc[x] \in {"metaWritten", "originOpened"} => meta

Loaded ==
    \A x \in Executors :
        /\ pc[x] \in {"loaded", "deciding", "prepared", "staged", "renamed", "opened"}
             => pointer # None /\ before[x] = StateOf(pointer)
        /\ pc[x] \in {"prepared", "staged", "renamed", "opened"}
             => /\ draft[x].before = before[x]
                /\ draft[x].plan \notin before[x].executed
                /\ draft[x].nonce \notin before[x].consumed
        /\ pc[x] \in {"renamed", "opened"} => draft[x] \in generations

CommittedPlans  == {commits[i].plan  : i \in DOMAIN commits}
CommittedNonces == {commits[i].nonce : i \in DOMAIN commits}

Recorded ==
    /\ pointer = None => commits = <<>>
    /\ pointer # None /\ commits = <<>> => pointer = Origin
    /\ pointer # None =>
         StateOf(pointer) =
           [generation |-> Len(commits),
            executed |-> CommittedPlans, consumed |-> CommittedNonces]
    /\ \A i \in DOMAIN commits : commits[i].before.generation = i - 1

\* The inductive invariant behind LineageOnDisk and AtMostOnce.
StoreInvariant ==
    Exclusive /\ Bound /\ Loaded /\ Recorded /\ LineageOnDisk /\ AtMostOnce

\* The store implements the register: the state the pointer file names is bound
\* once and only ever consumes a fresh plan together with a fresh nonce.
CurrentState == IF pointer = None THEN None ELSE StateOf(pointer)

Lineage == INSTANCE ControlLineage WITH state <- CurrentState

ImplementsLineage == Lineage!Spec

\* Once processes keep running and faults have stopped, every invocation ends:
\* no lock is leaked on any path and the two locks never deadlock.
EveryInvocationEnds == \A x \in Executors : pc[x] # "idle" ~> pc[x] = "idle"

\* docs/CONTROLLED_REMEDIATION.md:98: a generation renamed before the pointer
\* update is "inert, and deterministically removed by a retry": whatever was
\* interrupted, the store validates whenever nobody is inside it.
ValidWhenUnlocked == pointer # None /\ stateLock = None => Validates

\* The same sentence for one attempt: an attempt that meets no fault of its own
\* does not leave the generation it renamed outside the lineage.
RetryRemovesOrphan ==
    [][\A x \in Executors :
         pc[x] = "renamed" /\ pc'[x] = "idle" /\ faults' = faults
             => draft[x] \notin generations']_vars
=============================================================================
