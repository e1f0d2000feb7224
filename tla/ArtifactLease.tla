---------------------------- MODULE ArtifactLease ----------------------------
(***************************************************************************)
(* The reader and writer leases of artifact directories                    *)
(* (artifacts/lease.py), driven by the loaders that read several artifacts *)
(* (`artifact_reader_leases`) and by the publishers that replace one       *)
(* (artifacts/publication.py), some of which read others while they hold   *)
(* their own (recovery/observations.py:157-199).                           *)
(*                                                                         *)
(* A lease locks directories with flock.  The domain of an artifact is the *)
(* nearest ancestor the user cannot rename, its gate is the directory      *)
(* above that; artifacts share domains, and domains share gates.  A writer *)
(* keeps the gate as long as its lease, a reader only until it is in.      *)
(*                                                                         *)
(* A process here is one execution owner (process, thread, task): what it  *)
(* nests in a domain it has locked is re-entrant.                          *)
(***************************************************************************)
EXTENDS Naturals

CONSTANTS
    Processes,        \* execution owners
    Roots,            \* artifact directories, numbered in canonical order
    Directories,      \* domains and gates
    DomainOf,         \* [Roots -> Directories], _stable_domain
    GateOf,           \* [Directories -> Directories], the parent of a domain
    OperationsOf,     \* [Processes -> what it may do: publish a root, read some]
    Trees,            \* inodes of published trees
    MaxReplacements,  \* bound: times the lease file of a root is replaced
    MaxFaults,        \* bound: failures and kills in one behaviour
    None              \* no root, no tree, no file, no operation

ASSUME LeaseAssumption ==
    /\ Roots \subseteq Nat
    /\ DomainOf \in [Roots -> Directories]
    /\ GateOf \in [Directories -> Directories]
    /\ \A p \in Processes : \A o \in OperationsOf[p] :
         /\ o \in [write : Roots \cup {None}, reads : SUBSET Roots]
         /\ o.write \notin o.reads
         /\ o.write = None => o.reads # {}
    /\ Trees # {}
    /\ MaxReplacements \in Nat
    /\ MaxFaults \in Nat
    /\ None \notin Nat \cup Trees

VARIABLES
    tree,       \* [Roots -> the tree published under that name]
    leaseFile,  \* [Roots -> inode of the lease file beside it]
    recorded,   \* [Roots -> the inode the identity file names, or None]
    gates,      \* [Processes -> gates it has locked]
    shared,     \* [Processes -> domains it has locked shared]
    exclusive,  \* [Processes -> domains it has locked exclusive]
    pc,         \* [Processes -> control point]
    op,         \* [Processes -> what it is doing]
    todo,       \* [Processes -> roots whose leases it has yet to enter]
    held,       \* [Processes -> roots whose leases it holds]
    opened,     \* [Processes -> [Roots -> the lease file it has opened, or None]]
    changed,    \* [Processes -> whether that file is not the recorded one]
    anchor,     \* [Processes -> [Roots -> the tree it has opened for reading, or None]]
    faults      \* failures and kills so far (bounded by MaxFaults)

disk    == <<tree, leaseFile, recorded>>
locks   == <<gates, shared, exclusive>>
lease   == <<todo, held, opened, changed, anchor>>
vars    == <<disk, locks, lease, pc, op, faults>>

NoOperation == [write |-> None, reads |-> {}]

\* The control points at which the process holds the gate for a lease that it
\* is entering.
EnteringPCs == {"drain", "open", "enter", "confirm", "downgrade", "data"}
PCs == EnteringPCs \cup
       {"idle", "prepare", "turnstile", "reading", "leaving", "publishing",
        "committed", "failing"}

TypeOK ==
    /\ tree \in [Roots -> Trees]
    /\ leaseFile \in [Roots -> 0 .. MaxReplacements]
    /\ recorded \in [Roots -> 0 .. MaxReplacements \cup {None}]
    /\ gates \in [Processes -> SUBSET Directories]
    /\ shared \in [Processes -> SUBSET Directories]
    /\ exclusive \in [Processes -> SUBSET Directories]
    /\ pc \in [Processes -> PCs]
    /\ op \in [Processes -> [write : Roots \cup {None}, reads : SUBSET Roots]]
    /\ todo \in [Processes -> SUBSET Roots]
    /\ held \in [Processes -> SUBSET Roots]
    /\ opened \in [Processes -> [Roots -> 0 .. MaxReplacements \cup {None}]]
    /\ changed \in [Processes -> BOOLEAN]
    /\ anchor \in [Processes -> [Roots -> Trees \cup {None}]]
    /\ faults \in 0 .. MaxFaults

Init ==
    /\ tree = [r \in Roots |-> CHOOSE t \in Trees : TRUE]
    /\ leaseFile = [r \in Roots |-> 0]
    /\ recorded = [r \in Roots |-> None]
    /\ gates = [p \in Processes |-> {}]
    /\ shared = [p \in Processes |-> {}]
    /\ exclusive = [p \in Processes |-> {}]
    /\ pc = [p \in Processes |-> "idle"]
    /\ op = [p \in Processes |-> NoOperation]
    /\ todo = [p \in Processes |-> {}]
    /\ held = [p \in Processes |-> {}]
    /\ opened = [p \in Processes |-> [r \in Roots |-> None]]
    /\ changed = [p \in Processes |-> FALSE]
    /\ anchor = [p \in Processes |-> [r \in Roots |-> None]]
    /\ faults = 0

-----------------------------------------------------------------------------
Goto(p, point) == pc' = [pc EXCEPT ![p] = point]

\* flock: exclusive excludes every other descriptor, those of the same process
\* included; shared excludes exclusive ones.
NotExclusive(d) == \A q \in Processes : d \notin gates[q] \cup exclusive[q]
Free(d)         == NotExclusive(d) /\ \A q \in Processes : d \notin shared[q]

Domain(r) == DomainOf[r]
Gate(r)   == GateOf[DomainOf[r]]

\* The lease being entered: the first of `todo` in canonical order.
Current(p, r) == r \in todo[p] /\ \A s \in todo[p] : r <= s

Writes(p, r) == r = op[p].write

\* A domain is locked by the first of the process's leases in it, the one that
\* has a lease file open.
Locked(p, d) == \E r \in held[p] : opened[p][r] # None /\ Domain(r) = d

\* Where the process goes on once it is in the lease of r.
AfterEntering(p, r) ==
    IF Writes(p, r) THEN "publishing"
    ELSE IF todo[p] = {r} THEN "reading" ELSE "turnstile"

\* The operation is over, its descriptors are closed.
Finish(p) ==
    /\ Goto(p, "idle")
    /\ op' = [op EXCEPT ![p] = NoOperation]
    /\ todo' = [todo EXCEPT ![p] = {}]
    /\ held' = [held EXCEPT ![p] = {}]
    /\ opened' = [opened EXCEPT ![p] = [r \in Roots |-> None]]
    /\ anchor' = [anchor EXCEPT ![p] = [r \in Roots |-> None]]
    /\ UNCHANGED changed

-----------------------------------------------------------------------------
(* artifact_reader_leases: open every root first, then enter in order.       *)

BeginRead(p, o) ==
    /\ pc[p] = "idle"
    /\ o.write = None
    /\ op' = [op EXCEPT ![p] = o]
    /\ todo' = [todo EXCEPT ![p] = o.reads]
    /\ Goto(p, "prepare")
    /\ UNCHANGED <<disk, locks, held, opened, changed, anchor, faults>>

\* prepare_anchor
Prepare(p, r) ==
    /\ pc[p] = "prepare"
    /\ r \in todo[p] /\ anchor[p][r] = None
    /\ \A s \in todo[p] : s < r => anchor[p][s] # None
    /\ anchor' = [anchor EXCEPT ![p][r] = tree[r]]
    /\ Goto(p, IF \A s \in todo[p] : s # r => anchor[p][s] # None
               THEN "turnstile" ELSE "prepare")
    /\ UNCHANGED <<disk, locks, todo, held, opened, changed, op, faults>>

-----------------------------------------------------------------------------
(* _ArtifactLease.acquire_intent                                             *)

\* _enter_reentrant_if_safe: the domain is locked already.  An anchor opened by
\* prepare_anchor is kept.
Reenter(p, r) ==
    /\ pc[p] = "turnstile"
    /\ Current(p, r)
    /\ Locked(p, Domain(r))
    /\ held' = [held EXCEPT ![p] = @ \cup {r}]
    /\ todo' = [todo EXCEPT ![p] = @ \ {r}]
    /\ anchor' = [anchor EXCEPT ![p][r] = IF @ = None THEN tree[r] ELSE @]
    /\ Goto(p, AfterEntering(p, r))
    /\ UNCHANGED <<disk, locks, opened, changed, op, faults>>

\* The gate is not waited for when no writer is in the domain (mutant).
PassOpenGate(p, r) ==
    /\ pc[p] = "turnstile"
    /\ Current(p, r)
    /\ ~Locked(p, Domain(r))
    /\ Free(Gate(r)) \/ (~Writes(p, r) /\ NotExclusive(Domain(r)))
    /\ gates' = [gates EXCEPT ![p] = @ \cup {Gate(r)}]
    /\ Goto(p, IF Writes(p, r) THEN "drain" ELSE "open")
    /\ UNCHANGED <<disk, shared, exclusive, lease, op, faults>>

TakeGate(p, r) ==
    /\ pc[p] = "turnstile"
    /\ Current(p, r)
    /\ ~Locked(p, Domain(r))
    /\ Free(Gate(r))
    /\ gates' = [gates EXCEPT ![p] = @ \cup {Gate(r)}]
    /\ Goto(p, IF Writes(p, r) THEN "drain" ELSE "open")
    /\ UNCHANGED <<disk, shared, exclusive, lease, op, faults>>

-----------------------------------------------------------------------------
(* _ArtifactLease.acquire_body                                               *)

\* A writer waits until the readers of the domain have left.
Drain(p, r) ==
    /\ pc[p] = "drain"
    /\ Current(p, r)
    /\ Free(Domain(r))
    /\ exclusive' = [exclusive EXCEPT ![p] = @ \cup {Domain(r)}]
    /\ Goto(p, "open")
    /\ UNCHANGED <<disk, gates, shared, lease, op, faults>>

\* The lease file is opened and compared with the identity on record.
OpenLease(p, r) ==
    /\ pc[p] = "open"
    /\ Current(p, r)
    /\ opened' = [opened EXCEPT ![p][r] = leaseFile[r]]
    /\ changed' = [changed EXCEPT ![p] = recorded[r] # leaseFile[r]]
    /\ Goto(p, IF Writes(p, r) THEN "confirm" ELSE "enter")
    /\ UNCHANGED <<disk, locks, todo, held, anchor, op, faults>>

\* A reader enters the domain; alone, if it has to record a new identity.
Enter(p, r) ==
    /\ pc[p] = "enter"
    /\ Current(p, r)
    /\ \/ /\ changed[p]
          /\ Free(Domain(r))
          /\ exclusive' = [exclusive EXCEPT ![p] = @ \cup {Domain(r)}]
          /\ UNCHANGED shared
       \/ /\ ~changed[p]
          /\ NotExclusive(Domain(r))
          /\ shared' = [shared EXCEPT ![p] = @ \cup {Domain(r)}]
          /\ UNCHANGED exclusive
    /\ Goto(p, "confirm")
    /\ UNCHANGED <<disk, gates, lease, op, faults>>

\* The exclusive lock is given up, not turned into a shared one (mutant).
ConfirmAndUnlock(p, r) ==
    /\ pc[p] = "confirm"
    /\ Current(p, r)
    /\ leaseFile[r] = opened[p][r]
    /\ recorded' = [recorded EXCEPT ![r] = opened[p][r]]
    /\ exclusive' = IF Writes(p, r) THEN exclusive
                    ELSE [exclusive EXCEPT ![p] = @ \ {Domain(r)}]
    /\ Goto(p, "data")
    /\ UNCHANGED <<tree, leaseFile, gates, shared, lease, op, faults>>

\* The lease file is still the one opened; a new identity is recorded, and a
\* reader goes back to a shared lock.  flock does not convert a lock in one step:
\* the exclusive lock is gone before the shared one is there.
Confirm(p, r) ==
    LET converts == changed[p] /\ ~Writes(p, r)
    IN /\ pc[p] = "confirm"
       /\ Current(p, r)
       /\ leaseFile[r] = opened[p][r]
       /\ recorded' = IF changed[p] THEN [recorded EXCEPT ![r] = opened[p][r]] ELSE recorded
       /\ exclusive' = IF converts THEN [exclusive EXCEPT ![p] = @ \ {Domain(r)}]
                       ELSE exclusive
       /\ Goto(p, IF converts THEN "downgrade" ELSE "data")
       /\ UNCHANGED <<tree, leaseFile, gates, shared, lease, op, faults>>

Downgrade(p, r) ==
    /\ pc[p] = "downgrade"
    /\ Current(p, r)
    /\ NotExclusive(Domain(r))
    /\ shared' = [shared EXCEPT ![p] = @ \cup {Domain(r)}]
    /\ Goto(p, "data")
    /\ UNCHANGED <<disk, gates, exclusive, lease, op, faults>>

\* The lock on the lease file itself.
DataFree(p, r) ==
    \A q \in Processes \ {p} :
      (r \in held[q] /\ opened[q][r] = opened[p][r]) => ~Writes(p, r) /\ ~Writes(q, r)

\* What prepare_anchor opened is kept (mutant).
PreparedAnchor(p, r) == anchor

\* _open_root_anchor under the lease: an anchor whose name now leads elsewhere is
\* opened again.
CurrentAnchor(p, r) ==
    IF Writes(p, r) THEN anchor ELSE [anchor EXCEPT ![p][r] = tree[r]]

\* The last lock: the anchor is brought up to date, and a reader leaves the gate.
LockData(p, r) ==
    /\ pc[p] = "data"
    /\ Current(p, r)
    /\ DataFree(p, r)
    /\ leaseFile[r] = opened[p][r]
    /\ held' = [held EXCEPT ![p] = @ \cup {r}]
    /\ todo' = [todo EXCEPT ![p] = @ \ {r}]
    /\ anchor' = CurrentAnchor(p, r)
    /\ gates' = IF Writes(p, r) THEN gates ELSE [gates EXCEPT ![p] = @ \ {Gate(r)}]
    /\ Goto(p, AfterEntering(p, r))
    /\ UNCHANGED <<disk, shared, exclusive, opened, changed, op, faults>>

\* What is locked for the lease being entered is released.
DropEntering(p, r) ==
    /\ gates' = [gates EXCEPT ![p] = @ \ {Gate(r)}]
    /\ shared' = [shared EXCEPT ![p] = @ \ {Domain(r)}]
    /\ exclusive' = [exclusive EXCEPT ![p] = @ \ {Domain(r)}]
    /\ opened' = [opened EXCEPT ![p][r] = None]

LeaseReplaced(p, r) ==
    /\ pc[p] \in {"confirm", "data"}
    /\ Current(p, r)
    /\ leaseFile[r] # opened[p][r]
    /\ DropEntering(p, r)
    /\ Goto(p, "failing")
    /\ UNCHANGED <<disk, todo, held, changed, anchor, op, faults>>

-----------------------------------------------------------------------------
(* The protected read, and the release of its leases in reverse order.       *)

EndRead(p) ==
    /\ pc[p] = "reading"
    /\ Goto(p, "leaving")
    /\ UNCHANGED <<disk, locks, lease, op, faults>>

ReleaseRead(p, r) ==
    /\ pc[p] \in {"leaving", "failing"}
    /\ r \in held[p] /\ ~Writes(p, r)
    /\ \A s \in held[p] : Writes(p, s) \/ s <= r
    /\ held' = [held EXCEPT ![p] = @ \ {r}]
    /\ anchor' = [anchor EXCEPT ![p][r] = None]
    /\ opened' = [opened EXCEPT ![p][r] = None]
    /\ shared' = IF opened[p][r] # None
                 THEN [shared EXCEPT ![p] = @ \ {Domain(r)}] ELSE shared
    /\ UNCHANGED <<disk, gates, exclusive, todo, changed, pc, op, faults>>

OnlyWriteLeft(p) == \A r \in held[p] : Writes(p, r)

DoneReading(p) ==
    /\ pc[p] = "leaving"
    /\ OnlyWriteLeft(p)
    /\ \/ op[p].write = None /\ Finish(p)
       \/ /\ op[p].write # None
          /\ op' = [op EXCEPT ![p] = [write |-> @.write, reads |-> {}]]
          /\ Goto(p, "publishing")
          /\ UNCHANGED lease
    /\ UNCHANGED <<disk, locks, faults>>

-----------------------------------------------------------------------------
(* AtomicDirectoryPublisher under its exclusive lease.                       *)

BeginPublish(p, o) ==
    /\ pc[p] = "idle"
    /\ o.write # None
    /\ op' = [op EXCEPT ![p] = o]
    /\ todo' = [todo EXCEPT ![p] = {o.write}]
    /\ Goto(p, "turnstile")
    /\ UNCHANGED <<disk, locks, held, opened, changed, anchor, faults>>

\* build_observations loads what it has staged together with its sources.
StartReads(p) ==
    /\ pc[p] = "publishing"
    /\ op[p].reads # {}
    /\ todo' = [todo EXCEPT ![p] = op[p].reads]
    /\ Goto(p, "prepare")
    /\ UNCHANGED <<disk, locks, held, opened, changed, anchor, op, faults>>

\* An inode that neither a name nor an open descriptor refers to.
Unused(r) == {t \in Trees : t # tree[r] /\ \A q \in Processes : t # anchor[q][r]}

Commit(p) ==
    /\ pc[p] = "publishing"
    /\ op[p].reads = {}
    /\ Unused(op[p].write) # {}
    /\ tree' = [tree EXCEPT ![op[p].write] = CHOOSE t \in Unused(op[p].write) : TRUE]
    /\ Goto(p, "committed")
    /\ UNCHANGED <<leaseFile, recorded, locks, lease, op, faults>>

ReleaseWrite(p) ==
    /\ pc[p] \in {"committed", "failing"}
    /\ OnlyWriteLeft(p)
    /\ IF held[p] = {} THEN UNCHANGED locks
       ELSE /\ gates' = [gates EXCEPT ![p] = @ \ {Gate(op[p].write)}]
            /\ exclusive' = [exclusive EXCEPT ![p] = @ \ {Domain(op[p].write)}]
            /\ UNCHANGED shared
    /\ Finish(p)
    /\ UNCHANGED <<disk, faults>>

-----------------------------------------------------------------------------
(* Faults and the environment.                                               *)

\* An exception: out of a lease being entered, or out of what the leases protect.
Fail(p) ==
    /\ pc[p] \notin {"idle", "leaving", "committed", "failing"}
    /\ faults < MaxFaults
    /\ faults' = faults + 1
    /\ Goto(p, "failing")
    /\ \/ /\ pc[p] \in EnteringPCs
          /\ \E r \in Roots : Current(p, r) /\ DropEntering(p, r)
       \/ /\ pc[p] \notin EnteringPCs
          /\ UNCHANGED <<locks, opened>>
    /\ UNCHANGED <<disk, todo, held, changed, anchor, op>>

\* A kill: the kernel closes every descriptor.
Crash(p) ==
    /\ pc[p] # "idle"
    /\ faults < MaxFaults
    /\ faults' = faults + 1
    /\ gates' = [gates EXCEPT ![p] = {}]
    /\ shared' = [shared EXCEPT ![p] = {}]
    /\ exclusive' = [exclusive EXCEPT ![p] = {}]
    /\ Finish(p)
    /\ UNCHANGED disk

\* Someone deletes the lease file; the next to open it creates another.
ReplaceLease(r) ==
    /\ leaseFile[r] < MaxReplacements
    /\ leaseFile' = [leaseFile EXCEPT ![r] = @ + 1]
    /\ UNCHANGED <<tree, recorded, locks, lease, pc, op, faults>>

-----------------------------------------------------------------------------
\* The steps of a running operation that take no gate.
Step(p) ==
    \/ \E r \in Roots :
         \/ Prepare(p, r) \/ Reenter(p, r)
         \/ Drain(p, r) \/ OpenLease(p, r) \/ Enter(p, r) \/ Confirm(p, r)
         \/ Downgrade(p, r) \/ LockData(p, r) \/ LeaseReplaced(p, r) \/ ReleaseRead(p, r)
    \/ EndRead(p) \/ DoneReading(p)
    \/ StartReads(p) \/ Commit(p) \/ ReleaseWrite(p)

PassGate(p) == \E r \in Roots : TakeGate(p, r)

Next ==
    \/ \E p \in Processes :
         \/ \E o \in OperationsOf[p] : BeginRead(p, o) \/ BeginPublish(p, o)
         \/ Step(p) \/ PassGate(p) \/ Fail(p) \/ Crash(p)
    \/ \E r \in Roots : ReplaceLease(r)

Spec == Init /\ [][Next]_vars

\* A process that runs keeps running, and the kernel does not pass one waiter
\* for a gate over for ever.  Nothing is asked of the waits behind the gate:
\* that they end is what the gate is for.
FairSpec ==
    /\ Spec
    /\ \A p \in Processes : WF_vars(Step(p)) /\ SF_vars(PassGate(p))

-----------------------------------------------------------------------------
(* Properties.                                                               *)

\* A lease on an artifact that is being published is held by its publisher
\* alone, whatever became of the lease file (tests/test_artifact_lease.py:661).
LeasesExclude ==
    \A p, q \in Processes : p # q =>
      \A r \in held[p] \cap held[q] : ~Writes(p, r) /\ ~Writes(q, r)

\* What a reader has open of each of its artifacts is what is published, for as
\* long as it reads: anchors taken before the locks are brought up to date
\* under them (_open_root_anchor).
ReadsOneCut ==
    \A p \in Processes : pc[p] = "reading" =>
      \A r \in op[p].reads : anchor[p][r] = tree[r]

\* While a writer waits for the readers of its domain, none joins them
\* (tests/test_artifact_lease.py:706).
WriterNotOvertaken ==
    [][\A p, q \in Processes, r \in Roots :
         (pc[p] = "drain" /\ Current(p, r) /\ Domain(r) \in shared'[q])
           => Domain(r) \in shared[q]]_vars

\* Every read and every publication comes to an end: the waits for gates,
\* domains and lease files form no cycle, and readers that keep coming do not
\* starve a writer.
EveryOperationEnds == \A p \in Processes : (pc[p] # "idle") ~> (pc[p] = "idle")

View(p) ==
    [r \in Roots |-> IF pc[p] = "reading" /\ r \in op[p].reads THEN anchor[p][r] ELSE None]

Snapshots == INSTANCE ArtifactSnapshots
    WITH view <- [p \in Processes |-> View(p)], NoTree <- None

\* The leases implement reads of one cut and publications that wait for them.
ImplementsSnapshots == Snapshots!Spec

-----------------------------------------------------------------------------
(* Why it works: the strengthening that is inductive.                        *)

\* No operation reads two roots of one domain, unless it publishes there too.
Separate(o) ==
    \A r, s \in o.reads :
      (r # s /\ Domain(r) = Domain(s)) => o.write # None /\ Domain(r) = Domain(o.write)

SeparateDomains == \A p \in Processes : \A o \in OperationsOf[p] : Separate(o)

\* The kernel's side: a directory locked exclusive, as a domain or as a gate, is
\* locked by one process.
Flocks ==
    \A p, q \in Processes : p # q =>
      (gates[p] \cup exclusive[p]) \cap (gates[q] \cup exclusive[q] \cup shared[q]) = {}

HoldsWrite(p) == op[p].write # None /\ op[p].write \in held[p]

\* A publisher enters its own lease first, readers enter theirs in order.
InOrder(p) ==
    /\ op[p].write \notin op[p].reads
    /\ held[p] \subseteq op[p].reads \cup {op[p].write}
    /\ pc[p] = "idle" => held[p] = {} /\ anchor[p] = [r \in Roots |-> None]
    /\ pc[p] \in {"prepare", "reading", "leaving", "publishing", "committed"} =>
         (op[p].write = None \/ HoldsWrite(p))
    /\ pc[p] \in {"publishing", "committed"} => held[p] = {op[p].write}
    /\ pc[p] = "prepare" => OnlyWriteLeft(p) /\ todo[p] = op[p].reads
    /\ pc[p] = "reading" => op[p].reads \subseteq held[p]
    /\ pc[p] \in EnteringPCs \cup {"turnstile"} =>
         \/ /\ held[p] = {} /\ todo[p] = {op[p].write}
            /\ anchor[p] = [r \in Roots |-> None]
         \/ /\ op[p].write = None \/ HoldsWrite(p)
            /\ todo[p] \cap held[p] = {}
            /\ todo[p] \subseteq op[p].reads
            /\ op[p].reads \subseteq held[p] \cup todo[p]
            /\ \A r \in held[p], s \in todo[p] : Writes(p, r) \/ r < s

\* What a process has locked for the leases it holds.
Holds(p) ==
    /\ \A r \in held[p] : Locked(p, Domain(r))
    /\ \A r \in held[p] : Writes(p, r) =>
         /\ Domain(r) \in exclusive[p]
         /\ Gate(r) \in gates[p]
    /\ \A r \in held[p] : opened[p][r] # None /\ ~Writes(p, r) => Domain(r) \in shared[p]
    /\ \A r, s \in held[p] :
         (r # s /\ Domain(r) = Domain(s) /\ opened[p][r] # None) =>
           Writes(p, r) \/ (~Writes(p, s) /\ r < s)
    /\ \A r \in Roots : opened[p][r] # None =>
         r \in held[p] \/ (pc[p] \in {"enter", "confirm", "downgrade", "data"} /\ Current(p, r))

\* What it has locked for the lease it is entering.
Enters(p) ==
    \A r \in todo[p] : (pc[p] \in EnteringPCs /\ Current(p, r)) =>
      /\ ~Locked(p, Domain(r))
      /\ Gate(r) \in gates[p]
      /\ \A s \in held[p] : Writes(p, s) => Gate(s) # Gate(r)
      /\ pc[p] \in {"enter", "confirm", "downgrade", "data"} => opened[p][r] # None
      /\ pc[p] \in {"enter", "downgrade"} => ~Writes(p, r)
      /\ pc[p] \in {"open", "confirm", "data"} /\ Writes(p, r) => Domain(r) \in exclusive[p]
      /\ pc[p] = "confirm" /\ changed[p] => Domain(r) \in exclusive[p]
      /\ pc[p] = "confirm" /\ ~changed[p] /\ ~Writes(p, r) => Domain(r) \in shared[p]
      /\ pc[p] = "data" /\ ~Writes(p, r) => Domain(r) \in shared[p]

\* What it has open is what is published.
Anchored(p) ==
    /\ Separate(op[p])
    /\ \A r \in held[p] : ~Writes(p, r) => anchor[p][r] = tree[r]
    /\ HoldsWrite(p) =>
         \A r \in Roots \ {op[p].write} :
           (Domain(r) = Domain(op[p].write) /\ anchor[p][r] # None) => anchor[p][r] = tree[r]

LockInvariant   == TypeOK /\ Flocks /\ \A p \in Processes : InOrder(p) /\ Holds(p) /\ Enters(p)
AnchorInvariant == LockInvariant /\ \A p \in Processes : Anchored(p)
=============================================================================
