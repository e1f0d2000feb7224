-------------------------- MODULE ResponsePipeline --------------------------
(***************************************************************************)
(* The commands of a response, several at a time, over one set of          *)
(* directories: build a plan, execute it, build observations, evaluate the *)
(* recovery, while the signals and the investigation are republished.      *)
(*                                                                         *)
(* A command is a sequence of calls; each takes the reader leases of the   *)
(* directories it is given and gives them back, so what a command reads    *)
(* in two calls may be of two generations.  The canonical transaction      *)
(* store keeps the lineage of the control state; the state and execution   *)
(* directories a command exports after a commit are copies.                *)
(***************************************************************************)
EXTENDS ResponseStages, Sequences, TLC

CONSTANTS
    Process,       \* the processes that run commands
    Lineage,       \* the lineages of signals that get published
    Conclusion,    \* what an investigation of one lineage may conclude
    Scenario,      \* evaluator scenarios for the time after an execution
    MaxCommands,   \* bound: commands started
    MaxEdits       \* bound: files put back by an operator

ASSUME ResponseAssumption ==
    /\ Lineage # {} /\ None \notin Lineage
    /\ MaxCommands \in Nat /\ MaxEdits \in Nat

VARIABLES
    root,        \* what stands at each path
    builds,      \* history: every tree published there, with what its command had read
    store,       \* the states of the transaction store, oldest first
    committed,   \* history: the receipts it committed
    proc,        \* what each process is doing
    commands, edits

vars == <<root, builds, store, committed, proc, commands, edits>>

Published(r) == {b.tree : b \in builds[r]}

Artifact == Root \ {"signals"}

Idle == [command |-> None]

Call == {"bind", "replay", "load state", "hash investigation", "hash state", "load plan",
         "initialize", "commit", "export state", "derive", "check", "load observations",
         "load execution", "hash observations", "export"}

(* The calls of each command, in order. *)
Calls(command) ==
    CASE command = "investigate" -> <<"bind", "export">>
      [] command = "state build" -> <<"export">>
      [] command = "plan build" -> <<"replay", "load state", "hash investigation",
                                     "hash state", "export">>
      [] command = "execute" -> <<"load plan", "initialize", "commit", "export state",
                                  "export">>
      [] command = "observations build" -> <<"derive", "check", "export">>
      [] command = "evaluate" -> <<"load observations", "load execution",
                                   "hash observations", "export">>

Target(command) ==
    CASE command = "investigate" -> "investigation"
      [] command = "state build" -> "before"
      [] command = "plan build" -> "plan"
      [] command = "execute" -> "execution"
      [] command = "observations build" -> "observations"
      [] command = "evaluate" -> "recovery"

(* The commands with the inputs an operator gives them.  A proposal names a *)
(* report and an action on a flag; a control state is an initial one or one *)
(* of the store; a plan is executed over the directory "before", or over a  *)
(* copy of the first state of the store that is kept elsewhere.             *)
Proposals ==
    {[report |-> t.result, expected |-> f, desired |-> ~f] :
        t \in Published("investigation"), f \in BOOLEAN}

Inputs(command) ==
    CASE command = "investigate" -> Conclusion
      [] command = "state build" ->
            {InitialState(f) : f \in BOOLEAN} \cup {store[i] : i \in DOMAIN store}
      [] command = "plan build" -> Proposals
      [] command = "execute" -> {None} \cup {StateTree(store[i]) : i \in DOMAIN store \cap {1}}
      [] command = "observations build" -> Scenario
      [] OTHER -> {None}

Commands == {"investigate", "state build", "plan build", "execute",
             "observations build", "evaluate"}

-----------------------------------------------------------------------------
(* A response as one undisturbed run of every command leaves it.           *)
Empty == [r \in Root |-> None]

CompleteResponse(lineage, conclusion, scenario) ==
    LET investigation == InvestigationTree(lineage, conclusion)
        before == StateTree(InitialState(FALSE))
        plan == BuildPlan(investigation.result, before.result,
                          [report |-> investigation.result, expected |-> FALSE,
                           desired |-> TRUE],
                          investigation.manifest, before.manifest)
        after == Executed(plan, before.result)
        execution == ExecutionTree(Receipt(plan, before.manifest, after))
        observations == ObservationsTree(DeriveObservations(scenario, lineage, execution))
    IN [signals |-> lineage, investigation |-> investigation, before |-> before,
        plan |-> PlanTree(plan), after |-> StateTree(after), execution |-> execution,
        observations |-> observations,
        recovery |-> RecoveryTree(observations.result,
                        EvaluateRecovery(observations.result, execution.manifest,
                                         observations.manifest))]

(* Which lineage stands first makes no difference. *)
FirstLineage == CHOOSE l \in Lineage : TRUE
FirstResponse ==
    CompleteResponse(FirstLineage, CHOOSE c \in Conclusion : TRUE, CHOOSE s \in Scenario : TRUE)

SourcesOf(r) ==
    CASE r = "investigation" -> {"signals"}
      [] r = "plan" -> {"investigation", "signals", "before"}
      [] r \in {"execution", "after"} -> {"plan", "before"}
      [] r = "observations" -> {"signals", "execution"}
      [] r = "recovery" -> {"observations", "signals", "execution"}
      [] OTHER -> {}

Init ==
    /\ root \in {[Empty EXCEPT !["signals"] = FirstLineage], FirstResponse}
    /\ builds = [r \in Artifact |->
                    IF root[r] = None THEN {}
                    ELSE {[tree |-> root[r], read |-> {<<s, root[s]>> : s \in SourcesOf(r)}]}]
    /\ store = IF root["before"] = None THEN <<>>
               ELSE <<root["before"].result, root["after"].result>>
    /\ committed = IF root["execution"] = None THEN {} ELSE {root["execution"].result}
    /\ proc = [p \in Process |-> Idle]
    /\ commands = 0
    /\ edits = 0

-----------------------------------------------------------------------------
Start(p) ==
    /\ proc[p] = Idle
    /\ commands < MaxCommands
    /\ \E command \in Commands : \E input \in Inputs(command) :
          proc' = [proc EXCEPT ![p] = [command |-> command, input |-> input, at |-> 1,
                                       read |-> {}, got |-> [c \in Call |-> None]]]
    /\ commands' = commands + 1
    /\ UNCHANGED <<root, builds, store, committed, edits>>

At(p, call) ==
    /\ proc[p] # Idle
    /\ Calls(proc[p].command)[proc[p].at] = call

(* A command that raises ends with exit code 2. *)
Stop(p) == proc' = [proc EXCEPT ![p] = Idle]

(* The call went well: what it read is noted, and what it returned kept    *)
(* under its name.                                                         *)
Done(p, sources, result) ==
    proc' = [proc EXCEPT ![p].at = @ + 1,
                         ![p].read = @ \cup {<<s, root[s]>> : s \in sources},
                         ![p].got[Calls(proc[p].command)[proc[p].at]] = result]

Return(p, ok, sources, result) ==
    /\ IF ok THEN Done(p, sources, result) ELSE Stop(p)
    /\ UNCHANGED <<root, builds, store, committed, commands, edits>>

(* Publication.tla: the tree replaces what stands at the path. *)
Publish(r, tree, read) ==
    /\ root' = [root EXCEPT ![r] = tree]
    /\ builds' = [builds EXCEPT ![r] = @ \cup {[tree |-> tree, read |-> read]}]

(* An investigation: its sources are one cut, bound before its first and   *)
(* after its last tool call (Investigation.tla).                           *)
BindSources(p) ==
    /\ At(p, "bind")
    /\ Return(p, TRUE, {"signals"}, root["signals"])

(* plan build *)
ReplayInvestigation(p) ==
    /\ At(p, "replay")
    /\ Return(p, Replays(root["investigation"], root["signals"]),
              {"investigation", "signals"}, root["investigation"].result)

LoadControlState(p) ==
    /\ At(p, "load state")
    /\ Return(p, Loads(root["before"]), {"before"}, root["before"].result)

HashInvestigation(p) ==
    /\ At(p, "hash investigation")
    /\ Return(p, TRUE, {"investigation"}, root["investigation"].manifest)

HashState(p) ==
    /\ At(p, "hash state")
    /\ Return(p, TRUE, {"before"}, root["before"].manifest)

(* execute *)
LoadPlan(p) ==
    /\ At(p, "load plan")
    /\ Return(p, PlanLoads(root["plan"]), {"plan"}, root["plan"].result)

(* ControlStateStore.initialize: the first state directory binds the store,  *)
(* and every later command names one with the same manifest.  Until a store *)
(* is bound there are states of generation 0 only.                          *)
Initialize(p) ==
    LET kept == proc[p].input # None
        given == IF kept THEN proc[p].input ELSE root["before"]
        accepted ==
            /\ Loads(given)
            /\ IF store = <<>> THEN given.result.generation = 0
               ELSE given.manifest = StateTree(store[1]).manifest
    IN /\ At(p, "initialize")
       /\ IF accepted
          THEN /\ Done(p, IF kept THEN {} ELSE {"before"}, None)
               /\ store' = IF store = <<>> THEN <<given.result>> ELSE store
          ELSE Stop(p) /\ UNCHANGED store
       /\ UNCHANGED <<root, builds, committed, commands, edits>>

(* ControlStateStore.execute: state and receipt together, after every check *)
(* under the lock (ControlStore.tla).  The plan has its approvals.          *)
Commit(p) ==
    /\ At(p, "commit")
    /\ LET plan == proc[p].got["load plan"] IN
       IF store # <<>> /\ Executable(plan, store[Len(store)])
       THEN LET before == store[Len(store)]
                after == Executed(plan, before)
                receipt == Receipt(plan, StateTree(before).manifest, after)
            IN /\ store' = Append(store, after)
               /\ committed' = committed \cup {receipt}
               /\ Done(p, {}, receipt)
       ELSE Stop(p) /\ UNCHANGED <<store, committed>>
    /\ UNCHANGED <<root, builds, commands, edits>>

ExportState(p) ==
    /\ At(p, "export state")
    /\ Publish("after", StateTree(proc[p].got["commit"].after), proc[p].read)
    /\ Done(p, {}, None)
    /\ UNCHANGED <<store, committed, commands, edits>>

(* observations build: derived, and loaded once more from the staging      *)
(* directory against the sources as they are by then.                      *)
DerivePayload(p) ==
    /\ At(p, "derive")
    /\ Return(p, Loads(root["execution"]), {"signals", "execution"},
              DeriveObservations(proc[p].input, root["signals"], root["execution"]))

CheckStaged(p) ==
    /\ At(p, "check")
    /\ Return(p, ObservationsLoad(ObservationsTree(proc[p].got["derive"]),
                                  Given(root, {"signals", "execution"})),
              {"signals", "execution"}, None)

(* evaluate *)
LoadObservations(p) ==
    /\ At(p, "load observations")
    /\ Return(p, ObservationsLoad(root["observations"], Given(root, {"signals", "execution"})),
              {"observations", "signals", "execution"}, root["observations"].result)

LoadExecution(p) ==
    /\ At(p, "load execution")
    /\ Return(p, /\ Loads(root["execution"])
                 /\ root["execution"].manifest = proc[p].got["load observations"].execution,
              {"execution"}, root["execution"].manifest)

HashObservations(p) ==
    /\ At(p, "hash observations")
    /\ Return(p, TRUE, {"observations"}, root["observations"].manifest)

Built(p) ==
    LET got == proc[p].got
        input == proc[p].input
    IN CASE proc[p].command = "investigate" -> InvestigationTree(got["bind"], input)
         [] proc[p].command = "state build" -> StateTree(input)
         [] proc[p].command = "plan build" ->
               PlanTree(BuildPlan(got["replay"], got["load state"], input,
                                  got["hash investigation"], got["hash state"]))
         [] proc[p].command = "execute" -> ExecutionTree(got["commit"])
         [] proc[p].command = "observations build" -> ObservationsTree(got["derive"])
         [] proc[p].command = "evaluate" ->
               RecoveryTree(got["load observations"],
                            EvaluateRecovery(got["load observations"], got["load execution"],
                                             got["hash observations"]))

(* export_<artifact>, of a command that was told to overwrite.             *)
Export(p) ==
    /\ At(p, "export")
    /\ Publish(Target(proc[p].command), Built(p), proc[p].read)
    /\ Stop(p)
    /\ UNCHANGED <<store, committed, commands, edits>>

(* The process dies, or its disk is full. *)
Abort(p) ==
    /\ proc[p] # Idle
    /\ Stop(p)
    /\ UNCHANGED <<root, builds, store, committed, commands, edits>>

-----------------------------------------------------------------------------
(* The signal pipeline publishes another lineage. *)
Republish ==
    /\ commands < MaxCommands
    /\ \E l \in Lineage \ {root["signals"]} : root' = [root EXCEPT !["signals"] = l]
    /\ commands' = commands + 1
    /\ UNCHANGED <<builds, store, committed, proc, edits>>

(* Not a command: a file of an earlier generation is copied back.          *)
RestoreFile(r, file) ==
    /\ \A p \in Process : proc[p] = Idle
    /\ edits < MaxEdits
    /\ root[r] # None
    /\ \E g \in Published(r) :
          /\ g[file] # root[r][file]
          /\ root' = [root EXCEPT ![r][file] = g[file]]
    /\ edits' = edits + 1
    /\ UNCHANGED <<builds, store, committed, proc, commands>>

Plan(p) == ReplayInvestigation(p) \/ LoadControlState(p) \/ HashInvestigation(p) \/ HashState(p)
Execute(p) == LoadPlan(p) \/ Initialize(p) \/ Commit(p) \/ ExportState(p)
Recover(p) == DerivePayload(p) \/ CheckStaged(p) \/ LoadObservations(p) \/ LoadExecution(p)
                 \/ HashObservations(p)

Next ==
    \/ \E p \in Process : Start(p) \/ BindSources(p) \/ Plan(p) \/ Execute(p) \/ Recover(p)
                             \/ Export(p) \/ Abort(p)
    \/ Republish
    \/ \E r \in Artifact, file \in File : RestoreFile(r, file)

Spec == Init /\ [][Next]_vars

-----------------------------------------------------------------------------
(* The workspaces of the runs: everything configured, or all but one. *)
Workspaces == {Root} \cup {Root \ {r} : r \in Root}

Stands(w, r) == r \in w /\ root[r] # None

(* A response the control room calls healthy is one story                  *)
(* (tui/workspace.py:339, :455): the plan was decided on the report of the  *)
(* standing signals and on the standing state, the receipt is one the       *)
(* transaction store committed for this plan from this state to the one    *)
(* exported beside it, and the recovery was judged on observations of this *)
(* receipt and these signals - whatever was republished, overwritten or    *)
(* interrupted while the directories were built.                           *)
OneStory(w) ==
    ResponseStatus(w, root) = "healthy" =>
        LET plan == root["plan"].result
            receipt == root["execution"].result
            judged == root["recovery"].source
        IN /\ Stands(w, "plan") =>
                /\ plan.proposal.report = root["investigation"].result
                /\ plan.sources = root["signals"]
                /\ plan.before.result = root["before"].result
                /\ plan.status = "awaiting_approval" =>
                      plan.proposal.expected = root["before"].result.flag
           /\ Stands(w, "plan") /\ Stands(w, "execution") =>
                /\ receipt \in committed
                /\ receipt.plan = plan
                /\ receipt.before.result = root["before"].result
                /\ receipt.after = root["after"].result
           /\ Stands(w, "recovery") =>
                /\ judged = root["observations"].result
                /\ judged.execution.result \in committed
                /\ judged.execution.result = receipt
                /\ judged.analytics = root["signals"]

HealthyIsOneStory == \A w \in Workspaces : OneStory(w)

(* What loads is a tree that was published whole (remediation/artifact.py:239): *)
(* no mixture of the files of two generations.                             *)
LoadedIsWhole == \A r \in Artifact : Loads(root[r]) => root[r] \in Published(r)

(* When everything the builder of each directory had read still stands and *)
(* no file was exchanged, the control room finds nothing wrong.  A plan     *)
(* whose proposal is bound to another report is denied, and its validation *)
(* against its own sources then objects to that binding.                   *)
UndisturbedIsHealthy ==
    LET w == {r \in Root : root[r] # None}
        undisturbed ==
            /\ \A r \in Artifact \cap w :
                  /\ SourcesOf(r) \subseteq w
                  /\ \E b \in builds[r] :
                        b.tree = root[r] /\ \A x \in b.read : x[2] = root[x[1]]
            /\ "execution" \in w <=> "after" \in w
            /\ "execution" \in w => root["execution"].result.after = root["after"].result
            /\ "plan" \in w =>
                  root["plan"].result.proposal.report = root["investigation"].result
    IN undisturbed => ResponseStatus(w, root) \in {"healthy", "not_configured"}

(* Every directory is absent or has the files of an artifact; the store    *)
(* numbers its generations from zero.                                      *)
TypeOK ==
    /\ DOMAIN root = Root /\ DOMAIN builds = Artifact /\ DOMAIN proc = Process
    /\ \A r \in Artifact : root[r] = None \/ DOMAIN root[r] = File
    /\ root["signals"] \in Lineage
    /\ \A i \in DOMAIN store : store[i].generation = i - 1
    /\ commands \in 0..MaxCommands /\ edits \in 0..MaxEdits

=============================================================================
