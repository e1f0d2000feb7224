--------------------------- MODULE ResponseStages ---------------------------
(***************************************************************************)
(* The artifacts of a response to an incident - investigation, control     *)
(* state, remediation plan, execution receipt, recovery observations and   *)
(* recovery report - as what their exporters write, their loaders demand   *)
(* and their validators compare with their sources.                        *)
(*                                                                         *)
(* A directory is a record of its files: the given input that an artifact  *)
(* carries (`source`), what was computed (`result`), manifest.json and the *)
(* _SUCCESS marker.  A SHA-256 digest is the content it is the digest of.  *)
(* The digest of an execution's manifest contains that of its receipt, and *)
(* stands for both.  The signal artifacts are one root whose content is    *)
(* the lineage they belong to (SignalPipeline.tla).                        *)
(***************************************************************************)
EXTENDS Naturals, FiniteSets, ControlRoom

CONSTANT None   \* no artifact at a path

Root == {"signals", "investigation", "before", "plan", "after", "execution",
         "observations", "recovery"}
File == {"manifest", "source", "result", "marker"}

(* _write_manifest: the files, then the manifest with their digests, then  *)
(* the marker with the digest of the manifest.                             *)
Tree(source, result) ==
    LET manifest == [source |-> source, result |-> result]
    IN [manifest |-> manifest, source |-> source, result |-> result, marker |-> manifest]

(* A defect for the runs: a loader that looks at the manifest and the marker only. *)
Marked(tree) == tree # None /\ tree.marker = tree.manifest

(* _load_manifest: the closed layout, the digest of every file, the marker. *)
Loads(tree) ==
    /\ tree # None
    /\ tree.marker = tree.manifest
    /\ tree.manifest = [source |-> tree.source, result |-> tree.result]

Given(root, paths) == [r \in paths |-> root[r]]

-----------------------------------------------------------------------------
(* The investigation: a report bound to the signals it was concluded from  *)
(* (InvestigationArtifact.tla).                                            *)

InvestigationTree(signals, conclusion) ==
    Tree(None, [of |-> signals, conclusion |-> conclusion])

Replays(tree, signals) == Loads(tree) /\ tree.result.of = signals

-----------------------------------------------------------------------------
(* Control states, and plans.                                              *)

InitialState(flag) == [generation |-> 0, flag |-> flag, executed |-> {}]

StateTree(state) == Tree(None, state)

(* assess_proposal: the proposal is bound to the report, and its action's  *)
(* precondition holds in the state.  The report passes the other gates.    *)
Allowed(report, state, proposal) ==
    /\ proposal.report = report
    /\ proposal.expected = state.flag

BuildPlan(report, state, proposal, investigation, before) ==
    [proposal |-> proposal, sources |-> report.of,
     investigation |-> investigation, before |-> before,
     status |-> IF Allowed(report, state, proposal) THEN "awaiting_approval" ELSE "denied"]

PlanTree(plan) == Tree(plan.proposal, plan)

(* load_plan: the proposal beside the plan is the one it was built from.   *)
PlanLoads(tree) == Loads(tree) /\ tree.result.proposal = tree.source

(* A defect for the runs: the digests are compared, the plan not rebuilt. *)
PlanHashed(tree, given) ==
    /\ PlanLoads(tree)
    /\ "investigation" \in DOMAIN given =>
          /\ Replays(given["investigation"], given["signals"])
          /\ given["investigation"].manifest = tree.result.investigation
    /\ "before" \in DOMAIN given =>
          /\ Loads(given["before"])
          /\ given["before"].manifest = tree.result.before

(* validate_plan: with all its sources, the plan is built once more.       *)
PlanValid(tree, given) ==
    /\ PlanLoads(tree)
    /\ "investigation" \in DOMAIN given =>
          /\ Replays(given["investigation"], given["signals"])
          /\ given["investigation"].manifest = tree.result.investigation
          /\ given["investigation"].result = tree.result.proposal.report
    /\ "before" \in DOMAIN given =>
          /\ Loads(given["before"])
          /\ given["before"].manifest = tree.result.before
    /\ {"investigation", "before"} \subseteq DOMAIN given =>
          tree.result = BuildPlan(given["investigation"].result, given["before"].result,
                                  tree.source, given["investigation"].manifest,
                                  given["before"].manifest)

-----------------------------------------------------------------------------
(* Executions (the transaction store is ControlStore.tla).                 *)

Executed(plan, state) ==
    [generation |-> state.generation + 1, flag |-> plan.proposal.desired,
     executed |-> state.executed \cup {plan}]

Receipt(plan, before, after) == [plan |-> plan, before |-> before, after |-> after]

ExecutionTree(receipt) == Tree(None, receipt)

(* execute_plan: what stops a plan from being applied to a state.          *)
Executable(plan, state) ==
    /\ plan.status = "awaiting_approval"
    /\ StateTree(state).manifest = plan.before
    /\ plan \notin state.executed
    /\ plan.proposal.expected = state.flag

(* A defect for the runs: the consumed plans are looked up in the wrong state. *)
VerifyConsumed(plan, before, after, receipt) ==
    /\ receipt.plan = plan
    /\ plan \notin after.executed
    /\ after = Executed(plan, before)
    /\ receipt.after = after

VerifyTransition(plan, before, after, receipt) ==
    /\ receipt.plan = plan
    /\ plan \notin before.executed
    /\ plan.proposal.expected = before.flag
    /\ after = Executed(plan, before)
    /\ receipt.after = after

(* validate_execution *)
ExecutionValid(tree, given) ==
    /\ Loads(tree)
    /\ "plan" \in DOMAIN given =>
          PlanLoads(given["plan"]) /\ given["plan"].result = tree.result.plan
    /\ "before" \in DOMAIN given =>
          Loads(given["before"]) /\ given["before"].manifest = tree.result.before
    /\ "after" \in DOMAIN given =>
          Loads(given["after"]) /\ given["after"].result = tree.result.after
    /\ {"plan", "before", "after"} \subseteq DOMAIN given =>
          VerifyTransition(given["plan"].result, given["before"].result,
                           given["after"].result, tree.result)

-----------------------------------------------------------------------------
(* Observations and recovery.                                              *)

(* _derive_observations: the rows of the analytics before the execution,   *)
(* the scenario's after it, and what both were read from.                  *)
DeriveObservations(scenario, signals, execution) ==
    [scenario |-> scenario, analytics |-> signals, execution |-> execution.manifest]

ObservationsTree(observations) == Tree(observations.scenario, observations)

(* A defect for the runs: the source execution is not looked at. *)
ObservationsUnbound(tree, given) == Loads(tree) /\ tree.source = tree.result.scenario

(* load_observations: bound to the very execution and analytics, and       *)
(* derived from them once more.                                            *)
ObservationsLoad(tree, given) ==
    /\ Loads(tree)
    /\ tree.source = tree.result.scenario
    /\ "execution" \in DOMAIN given =>
          /\ Loads(given["execution"])
          /\ given["execution"].manifest = tree.result.execution
    /\ "signals" \in DOMAIN given =>
          /\ "execution" \in DOMAIN given
          /\ given["signals"] # None
          /\ tree.result =
                DeriveObservations(tree.source, given["signals"], given["execution"])

(* evaluate_recovery, of a fixed configuration.                            *)
EvaluateRecovery(observations, execution, manifest) ==
    [observations |-> observations, execution |-> execution, manifest |-> manifest]

RecoveryTree(observations, report) == Tree(observations, report)

(* load_recovery: the report is evaluated again from what stands beside it. *)
RecoveryLoads(tree) ==
    /\ Loads(tree)
    /\ tree.result.execution = tree.source.execution
    /\ tree.result =
          EvaluateRecovery(tree.source, tree.result.execution, tree.result.manifest)

(* validate_recovery: with all of its sources, or with none of them.       *)
RecoveryValid(tree, given) ==
    /\ DOMAIN given \in {{}, {"observations", "signals", "execution"}}
    /\ RecoveryLoads(tree)
    /\ DOMAIN given # {} =>
          /\ ObservationsLoad(given["observations"], Given(given, {"signals", "execution"}))
          /\ given["observations"].result = tree.source
          /\ given["observations"].manifest = tree.result.manifest
          /\ Loads(given["execution"])
          /\ given["execution"].manifest = tree.result.execution

-----------------------------------------------------------------------------
(* The control room.  A workspace is the set of roots with a path in its   *)
(* file; the configuration of the investigation is configured with its     *)
(* artifact, and the incident and recovery sections name the same signals. *)

InvestigationStage(workspace, root) ==
    LET tree == root["investigation"]
        authoritative == "signals" \in workspace
    IN StageStatus("investigation" \in workspace, tree # None,
                   ReportStage(IF authoritative THEN Replays(tree, root["signals"])
                               ELSE Loads(tree), authoritative))

(* The plan is rebuilt only when all its sources are configured; a         *)
(* configured execution needs its two states too before the stage is       *)
(* healthy, and a configured state or execution that is absent is an error *)
(* of the stage.                                                           *)
RemediationStage(workspace, root) ==
    LET planAuthoritative == {"investigation", "signals", "before"} \subseteq workspace
        planValid ==
            IF planAuthoritative
            THEN PlanValid(root["plan"], Given(root, {"investigation", "signals", "before"}))
            ELSE PlanLoads(root["plan"])
        ready == \A r \in workspace \cap {"before", "after", "execution"} : root[r] # None
        executionValid ==
            "execution" \in workspace =>
                ExecutionValid(root["execution"],
                               Given(root, {"plan"} \cup (workspace \cap {"before", "after"})))
        authoritative ==
            planAuthoritative /\ ("execution" \in workspace => "after" \in workspace)
    IN StageStatus("plan" \in workspace, root["plan"] # None,
                   ReportStage(planValid /\ ready /\ executionValid, authoritative))

RecoveryStage(workspace, root) ==
    LET sources == {"observations", "signals", "execution"}
        authoritative == sources \subseteq workspace
    IN StageStatus("recovery" \in workspace, root["recovery"] # None,
                   ReportStage(RecoveryValid(root["recovery"],
                                             Given(root, IF authoritative THEN sources ELSE {})),
                               authoritative))

ResponseStatus(workspace, root) ==
    Overall({InvestigationStage(workspace, root), RemediationStage(workspace, root),
             RecoveryStage(workspace, root)})

=============================================================================
