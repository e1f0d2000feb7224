----------------------------- MODULE Workspace -----------------------------
(***************************************************************************)
(* The signal stages of the control room (tui/workspace.py): the status of *)
(* each of them, from one cut of all the artifacts of the workspace taken  *)
(* under reader leases.                                                    *)
(*                                                                         *)
(* A workspace is the set of stages with a configured path.  The metrics   *)
(* and the incident sections of its file name the same directories here.   *)
(***************************************************************************)
EXTENDS SignalStages, ControlRoom

DatasetStage(workspace, root) ==
    StageStatus("dataset" \in workspace, root["dataset"] # None,
                ReportStage(DatasetValid(root["dataset"]), TRUE))

AnalyticsStage(workspace, root) ==
    LET source == Only(root, workspace \cap {"dataset"}) IN
    StageStatus("analytics" \in workspace, root["analytics"] # None,
                ReportStage(AnalyticsValid(root["analytics"], source),
                            "dataset" \in workspace))

DetectionStage(workspace, root) ==
    LET source == Only(root, workspace \cap {"analytics"}) IN
    StageStatus("detection" \in workspace, root["detection"] # None,
                ReportStage(DetectionValid(root["detection"], source),
                            "analytics" \in workspace))

ImpactStage(workspace, root) ==
    LET source == Only(root, workspace \cap {"dataset"}) IN
    StageStatus("impact" \in workspace, root["impact"] # None,
                ReportStage(ImpactValid(root["impact"], source),
                            "dataset" \in workspace))

(* Evidence is healthy only when exactly the sources it declares are       *)
(* configured.                                                             *)
EvidenceStage(workspace, root) ==
    LET sources == workspace \ {"evidence"}
        tree == root["evidence"]
    IN StageStatus("evidence" \in workspace, tree # None,
                   ReportStage(EvidenceValid(tree, Only(root, sources)),
                               sources = DOMAIN tree.manifest.hash))

SignalStatuses(workspace, root) ==
    {DatasetStage(workspace, root), AnalyticsStage(workspace, root),
     DetectionStage(workspace, root), ImpactStage(workspace, root),
     EvidenceStage(workspace, root)}

=============================================================================
