---------------------------- MODULE ControlRoom ----------------------------
(***************************************************************************)
(* The control room (tui/workspace.py): how the inspection of one artifact *)
(* becomes the status of its stage, and the stages' statuses that of the   *)
(* workspace.                                                              *)
(***************************************************************************)

(* _report_stage: valid artifacts are healthy only when they were compared *)
(* with their sources.                                                     *)
ReportStage(valid, authoritative) ==
    IF ~valid THEN "error" ELSE IF authoritative THEN "healthy" ELSE "warning"

(* _safe_stage and _path_ready around the inspection of one stage.         *)
StageStatus(configured, present, inspected) ==
    IF ~configured THEN "not_configured"
    ELSE IF ~present THEN "missing" ELSE inspected

(* inspect_workspace: the overall status of the stages' statuses.          *)
Overall(statuses) ==
    IF statuses \cap {"error", "missing"} # {} THEN "error"
    ELSE IF "warning" \in statuses THEN "warning"
    ELSE IF statuses \ {"not_configured"} # {} THEN "healthy"
    ELSE "not_configured"

=============================================================================
