-------------------------- MODULE MCInvestigation --------------------------
(* Instances of InvestigationArtifact for TLC: a dataset and the evidence built from it. *)
EXTENDS InvestigationArtifact

MCSources == <<"dataset", "evidence">>
MCUpstreamOf == [dataset |-> {}, evidence |-> {"dataset"}]
MCCatalogue == {"evidence.search", "sql.query"}
MCCapabilities == [observer |-> {"evidence.search"}, investigator |-> MCCatalogue]
MCOtherRequests == {[role |-> "observer", tool |-> "sql.query", arguments |-> "fit"]}

Proposal(cites, bounded, verdict, unknowns, nextSteps) ==
  [cites |-> cites, bounded |-> bounded, verdict |-> verdict, unknowns |-> unknowns,
   nextSteps |-> nextSteps]
MCTokens == <<1, 2>>
MCProposals ==
  {Proposal({1}, TRUE, "concluded", FALSE, FALSE), Proposal({2}, TRUE, "abstained", TRUE, TRUE),
   Proposal({1}, FALSE, "abstained", FALSE, FALSE), Proposal({1}, TRUE, "abstained", FALSE, TRUE),
   Proposal({1}, TRUE, "abstained", TRUE, FALSE)}
============================================================================
