--------------------------- MODULE Investigation ---------------------------
(***************************************************************************)
(* investigation/: one run of the orchestrator.  It binds its sources,     *)
(* asks a model over an ordered list of routes, answers its tool calls     *)
(* through the gateway, and ends with a scored report and a transcript, or *)
(* with an error.  The second half is the reader's side: the independent   *)
(* validation and the replay of what such a run exports.                   *)
(***************************************************************************)
EXTENDS ToolGateway

CONSTANTS
  RouteCount,            \* model routes of the provider configuration
  AnswerTokens,          \* bound: the tokens an answer of each route uses
  AllowedTools,          \* config.allowed_tools
  OtherTools,            \* names a scripted provider may call besides
  Proposals,             \* the proposals the model may submit
  MaxRounds, MaxToolCalls, MaxProviderFailures, MaxTotalTokens

InvestigationAssumption ==
  /\ RouteCount \in Nat \ {0} /\ MaxRounds \in Nat \ {0} /\ MaxToolCalls \in Nat \ {0}
  /\ AnswerTokens \in [1..RouteCount -> Nat]
  /\ MaxProviderFailures \in Nat /\ MaxTotalTokens \in Nat
  /\ AllowedTools \subseteq Catalogue /\ AllowedTools # {}
  /\ \A p \in Proposals : p.cites # {} /\ p.verdict \in {"concluded", "abstained"}

ASSUME InvestigationAssumption

VARIABLES
  pc,           \* where run() is
  round,        \* round_index
  tokens, toolCalls,
  bound,        \* bound.hashes of the start of the run
  observed,     \* observed_evidence
  trace,        \* the tool_trace
  transcript,   \* the events
  report,
  preferred, tried, failures,   \* ModelRouter: preferred_route_index, routes of this round, failures
  attempts      \* ModelRouter.attempts

routerVars == <<preferred, tried, failures, attempts>>
runVars == <<pc, round, tokens, toolCalls, bound, observed, trace, transcript, report>>
vars == <<gatewayVars, runVars, routerVars>>

Role == "investigator"
InvestigationId == "this run"   \* every call_id of the run is derived from it
NoReport == [verdict |-> "none", proposal |-> <<>>, observed |-> {}, sources |-> <<>>,
             trace |-> <<>>, attempts |-> <<>>, tokens |-> 0]

ToolCall(n, name, arguments) == [id |-> <<n, name, arguments>>, tool |-> name, arguments |-> arguments]
Normalized(c) == IF Authorize(Role, c.tool, c.arguments) = "allowed" THEN c.arguments ELSE "none"

(* What goes wrong in provider.complete and how it is classified. *)
ProviderFaults == {"missing_key", "http_401", "http_429", "http_503", "http_404", "failed_generation",
                   "route_rejected", "http_400", "unreachable", "too_large", "malformed", "script_exhausted"}
Kind(fault) ==
  CASE fault \in {"http_429", "http_503", "unreachable", "too_large", "malformed"} -> "transient"
    [] fault \in {"http_404", "route_rejected"} -> "route"
    [] fault = "failed_generation" -> "tool_generation"
    [] OTHER -> "fatal"
Retryable(fault) == Kind(fault) \in {"transient", "route"}

(* score_proposal: the refusals in their order, or the verdict of the posteriors. *)
ScoreProposal(p, evidence) ==
  CASE ~(p.cites \subseteq evidence) -> "unobserved_evidence"
    [] p.cites \subseteq evidence /\ ~p.bounded -> "likelihood_ratio"
    [] p.cites \subseteq evidence /\ p.bounded /\ p.verdict = "abstained" /\ ~p.unknowns -> "no_unknown"
    [] p.cites \subseteq evidence /\ p.bounded /\ p.verdict = "abstained" /\ p.unknowns /\ ~p.nextSteps
         -> "no_next_check"
    [] OTHER -> p.verdict
Accepted(verdict) == verdict \in {"concluded", "abstained"}

ReportOf(p, evidence, sources, steps, tries, total) ==
  [verdict |-> ScoreProposal(p, evidence), proposal |-> p, observed |-> evidence,
   sources |-> sources, trace |-> steps, attempts |-> tries, tokens |-> total]

Init ==
  /\ GatewayInit
  /\ pc = "begin" /\ round = 1 /\ tokens = 0 /\ toolCalls = 0
  /\ bound = <<>> /\ observed = {} /\ trace = <<>> /\ transcript = <<>> /\ report = NoReport
  /\ preferred = 1 /\ tried = 0 /\ failures = 0 /\ attempts = <<>>

Ended == {"accepted", "failed", "killed"}

-----------------------------------------------------------------------------
(* The routes are tried from the preferred one on, wrapping around. *)
Route == ((preferred - 1 + tried) % RouteCount) + 1

(* A provider error ends the run when the budget of failures, which spans all rounds,
   is spent, when it is not retryable, or when it was the last route's. *)
RouteFails(fault) ==
  /\ pc = "ask"
  /\ failures' = failures + 1
  /\ attempts' = Append(attempts, <<Route, IF Retryable(fault) THEN "retryable_error" ELSE "fatal_error">>)
  /\ tried' = tried + 1
  /\ pc' = IF failures' > MaxProviderFailures \/ ~Retryable(fault) \/ tried' = RouteCount
           THEN "failed" ELSE pc
  /\ UNCHANGED <<preferred, round, tokens, toolCalls, bound, observed, trace, transcript, report,
                 gatewayVars>>

RouteAnswers == /\ preferred' = Route /\ tried' = 0
                /\ attempts' = Append(attempts, <<Route, "success">>)
                /\ UNCHANGED failures

(* The next round, if there is one. *)
NextRound == /\ round' = IF round = MaxRounds THEN round ELSE round + 1
             /\ pc' = IF round = MaxRounds THEN "failed" ELSE "ask"

Spend == pc = "ask" /\ tokens' = tokens + AnswerTokens[Route]
Responded(calls) == [type |-> "provider_response", calls |-> calls]

(* An answer past the token budget leaves no event. *)
Overspend ==
  /\ Spend /\ tokens' > MaxTotalTokens
  /\ RouteAnswers /\ pc' = "failed"
  /\ UNCHANGED <<round, toolCalls, bound, observed, trace, transcript, report, gatewayVars>>

(* No call, several at once, or one of a tool the configuration does not allow. *)
Nudge(calls) ==
  /\ Spend /\ tokens' <= MaxTotalTokens
  /\ RouteAnswers /\ NextRound
  /\ transcript' = Append(transcript, Responded(calls))
  /\ UNCHANGED <<toolCalls, bound, observed, trace, report, gatewayVars>>

Submit(p) ==
  LET call_ == [tool |-> "submit", arguments |-> "fit"]
      result == ReportOf(p, observed, bound, trace, attempts', tokens') IN
  /\ Spend /\ tokens' <= MaxTotalTokens
  /\ RouteAnswers
  /\ \/ /\ Accepted(result.verdict)
        /\ report' = result /\ pc' = "accepted"
        /\ transcript' = Append(Append(transcript, Responded(<<call_>>)),
                                 [type |-> "proposal_accepted", of |-> call_, report |-> result])
        /\ UNCHANGED round
     \/ /\ ~Accepted(result.verdict)
        /\ transcript' = Append(Append(transcript, Responded(<<call_>>)),
                                 [type |-> "proposal_rejected", of |-> call_, error |-> result.verdict])
        /\ NextRound
        /\ UNCHANGED report
  /\ UNCHANGED <<toolCalls, bound, observed, trace, gatewayVars>>

CallTool(tool, arguments) ==
  /\ Spend /\ tokens' <= MaxTotalTokens
  /\ RouteAnswers
  /\ toolCalls' = toolCalls + 1
  /\ transcript' = Append(transcript, Responded(<<[tool |-> tool, arguments |-> arguments]>>))
  /\ \/ /\ toolCalls' > MaxToolCalls
        /\ pc' = "failed" /\ UNCHANGED gatewayVars
     \/ /\ toolCalls' <= MaxToolCalls
        /\ pc' = "call" /\ Invoke(Role, ToolCall(round, tool, arguments))
  /\ UNCHANGED <<round, bound, observed, trace, report>>

-----------------------------------------------------------------------------
BindRun == /\ pc = "begin" /\ pc' = "binding"
           /\ Bind(NoCall)
           /\ UNCHANGED <<round, tokens, toolCalls, bound, observed, trace, transcript, report,
                          routerVars, sourceVars, ledger, torn, faults>>

(* A BindingError leaves run(). *)
RunBound == /\ pc = "binding" /\ stage \in {"bound", "unbound"}
            /\ bound' = seen /\ stage' = "idle"
            /\ pc' = IF stage = "bound" THEN "ask" ELSE "failed"
            /\ UNCHANGED <<round, tokens, toolCalls, observed, trace, transcript, report, routerVars,
                           sourceVars, call, bindingVars, response, ledger, torn, faults>>

GatewayStep == /\ pc \in {"binding", "call"}
               /\ CheckSource \/ HashSource \/ LoadSource \/ RunTool \/ RecordReceipt(InvestigationId)
               /\ UNCHANGED <<runVars, routerVars>>

(* A defect for the runs: the call's own binding is trusted. *)
AnyLineage == TRUE

(* _require_source_lineage. *)
SameLineage == response.status = "success" => response.sources = bound

(* A defect for the runs: the trace holds the arguments as the model wrote them. *)
EntryAsCalled ==
  [id |-> call.id, tool |-> call.tool, arguments |-> call.arguments, status |-> response.status,
   code |-> response.code, result |-> response.result, refs |-> response.refs]

Entry == [id |-> call.id, tool |-> call.tool, arguments |-> Normalized(call), status |-> response.status,
          code |-> response.code, result |-> response.result, refs |-> response.refs]

Observe == observed' = IF response.status = "success" THEN observed \cup response.refs ELSE observed

TakeResult ==
  /\ pc = "call" /\ stage = "answered"
  /\ stage' = "idle"
  /\ \/ /\ ~SameLineage
        /\ pc' = "failed" /\ UNCHANGED <<round, observed, trace, transcript>>
     \/ /\ SameLineage
        /\ Observe
        /\ trace' = Append(trace, Entry)
        /\ transcript' = Append(transcript,
              [type |-> "tool_result", of |-> [tool |-> call.tool, arguments |-> call.arguments], entry |-> Entry])
        /\ NextRound
  /\ UNCHANGED <<tokens, toolCalls, bound, report, routerVars,
                 sourceVars, call, bindingVars, response, ledger, torn, faults>>

(* What invoke raises, run() does not catch. *)
InvokeRaised == /\ pc = "call" /\ stage = "raised" /\ pc' = "failed"
                /\ UNCHANGED <<round, tokens, toolCalls, bound, observed, trace, transcript, report,
                               routerVars, gatewayVars>>

(* A killed process leaves what it wrote, not what it knew. *)
RunKilled ==
  /\ pc \notin Ended /\ pc' = "killed" /\ Killed
  /\ round' = 1 /\ tokens' = 0 /\ toolCalls' = 0 /\ bound' = <<>> /\ observed' = {}
  /\ trace' = <<>> /\ transcript' = <<>> /\ report' = NoReport
  /\ preferred' = 1 /\ tried' = 0 /\ failures' = 0 /\ attempts' = <<>>

-----------------------------------------------------------------------------

(* Answers without one usable call; what the calls of a parallel answer are does not matter. *)
Unusable == {<<>>} \cup {<<[tool |-> t, arguments |-> "fit"]>> : t \in OtherTools}
                  \cup {<<[tool |-> "submit", arguments |-> "fit"], [tool |-> "submit", arguments |-> "fit"]>>}

Run ==
  \/ BindRun \/ RunBound \/ GatewayStep \/ TakeResult \/ InvokeRaised
  \/ \E fault \in ProviderFaults : RouteFails(fault)
  \/ Overspend
  \/ \E calls \in Unusable : Nudge(calls)
  \/ \E p \in Proposals : Submit(p)
  \/ \E tool \in AllowedTools, arguments \in Arguments : CallTool(tool, arguments)

Surroundings ==
  /\ \/ \E a \in Artifacts : ReadUpstream(a) \/ Republish(a)
     \/ \E request \in OtherRequests : OtherInvocation(request)
     \/ OtherKilledWriting
  /\ UNCHANGED <<runVars, routerVars>>

Next == Run \/ RunKilled \/ Surroundings
Spec == Init /\ [][Next]_vars

(* The run is one thread whose waits end: a provider call by its timeout, the ledger's lock
   by the close of the file that holds it. *)
FairSpec == Spec /\ WF_vars(Run)

============================================================================
