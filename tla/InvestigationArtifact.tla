----------------------- MODULE InvestigationArtifact -----------------------
(***************************************************************************)
(* investigation/artifact.py: what a reader of an exported investigation   *)
(* demands of its report and transcript, independently of the run that     *)
(* wrote them, and the replay of its tool calls; then what the run         *)
(* promises its readers.  A hash that binds a file, an event or a report   *)
(* to its content is the content itself.                                   *)
(***************************************************************************)
EXTENDS Investigation

EventsUpTo(type, n) == {i \in 1..n : transcript[i].type = type}
ProviderRound(n) == Cardinality(EventsUpTo("provider_response", n))
ResultsUpTo(n) == Cardinality(EventsUpTo("tool_result", n))

(* A result or a decision follows the answer of the provider whose only call it is of. *)
Paired(n) ==
  /\ n > 1 /\ transcript[n - 1].type = "provider_response"
  /\ Len(transcript[n - 1].calls) = 1
  /\ transcript[n].of = Head(transcript[n - 1].calls)

(* The report's entry of a result, reconstructed from the provider's call. *)
Reconstructs(n, steps) ==
  LET c == ToolCall(ProviderRound(n), transcript[n].of.tool, transcript[n].of.arguments)
      code == Authorize(Role, c.tool, c.arguments)
      entry == steps[ResultsUpTo(n)] IN
  /\ ResultsUpTo(n) <= Len(steps)
  /\ entry.id = c.id /\ entry.tool = c.tool /\ entry.arguments = Normalized(c)
  /\ IF entry.status = "success"
     THEN code = "allowed" /\ entry.code = "none"
     ELSE entry.code = IF code = "allowed" THEN "request_rejected" ELSE code

SemanticIssues(r) ==
  LET last == Len(transcript) IN
  {<<"unpaired", n>> : n \in {m \in 1..last : transcript[m].type # "provider_response" /\ ~Paired(m)}}
  \cup {<<"not reconstructed", n>> :
           n \in {m \in EventsUpTo("tool_result", last) : ~Reconstructs(m, r.trace)}}
  \cup {<<"not a submission", n>> :
           n \in {m \in EventsUpTo("proposal_rejected", last) \cup EventsUpTo("proposal_accepted", last) :
                    transcript[m].of.tool # "submit"}}
  \cup {<<"unmatched trace">> : x \in {l \in {ResultsUpTo(last)} : l # Len(r.trace)}}

(* verify_report scores the proposal again, from what the report says was observed. *)
ReportReconstructs(r) ==
  r = ReportOf(r.proposal, r.observed, r.sources, r.trace, r.attempts, r.tokens)

(* The results of the transcript are the trace of the report, one for one. *)
TracesAgree(r) ==
  /\ ResultsUpTo(Len(transcript)) = Len(r.trace)
  /\ \A n \in EventsUpTo("tool_result", Len(transcript)) :
       transcript[n].entry = r.trace[ResultsUpTo(n)]

AcceptedOnce(r) ==
  \E n \in DOMAIN transcript :
    EventsUpTo("proposal_accepted", Len(transcript)) = {n} /\ transcript[n].report = r

ValidationIssues(r) ==
  {x \in {<<"report does not reconstruct">>} : ~ReportReconstructs(r)}
  \cup {x \in {<<"traces differ">>} : ~TracesAgree(r)}
  \cup {x \in {<<"not one acceptance">>} : ~AcceptedOnce(r)}
  \cup SemanticIssues(r)

(* bind_sources over the directories of the reader: what stands there now. *)
Bindable == \A a \in Artifacts : Validates(a)
CurrentHashes == [i \in DOMAIN Sources |-> Version(Sources[i])]
BoundTo(r) == Bindable /\ CurrentHashes = r.sources

(* Invoking the gateway again with an entry's call; a call the policy refused is refused
   again, one it allowed reads what the sources hold. *)
Replayed(entry, hashes) ==
  IF entry.arguments = "none"
  THEN [status |-> "error", code |-> entry.code, result |-> <<>>, refs |-> {}]
  ELSE [status |-> "success", code |-> "none", result |-> hashes, refs |-> Refs(entry.tool, hashes)]
Outcome(entry) == [status |-> entry.status, code |-> entry.code, result |-> entry.result, refs |-> entry.refs]
Replays(entry, hashes) == Outcome(entry) = Replayed(entry, hashes)
Successes(r) == {i \in DOMAIN r.trace : r.trace[i].status = "success"}

(* replay_investigation over the directories of the reader. *)
AuthoritativeReplay(r) ==
  CASE ValidationIssues(r) # {} -> "invalid artifact"
    [] ValidationIssues(r) = {} /\ ~BoundTo(r) -> "source mismatch"
    [] ValidationIssues(r) = {} /\ BoundTo(r) ->
         IF /\ \A i \in DOMAIN r.trace : Replays(r.trace[i], CurrentHashes)
            /\ r.observed = UNION {Replayed(r.trace[i], CurrentHashes).refs : i \in Successes(r)}
         THEN "replayed" ELSE "replay mismatch"

-----------------------------------------------------------------------------
Versions == 1..MaxBuilds

(* Every variable has its type: the counters stay within the budgets of the
   configuration, but for the step that finds one spent. *)
TypeOK ==
  /\ \A a \in Artifacts : Version(a) \in Versions /\ Len(building[a]) <= 1
  /\ stage \in {"idle", "bind", "load", "run", "rebind", "append", "answered", "raised", "bound", "unbound"}
  /\ pc \in {"begin", "binding", "ask", "call"} \cup Ended
  /\ \A hashes \in {seen, loaded, again, bound} : hashes \in BoundedSeq(Versions, Len(Sources))
  /\ round \in 1..MaxRounds /\ tokens \in Nat /\ toolCalls \in 0..MaxToolCalls + 1
  /\ observed \subseteq Versions /\ Len(trace) <= MaxToolCalls
  /\ preferred \in 1..RouteCount /\ tried \in 0..RouteCount /\ failures \in 0..MaxProviderFailures + 1
  /\ Len(transcript) <= 2 * MaxRounds
  /\ faults \in 0..MaxFaults /\ torn \in BOOLEAN

(* A successful tool response was computed from exactly the sources whose manifest hashes
   it reports, and these belong to one lineage, however the pipeline republished them
   between bind_sources, _frames and the second bind_sources. *)
SuccessIsOneCut ==
  response.status = "success" => response.result = response.sources /\ OneCut(response.sources)

ReceiptsUpTo(n) == Cardinality({i \in 1..n : ledger[i].who = InvestigationId})
Records(receipt, entry) ==
  /\ receipt.call = entry.id /\ receipt.status = entry.status
  /\ receipt.code = entry.code /\ receipt.refs = entry.refs

(* An investigation goes on with a tool call only when its receipt is in the audit ledger:
   the run's receipts are the calls it took up, in order, with the same outcome, and at
   most the one it is about to take up; a torn ledger ends the run. *)
EveryCallIsRecorded ==
  pc # "killed" =>
    /\ ReceiptsUpTo(Len(ledger)) \in {Len(trace), Len(trace) + 1}
    /\ \A n \in DOMAIN ledger :
         ledger[n].who = InvestigationId /\ ReceiptsUpTo(n) <= Len(trace)
           => Records(ledger[n], trace[ReceiptsUpTo(n)])

(* validate_investigation, which never saw the run, finds nothing to object to in the
   report and the transcript of an accepted proposal. *)
AcceptedValidates == pc = "accepted" => ValidationIssues(report) = {}

(* An accepted report is bound to one lineage of sources, and rests on nothing else: each
   of its successful calls replays to the same result over these sources, whoever kept
   them, and its evidence is what the replays return.  A reader who still has them is
   only refused for a call that failed in the run and does not fail now. *)
AcceptedReplays ==
  pc = "accepted" =>
    /\ OneCut(report.sources)
    /\ \A i \in Successes(report) : Replays(report.trace[i], report.sources)
    /\ report.observed = UNION {Replayed(report.trace[i], report.sources).refs : i \in Successes(report)}
    /\ CurrentHashes = report.sources =>
         \/ AuthoritativeReplay(report) = "replayed"
         \/ \E i \in DOMAIN report.trace : report.trace[i].code = "request_rejected"

(* Every run ends: with a report, with an error, or killed. *)
EveryRunEnds == <>(pc \in Ended)

(* docs/GOVERNED_TOOL_GATEWAY.md: every response, a refusal too, contains "structured
   error information when rejected"; so an invocation can only raise for its ledger. *)
RefusalsAreAnswered == stage = "raised" => torn

============================================================================
