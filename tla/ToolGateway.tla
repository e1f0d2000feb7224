---------------------------- MODULE ToolGateway ----------------------------
(***************************************************************************)
(* tools/: the gateway through which an investigation reads the published  *)
(* artifacts, the binding of its sources by manifest hash, and the audit   *)
(* ledger several processes append to.  The artifacts are rebuilt and      *)
(* republished while a call is under way: a handler takes no lock over its *)
(* sources, it compares their hashes before and after.                     *)
(*                                                                         *)
(* An artifact's n-th publication stands for the hash of its manifest, so  *)
(* a publication never brings back an earlier manifest here.               *)
(***************************************************************************)
EXTENDS Integers, Sequences, FiniteSets, SequencesExt

CONSTANTS
  Sources,        \* the artifacts of the request, in the order they are bound
  UpstreamOf,     \* the artifacts each of them is validated against
  Catalogue,      \* the registered tools
  Capabilities,   \* role -> the tools it may call
  EvidenceTools,  \* tools whose rows carry evidence_record_id
  OtherRequests,  \* what other processes ask, whose receipts go to the same ledger
  MaxBuilds,      \* bound: publications of one artifact
  MaxReceipts,    \* bound: receipts in the ledger
  MaxFaults       \* bound: kills

Artifacts == Range(Sources)

ASSUME GatewayAssumption ==
  /\ Sources \in Seq(Artifacts) /\ Sources # <<>>
  /\ \A a \in Artifacts : UpstreamOf[a] \subseteq Artifacts
  /\ \A role \in DOMAIN Capabilities : Capabilities[role] \subseteq Catalogue
  /\ \A request \in OtherRequests : request.arguments # "unfit_at_length"

VARIABLES
  published,   \* artifact -> sequence of its publications: the upstream versions each used
  building,    \* artifact -> the upstream versions a rebuild has read, or <<>>
  stage,       \* where the invocation is
  call,        \* the call being answered
  seen,        \* hashes of bind_sources, in the order of Sources
  loaded,      \* the versions _frames read
  again,       \* hashes of the second bind_sources
  checked,     \* the next source of a binding has passed its validation
  response,    \* what invoke is about to return
  ledger,      \* the receipts of invocations.jsonl
  torn,        \* its last line is part of a record
  faults

gatewayVars == <<published, building, stage, call, seen, loaded, again, checked,
                 response, ledger, torn, faults>>

NoCall == [id |-> <<>>, tool |-> "none", arguments |-> "fit"]
NoResponse == [status |-> "none", code |-> "none", sources |-> <<>>, result |-> <<>>, refs |-> {}]
Refusal(code) == [NoResponse EXCEPT !.status = "error", !.code = code]

(* Arguments fit the tool's model, do not, or do not in so many places that the text
   of the refusal is longer than a ToolError may hold. *)
Arguments == {"fit", "unfit", "unfit_at_length"}

Version(a) == Len(published[a])
VersionsOf(S) == [a \in S |-> Version(a)]
Validates(a) == published[a][Version(a)] = VersionsOf(UpstreamOf[a])

(* The rows of the last source carry the evidence: one record per publication. *)
Refs(tool, versions) == IF tool \in EvidenceTools THEN {Last(versions)} ELSE {}

(* Versions of all sources that belong together: each was built from the others. *)
OneCut(versions) ==
  \A i, j \in DOMAIN Sources :
     Sources[j] \in UpstreamOf[Sources[i]] =>
       published[Sources[i]][versions[i]][Sources[j]] = versions[j]

(* policy.authorize *)
Authorize(role, tool, arguments) ==
  CASE role \notin DOMAIN Capabilities -> "unknown_role"
    [] role \in DOMAIN Capabilities /\ tool \notin Catalogue -> "unknown_tool"
    [] role \in DOMAIN Capabilities /\ tool \in Catalogue \ Capabilities[role] -> "forbidden"
    [] role \in DOMAIN Capabilities /\ tool \in Capabilities[role] ->
         IF arguments = "fit" THEN "allowed" ELSE "invalid_arguments"

GatewayInit ==
  /\ published = [a \in Artifacts |-> <<[u \in UpstreamOf[a] |-> 1]>>]
  /\ building = [a \in Artifacts |-> <<>>]
  /\ stage = "idle" /\ call = NoCall /\ checked = FALSE
  /\ seen = <<>> /\ loaded = <<>> /\ again = <<>>
  /\ response = NoResponse
  /\ ledger = <<>> /\ torn = FALSE /\ faults = 0

sourceVars == <<published, building>>
bindingVars == <<seen, loaded, again, checked>>

-----------------------------------------------------------------------------
(* The pipeline around the gateway. *)

ReadUpstream(a) ==
  /\ Version(a) < MaxBuilds
  /\ building' = [building EXCEPT ![a] = <<VersionsOf(UpstreamOf[a])>>]
  /\ building[a] = <<>>
  /\ UNCHANGED <<published, stage, call, bindingVars, response, ledger, torn, faults>>

Republish(a) ==
  /\ building[a] # <<>>
  /\ published' = [published EXCEPT ![a] = Append(@, Head(building[a]))]
  /\ building' = [building EXCEPT ![a] = <<>>]
  /\ UNCHANGED <<stage, call, bindingVars, response, ledger, torn, faults>>

-----------------------------------------------------------------------------
(* AuditLedger.append holds the ledger's lock over validate() and the write, so the
   whole append is one step; validate() raises on a torn line before anything is
   written, and the kill of a process inside its write leaves one.  The call_id of a
   receipt says whose it is. *)

Receipt(who, c, r) ==
  [who |-> who, call |-> c.id, tool |-> c.tool, status |-> r.status, code |-> r.code,
   sources |-> r.sources, refs |-> r.refs]

Extend(receipt) == ~torn /\ ledger' = Append(ledger, receipt) /\ UNCHANGED torn

OtherInvocation(request) ==
  LET code == Authorize(request.role, request.tool, request.arguments) IN
  /\ Len(ledger) < MaxReceipts
  /\ Extend(Receipt("another process", [id |-> <<request>>, tool |-> request.tool],
                    Refusal(IF code = "allowed" THEN "request_rejected" ELSE code)))
  /\ UNCHANGED <<sourceVars, stage, call, bindingVars, response, faults>>

OtherKilledWriting ==
  /\ faults < MaxFaults /\ ~torn
  /\ torn' = TRUE /\ faults' = faults + 1
  /\ UNCHANGED <<sourceVars, stage, call, bindingVars, response, ledger>>

-----------------------------------------------------------------------------
(* One invocation. *)

Answer(r) == response' = r /\ stage' = "append"
Reject(code) == Answer(Refusal(code))

Bind(c) ==
  /\ call' = c /\ stage' = "bind" /\ response' = NoResponse
  /\ seen' = <<>> /\ loaded' = <<>> /\ again' = <<>> /\ checked' = FALSE

(* Everything of invoke before the sources are bound: the policy's refusal goes
   straight to the ledger; one too long for ToolError raises out of invoke instead. *)
Invoke(role, c) ==
  /\ \/ /\ Authorize(role, c.tool, c.arguments) = "allowed"
        /\ Bind(c)
     \/ /\ Authorize(role, c.tool, c.arguments) # "allowed"
        /\ c.arguments # "unfit_at_length"
        /\ call' = c /\ Reject(Authorize(role, c.tool, c.arguments))
        /\ UNCHANGED bindingVars
     \/ /\ Authorize(role, c.tool, c.arguments) # "allowed"
        /\ c.arguments = "unfit_at_length"
        /\ call' = c /\ stage' = "raised"
        /\ UNCHANGED <<bindingVars, response>>
  /\ UNCHANGED <<sourceVars, ledger, torn, faults>>

BoundSoFar == IF stage = "bind" THEN seen ELSE again
NextSource == Sources[Len(BoundSoFar) + 1]

(* A defect for the runs: the binding waits for a source that validates. *)
AwaitSource ==
  /\ stage \in {"bind", "rebind"} /\ ~checked /\ Validates(NextSource)
  /\ checked' = TRUE
  /\ UNCHANGED <<sourceVars, call, stage, response, seen, loaded, again, ledger, torn, faults>>

(* bind_sources: validate one source against its upstream ... *)
CheckSource ==
  /\ stage \in {"bind", "rebind"} /\ ~checked
  /\ \/ /\ Validates(NextSource)
        /\ checked' = TRUE
        /\ UNCHANGED <<stage, response>>
     \/ /\ ~Validates(NextSource)
        /\ IF call = NoCall THEN stage' = "unbound" /\ UNCHANGED response
                            ELSE Reject("request_rejected")
        /\ UNCHANGED checked
  /\ UNCHANGED <<sourceVars, call, seen, loaded, again, ledger, torn, faults>>

(* ... and hash its manifest; the last hash of the second binding is followed by the
   comparison with the first. *)
Success(hashes, versions, refs) ==
  [status |-> "success", code |-> "none", sources |-> hashes, result |-> versions, refs |-> refs]

(* A defect for the runs: only the first source is compared. *)
FirstUnchanged(hashes) == Head(hashes) = Head(seen)

SourcesUnchanged(hashes) == hashes = seen

HashSource ==
  /\ stage \in {"bind", "rebind"} /\ checked
  /\ checked' = FALSE
  /\ LET hashes == Append(BoundSoFar, Version(NextSource))
         last == Len(hashes) = Len(Sources)
     IN /\ seen' = IF stage = "bind" THEN hashes ELSE seen
        /\ again' = IF stage = "rebind" THEN hashes ELSE again
        /\ \/ ~last /\ UNCHANGED <<stage, response>>
           \/ /\ last /\ stage = "bind"
              /\ stage' = IF call = NoCall THEN "bound" ELSE "load"
              /\ UNCHANGED response
           \/ /\ last /\ stage = "rebind" /\ SourcesUnchanged(hashes)
              /\ Answer(Success(seen, loaded, Refs(call.tool, loaded)))
           \/ last /\ stage = "rebind" /\ ~SourcesUnchanged(hashes) /\ Reject("request_rejected")
  /\ UNCHANGED <<sourceVars, call, loaded, ledger, torn, faults>>

(* _frames loads the sources one after the other. *)
LoadSource ==
  /\ stage = "load"
  /\ loaded' = Append(loaded, Version(Sources[Len(loaded) + 1]))
  /\ stage' = IF Len(loaded') = Len(Sources) THEN "run" ELSE stage
  /\ UNCHANGED <<sourceVars, call, seen, again, checked, response, ledger, torn, faults>>

(* The handler of the tool has a result, or raises: a query its policy refuses or its
   timer interrupts, an unknown lineage node, a result above the limit of bytes. *)
RunTool ==
  /\ stage = "run"
  /\ \/ stage' = "rebind" /\ UNCHANGED response
     \/ Reject("request_rejected")
  /\ UNCHANGED <<sourceVars, call, bindingVars, ledger, torn, faults>>

(* A defect for the runs: an invocation survives a ledger that refuses its receipt. *)
RecordIfPossible(who) ==
  /\ stage = "append" /\ stage' = "answered"
  /\ \/ Extend(Receipt(who, call, response))
     \/ torn /\ UNCHANGED <<ledger, torn>>
  /\ UNCHANGED <<sourceVars, call, bindingVars, response, faults>>

(* ledger.append(...), whose ValueError on a torn ledger leaves invoke. *)
RecordReceipt(who) ==
  /\ stage = "append"
  /\ \/ Extend(Receipt(who, call, response)) /\ stage' = "answered"
     \/ torn /\ stage' = "raised" /\ UNCHANGED <<ledger, torn>>
  /\ UNCHANGED <<sourceVars, call, bindingVars, response, faults>>

(* The process is killed, inside the write of its receipt or anywhere else. *)
Killed ==
  /\ faults < MaxFaults
  /\ faults' = faults + 1 /\ stage' = "idle" /\ call' = NoCall /\ response' = NoResponse
  /\ seen' = <<>> /\ loaded' = <<>> /\ again' = <<>> /\ checked' = FALSE
  /\ torn' \in IF stage = "append" /\ ~torn THEN {TRUE, FALSE} ELSE {torn}
  /\ UNCHANGED <<sourceVars, ledger>>

============================================================================
