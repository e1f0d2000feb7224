----------------------- MODULE ResponsePipeline_proof -----------------------
(***************************************************************************)
(* Theorems about the commands of a response: what loads was published     *)
(* whole, what the control room calls healthy is one story from the        *)
(* signals to the recovery verdict, and what nobody disturbed is not       *)
(* rejected - for any number of processes, commands and files put back.    *)
(***************************************************************************)
EXTENDS ResponsePipeline, SequenceTheorems, TLAPS

-----------------------------------------------------------------------------
(* The inductive invariant.                                                *)

(* What a command had read of a directory, in one call or another.          *)
Seen(read, r) == {x[2] : x \in {y \in read : y[1] = r}}

(* The files are those of the manifest. *)
Sealed(tree) ==
    /\ tree.marker = tree.manifest
    /\ tree.manifest = [source |-> tree.source, result |-> tree.result]

(* What a call returned is what it read of the directories it was given.   *)
Noted(call, got, read, receipts) ==
    /\ call = "bind" => got \in Seen(read, "signals")
    /\ call = "replay" =>
          \E t \in Seen(read, "investigation"), l \in Seen(read, "signals") :
             Sealed(t) /\ t.result.of = l /\ got = t.result
    /\ call = "load state" => \E t \in Seen(read, "before") : Sealed(t) /\ got = t.result
    /\ call = "hash investigation" => \E t \in Seen(read, "investigation") : got = t.manifest
    /\ call = "hash state" => \E t \in Seen(read, "before") : got = t.manifest
    /\ call = "load plan" =>
          \E t \in Seen(read, "plan") :
             Sealed(t) /\ t.result.proposal = t.source /\ got = t.result
    /\ call = "commit" =>
          /\ got \in receipts
          /\ \E t \in Seen(read, "plan") :
                Sealed(t) /\ t.result.proposal = t.source /\ got.plan = t.result
    /\ call = "derive" =>
          \E l \in Seen(read, "signals"), t \in Seen(read, "execution") :
             Sealed(t) /\ got = DeriveObservations(got.scenario, l, t)
    /\ call = "load observations" => \E t \in Seen(read, "observations") : got = t.result
    /\ call = "load execution" =>
          \E e \in Seen(read, "execution"), t \in Seen(read, "observations") :
             Sealed(e) /\ got = e.manifest /\ got = t.result.execution
    /\ call = "hash observations" => \E t \in Seen(read, "observations") : got = t.manifest

(* A command under way, and the calls it is past.                          *)
Sane(P, receipts) ==
    /\ P = [command |-> P.command, input |-> P.input, at |-> P.at, read |-> P.read,
            got |-> P.got]
    /\ P.command \in Commands
    /\ P.at \in 1..Len(Calls(P.command))
    /\ P.got = [c \in Call |-> P.got[c]]
    /\ \A i \in 1..Len(Calls(P.command)) :
          i < P.at => Noted(Calls(P.command)[i], P.got[Calls(P.command)[i]], P.read, receipts)

Underway == \A p \in Process : proc[p] # Idle => Sane(proc[p], committed)

(* A published tree is whole, and follows from what its command had read.  *)
Derived(r, tree, read, receipts) ==
    /\ r = "investigation" => tree.result.of \in Seen(read, "signals")
    /\ r = "plan" =>
          /\ tree.source = tree.result.proposal
          /\ \E t, h \in Seen(read, "investigation"), l \in Seen(read, "signals"),
                a, g \in Seen(read, "before") :
                /\ Sealed(t) /\ t.result.of = l /\ Sealed(a)
                /\ tree.result = BuildPlan(t.result, a.result, tree.source, h.manifest, g.manifest)
    /\ r = "execution" =>
          /\ tree.result \in receipts
          /\ \E t \in Seen(read, "plan") :
                Sealed(t) /\ t.result.proposal = t.source /\ tree.result.plan = t.result
    /\ r = "observations" =>
          /\ tree.source = tree.result.scenario
          /\ \E l \in Seen(read, "signals"), t \in Seen(read, "execution") :
                Sealed(t) /\ tree.result = DeriveObservations(tree.source, l, t)
    /\ r = "recovery" =>
          \E t, n, h \in Seen(read, "observations"), e \in Seen(read, "execution") :
             /\ Sealed(e) /\ e.manifest = n.result.execution
             /\ tree.source = t.result
             /\ tree.result = EvaluateRecovery(tree.source, e.manifest, h.manifest)

Builds ==
    \A r \in Artifact : \A b \in builds[r] :
        /\ b.tree = Tree(b.tree.source, b.tree.result)
        /\ Derived(r, b.tree, b.read, committed)

(* What stands is made of files, and its manifest was published.           *)
Standing ==
    \A r \in Artifact : root[r] # None =>
        /\ root[r] = [manifest |-> root[r].manifest, source |-> root[r].source,
                      result |-> root[r].result, marker |-> root[r].marker]
        /\ \E b \in builds[r] : root[r].manifest = b.tree.manifest

(* A receipt was committed for a plan that could be executed in its state. *)
Committed ==
    \A c \in committed :
        /\ Executable(c.plan, c.before.result)
        /\ c.before = StateTree(c.before.result).manifest
        /\ c.after = Executed(c.plan, c.before.result)

Stored == DOMAIN store = 1..Len(store) /\ store \in Seq({store[i] : i \in DOMAIN store})

Inv == TypeOK /\ Stored /\ Committed /\ Builds /\ Standing /\ Underway

-----------------------------------------------------------------------------
(* Consequences of the invariant.                                          *)

\* A mixture of the files of two generations does not load: its files have the
\* digests of a manifest that was published.
LEMMA LoadedBuild ==
    ASSUME Inv, NEW r \in Artifact, Loads(root[r])
    PROVE  \E b \in builds[r] : root[r] = b.tree
<1>1. root[r] # None /\ root[r].marker = root[r].manifest
         /\ root[r].manifest = [source |-> root[r].source, result |-> root[r].result]
  BY DEF Loads
<1>2. PICK b \in builds[r] : root[r].manifest = b.tree.manifest
  BY <1>1 DEF Inv, Standing
<1>3. b.tree = Tree(b.tree.source, b.tree.result)
  BY DEF Inv, Builds
<1>4. b.tree.manifest = [source |-> b.tree.source, result |-> b.tree.result]
  BY <1>3 DEF Tree
<1>5. root[r].source = b.tree.source /\ root[r].result = b.tree.result
  BY <1>1, <1>2, <1>4
<1>6. root[r] = [manifest |-> root[r].manifest, source |-> root[r].source,
                 result |-> root[r].result, marker |-> root[r].marker]
  BY <1>1 DEF Inv, Standing
<1>7. root[r] = Tree(root[r].source, root[r].result)
  BY <1>1, <1>6 DEF Tree
<1> QED BY <1>3, <1>5, <1>7

LEMMA InvImpliesLoadedIsWhole == Inv => LoadedIsWhole
BY LoadedBuild DEF LoadedIsWhole, Published

\* A receipt that loads is one the transaction store committed.
LEMMA LoadedReceipt ==
    ASSUME Inv, Loads(root["execution"])
    PROVE  /\ root["execution"].result \in committed
           /\ root["execution"].manifest.result = root["execution"].result
<1>1. "execution" \in Artifact
  BY DEF Artifact, Root
<1>2. PICK b \in builds["execution"] : root["execution"] = b.tree
  BY <1>1, LoadedBuild
<1>3. b.tree.result \in committed
  BY <1>1 DEF Inv, Builds, Derived
<1> QED BY <1>2, <1>3 DEF Loads

\* The status of every stage of a healthy response.
LEMMA HealthyStages ==
    ASSUME NEW w, ResponseStatus(w, root) = "healthy"
    PROVE  /\ RemediationStage(w, root) \in {"healthy", "not_configured"}
           /\ RecoveryStage(w, root) \in {"healthy", "not_configured"}
<1> DEFINE T == {InvestigationStage(w, root), RemediationStage(w, root), RecoveryStage(w, root)}
<1>1. T \cap {"error", "missing"} = {} /\ "warning" \notin T
  BY DEF ResponseStatus, Overall
<1>2. \A v, a : ReportStage(v, a) \in {"error", "healthy", "warning"}
  BY DEF ReportStage
<1>3. \A c, e, x : x \in {"error", "healthy", "warning"} =>
         StageStatus(c, e, x) \in {"error", "healthy", "warning", "missing", "not_configured"}
  BY DEF StageStatus
<1>4. RemediationStage(w, root) \in {"error", "healthy", "warning", "missing", "not_configured"}
  BY <1>2, <1>3 DEF RemediationStage
<1>5. RecoveryStage(w, root) \in {"error", "healthy", "warning", "missing", "not_configured"}
  BY <1>2, <1>3 DEF RecoveryStage
<1> QED BY <1>1, <1>4, <1>5

LEMMA HealthyStage ==
    ASSUME NEW configured \in BOOLEAN, NEW present \in BOOLEAN, NEW valid \in BOOLEAN,
           NEW authoritative \in BOOLEAN, configured,
           StageStatus(configured, present, ReportStage(valid, authoritative))
              \in {"healthy", "not_configured"}
    PROVE  present /\ valid /\ authoritative
BY DEF StageStatus, ReportStage

\* What the inspection of a remediation compares, in one place.
PlanSources == {"investigation", "signals", "before"}
RemediationValid(w) ==
    /\ PlanSources \subseteq w =>
          PlanValid(root["plan"], Given(root, {"investigation", "signals", "before"}))
    /\ ~ (PlanSources \subseteq w) => PlanLoads(root["plan"])
    /\ \A r \in w \cap {"before", "after", "execution"} : root[r] # None
    /\ "execution" \in w =>
          ExecutionValid(root["execution"],
                         Given(root, {"plan"} \cup (w \cap {"before", "after"})))
RemediationAuthoritative(w) ==
    PlanSources \subseteq w /\ ("execution" \in w => "after" \in w)

LEMMA RemediationStageIs ==
    ASSUME NEW w
    PROVE  RemediationStage(w, root) =
              StageStatus("plan" \in w, root["plan"] # None,
                          ReportStage(RemediationValid(w), RemediationAuthoritative(w)))
BY DEF RemediationStage, RemediationValid, RemediationAuthoritative, PlanSources

LEMMA RecoveryStageIs ==
    ASSUME NEW w
    PROVE  RecoveryStage(w, root) =
              StageStatus("recovery" \in w, root["recovery"] # None,
                 ReportStage(RecoveryValid(root["recovery"],
                                Given(root, IF {"observations", "signals", "execution"} \subseteq w
                                            THEN {"observations", "signals", "execution"}
                                            ELSE {})),
                             {"observations", "signals", "execution"} \subseteq w))
BY DEF RecoveryStage

\* Healthy is one story: from what the validators compare, and from the receipt
\* that loads being a committed one.
LEMMA InvImpliesOneStory == ASSUME Inv, NEW w PROVE OneStory(w)
<1> SUFFICES ASSUME ResponseStatus(w, root) = "healthy" PROVE OneStory(w)
  BY DEF OneStory
<1> DEFINE plan == root["plan"].result
           receipt == root["execution"].result
           judged == root["recovery"].source
           sources == {"observations", "signals", "execution"}
<1>1. ASSUME Stands(w, "plan")
      PROVE  /\ RemediationValid(w) /\ RemediationAuthoritative(w)
             /\ PlanValid(root["plan"], Given(root, {"investigation", "signals", "before"}))
  <2>1. /\ RemediationValid(w) \in BOOLEAN /\ RemediationAuthoritative(w) \in BOOLEAN
        /\ ("plan" \in w) \in BOOLEAN /\ (root["plan"] # None) \in BOOLEAN
    BY DEF RemediationValid, RemediationAuthoritative
  <2>2. RemediationStage(w, root) \in {"healthy", "not_configured"} /\ "plan" \in w
    BY <1>1, HealthyStages DEF Stands
  <2>3. RemediationValid(w) /\ RemediationAuthoritative(w)
    BY <2>1, <2>2, HealthyStage, RemediationStageIs
  <2> QED BY <2>3 DEF RemediationValid, RemediationAuthoritative
<1>2. ASSUME Stands(w, "plan")
      PROVE  /\ plan.proposal.report = root["investigation"].result
             /\ plan.sources = root["signals"]
             /\ plan.before.result = root["before"].result
             /\ plan.status = "awaiting_approval" =>
                   plan.proposal.expected = root["before"].result.flag
  <2>1. /\ Replays(root["investigation"], root["signals"])
        /\ root["investigation"].result = plan.proposal.report
        /\ Loads(root["before"])
        /\ root["before"].manifest = plan.before
        /\ plan = BuildPlan(root["investigation"].result, root["before"].result,
                            root["plan"].source, root["investigation"].manifest,
                            root["before"].manifest)
        /\ plan.proposal = root["plan"].source
    BY <1>1, <1>2 DEF PlanValid, PlanLoads, Given
  <2>2. plan.sources = root["signals"]
    BY <2>1 DEF BuildPlan, Replays
  <2>3. plan.before.result = root["before"].result
    BY <2>1 DEF Loads
  <2>4. plan.status = IF Allowed(root["investigation"].result, root["before"].result,
                                 root["plan"].source)
                      THEN "awaiting_approval" ELSE "denied"
    BY <2>1 DEF BuildPlan
  <2>5. plan.status = "awaiting_approval" => plan.proposal.expected = root["before"].result.flag
    BY <2>1, <2>4 DEF Allowed
  <2> QED BY <2>1, <2>2, <2>3, <2>5
<1>3. ASSUME Stands(w, "plan"), Stands(w, "execution")
      PROVE  /\ receipt \in committed
             /\ receipt.plan = plan
             /\ receipt.before.result = root["before"].result
             /\ receipt.after = root["after"].result
  <2>1. "execution" \in w /\ "before" \in w /\ "after" \in w
    BY <1>1, <1>3 DEF RemediationAuthoritative, PlanSources, Stands
  <2>2. {"plan"} \cup (w \cap {"before", "after"}) = {"plan", "before", "after"}
    BY <2>1
  <2>3. ExecutionValid(root["execution"], Given(root, {"plan", "before", "after"}))
    BY <1>1, <1>3, <2>1, <2>2 DEF RemediationValid
  <2>4. /\ Loads(root["execution"]) /\ plan = receipt.plan
        /\ Loads(root["before"]) /\ root["before"].manifest = receipt.before
        /\ root["after"].result = receipt.after
    BY <2>3 DEF ExecutionValid, Given
  <2>5. receipt.before.result = root["before"].result
    BY <2>4 DEF Loads
  <2> QED BY <2>4, <2>5, LoadedReceipt
<1>4. ASSUME Stands(w, "recovery")
      PROVE  /\ judged = root["observations"].result
             /\ judged.execution.result \in committed
             /\ judged.execution.result = receipt
             /\ judged.analytics = root["signals"]
  <2> DEFINE given == Given(root, IF sources \subseteq w THEN sources ELSE {})
  <2>1. RecoveryValid(root["recovery"], given) \in BOOLEAN /\ (sources \subseteq w) \in BOOLEAN
        /\ ("recovery" \in w) \in BOOLEAN /\ (root["recovery"] # None) \in BOOLEAN
    BY DEF RecoveryValid
  <2>2. RecoveryStage(w, root) \in {"healthy", "not_configured"} /\ "recovery" \in w
    BY <1>4, HealthyStages DEF Stands
  <2>3. RecoveryValid(root["recovery"], given) /\ sources \subseteq w
    <3> HIDE DEF given
    <3>1. RecoveryStage(w, root) =
             StageStatus("recovery" \in w, root["recovery"] # None,
                         ReportStage(RecoveryValid(root["recovery"], given), sources \subseteq w))
      BY RecoveryStageIs DEF given
    <3> QED BY <2>1, <2>2, <3>1, HealthyStage
  <2>4. given = Given(root, sources)
    BY <2>3
  <2>5. DOMAIN given = sources /\ \A r \in sources : given[r] = root[r]
    BY <2>4 DEF Given
  <2>6. /\ RecoveryLoads(root["recovery"])
        /\ ObservationsLoad(given["observations"], Given(given, {"signals", "execution"}))
        /\ given["observations"].result = judged
        /\ Loads(given["execution"])
        /\ given["execution"].manifest = root["recovery"].result.execution
    <3>1. DOMAIN given # {}
      BY <2>5
    <3> HIDE DEF given
    <3> QED BY <2>3, <3>1 DEF RecoveryValid
  <2>7. judged = root["observations"].result
    BY <2>5, <2>6
  <2>8. /\ Loads(root["execution"])
        /\ root["execution"].manifest = judged.execution
    <3>1. root["recovery"].result.execution = judged.execution
      BY <2>6 DEF RecoveryLoads
    <3> QED BY <2>5, <2>6, <3>1
  <2>9. judged.analytics = root["signals"]
    <3> DEFINE g == Given(given, {"signals", "execution"})
    <3>1. DOMAIN g = {"signals", "execution"} /\ g["signals"] = root["signals"]
      BY <2>5 DEF Given
    <3>2. root["observations"].result =
             DeriveObservations(root["observations"].source, g["signals"], g["execution"])
      <4>1. ObservationsLoad(root["observations"], g)
        BY <2>5, <2>6
      <4> HIDE DEF g
      <4> QED BY <3>1, <4>1 DEF ObservationsLoad
    <3> HIDE DEF g
    <3> QED BY <2>7, <3>1, <3>2 DEF DeriveObservations
  <2> QED BY <2>7, <2>8, <2>9, LoadedReceipt
<1> QED BY <1>2, <1>3, <1>4 DEF OneStory

\* What a build that still stands says of what stands beside it.
LEMMA StandingBuild ==
    ASSUME Inv, NEW r \in Artifact, NEW b \in builds[r], b.tree = root[r],
           \A x \in b.read : x[2] = root[x[1]]
    PROVE  /\ Sealed(root[r])
           /\ r = "investigation" => root[r].result.of = root["signals"]
           /\ r = "plan" =>
                 /\ root[r].result.proposal = root[r].source
                 /\ Sealed(root["investigation"]) /\ Sealed(root["before"])
                 /\ root["investigation"].result.of = root["signals"]
                 /\ root[r].result =
                       BuildPlan(root["investigation"].result, root["before"].result,
                                 root[r].source, root["investigation"].manifest,
                                 root["before"].manifest)
           /\ r = "execution" =>
                 /\ root[r].result \in committed
                 /\ Sealed(root["plan"]) /\ root["plan"].result.proposal = root["plan"].source
                 /\ root[r].result.plan = root["plan"].result
           /\ r = "observations" =>
                 /\ Sealed(root["execution"]) /\ root[r].source = root[r].result.scenario
                 /\ root[r].result =
                       DeriveObservations(root[r].source, root["signals"], root["execution"])
           /\ r = "recovery" =>
                 /\ Sealed(root["execution"])
                 /\ root["execution"].manifest = root["observations"].result.execution
                 /\ root[r].source = root["observations"].result
                 /\ root[r].result = EvaluateRecovery(root[r].source, root["execution"].manifest,
                                                      root["observations"].manifest)
<1>1. b.tree = Tree(b.tree.source, b.tree.result) /\ Derived(r, b.tree, b.read, committed)
  BY DEF Inv, Builds
<1>2. \A s : \A t \in Seen(b.read, s) : t = root[s]
  BY DEF Seen
<1>3. Sealed(root[r])
  <2>1. root[r] = Tree(root[r].source, root[r].result)
    BY <1>1
  <2> QED BY <2>1 DEF Tree, Sealed
<1>4. r = "investigation" => root[r].result.of = root["signals"]
  BY <1>1, <1>2 DEF Derived
<1>5. ASSUME r = "plan"
      PROVE  /\ root[r].result.proposal = root[r].source
             /\ Sealed(root["investigation"]) /\ Sealed(root["before"])
                 /\ root["investigation"].result.of = root["signals"]
             /\ root[r].result =
                   BuildPlan(root["investigation"].result, root["before"].result,
                             root[r].source, root["investigation"].manifest,
                             root["before"].manifest)
  BY <1>1, <1>2, <1>5 DEF Derived
<1>6. r = "execution" =>
         /\ root[r].result \in committed
         /\ Sealed(root["plan"]) /\ root["plan"].result.proposal = root["plan"].source
                 /\ root[r].result.plan = root["plan"].result
  BY <1>1, <1>2 DEF Derived
<1>7. r = "observations" =>
         /\ Sealed(root["execution"]) /\ root[r].source = root[r].result.scenario
         /\ root[r].result =
               DeriveObservations(root[r].source, root["signals"], root["execution"])
  BY <1>1, <1>2 DEF Derived
<1>8. ASSUME r = "recovery"
      PROVE  /\ Sealed(root["execution"])
             /\ root["execution"].manifest = root["observations"].result.execution
             /\ root[r].source = root["observations"].result
             /\ root[r].result = EvaluateRecovery(root[r].source, root["execution"].manifest,
                                                  root["observations"].manifest)
  BY <1>1, <1>2, <1>8 DEF Derived
<1> QED BY <1>3, <1>4, <1>5, <1>6, <1>7, <1>8

(* A response nobody disturbed, in terms of what stands. *)
Undisturbed ==
    /\ \A r \in Artifact : root[r] # None =>
          /\ \A s \in SourcesOf(r) : root[s] # None
          /\ \E b \in builds[r] : b.tree = root[r] /\ \A x \in b.read : x[2] = root[x[1]]
    /\ root["execution"] # None <=> root["after"] # None
    /\ root["execution"] # None => root["execution"].result.after = root["after"].result
    /\ root["plan"] # None =>
          root["plan"].result.proposal.report = root["investigation"].result

LEMMA UndisturbedRemediation ==
    ASSUME Inv, Undisturbed, root["plan"] # None,
           NEW w, w = {r \in Root : root[r] # None}
    PROVE  RemediationValid(w) /\ RemediationAuthoritative(w)
<1> DEFINE plan == root["plan"].result
           receipt == root["execution"].result
<1>0. "plan" \in Artifact /\ "execution" \in Artifact /\ "before" \in Artifact /\ "after" \in Artifact
  BY DEF Artifact, Root
<1>1. /\ plan.proposal = root["plan"].source
      /\ Replays(root["investigation"], root["signals"]) /\ Loads(root["before"])
      /\ plan = BuildPlan(root["investigation"].result, root["before"].result,
                          root["plan"].source, root["investigation"].manifest,
                          root["before"].manifest)
      /\ Loads(root["plan"])
  <2>1. PICK b \in builds["plan"] : b.tree = root["plan"] /\ \A x \in b.read : x[2] = root[x[1]]
    BY <1>0 DEF Undisturbed
  <2>2. root["investigation"] # None /\ root["before"] # None
    BY <1>0 DEF Undisturbed, SourcesOf
  <2> QED BY <1>0, <2>1, <2>2, StandingBuild DEF Sealed, Loads, Replays
<1>2. PlanSources \subseteq w
  <2>1. \A s \in SourcesOf("plan") : root[s] # None
    BY <1>0 DEF Undisturbed
  <2> QED BY <2>1 DEF PlanSources, SourcesOf, Root
<1>3. plan.investigation = root["investigation"].manifest /\ plan.before = root["before"].manifest
  BY <1>1 DEF BuildPlan
<1>4. PlanValid(root["plan"], Given(root, {"investigation", "signals", "before"}))
  BY <1>1, <1>3 DEF PlanValid, PlanLoads, Given, Undisturbed
<1>5. ASSUME "execution" \in w
      PROVE  /\ "after" \in w
             /\ ExecutionValid(root["execution"], Given(root, {"plan", "before", "after"}))
  <2>1. root["execution"] # None /\ root["after"] # None /\ "after" \in w
    BY <1>5 DEF Undisturbed, Root
  <2>2. /\ Loads(root["execution"]) /\ receipt \in committed
        /\ PlanLoads(root["plan"]) /\ receipt.plan = plan
    <3>1. PICK b \in builds["execution"] :
             b.tree = root["execution"] /\ \A x \in b.read : x[2] = root[x[1]]
      BY <1>0, <2>1 DEF Undisturbed
    <3> QED BY <1>0, <2>1, <3>1, StandingBuild DEF Sealed, Loads, PlanLoads
  <2>3. Loads(root["after"])
    <3>1. PICK b \in builds["after"] :
             b.tree = root["after"] /\ \A x \in b.read : x[2] = root[x[1]]
      BY <1>0, <2>1 DEF Undisturbed
    <3> QED BY <1>0, <2>1, <3>1, StandingBuild DEF Sealed, Loads, PlanLoads
  <2>4. /\ Executable(receipt.plan, receipt.before.result)
        /\ receipt.before = StateTree(receipt.before.result).manifest
        /\ receipt.after = Executed(receipt.plan, receipt.before.result)
    BY <2>2 DEF Inv, Committed
  <2>5. receipt.before = root["before"].manifest
    BY <1>3, <2>2, <2>4 DEF Executable
  <2>6. receipt.before.result = root["before"].result
    BY <1>1, <2>5 DEF Loads
  <2>7. receipt.after = root["after"].result
    BY <2>1 DEF Undisturbed
  <2>8. VerifyTransition(plan, root["before"].result, root["after"].result, receipt)
    BY <2>2, <2>4, <2>6, <2>7 DEF VerifyTransition, Executable
  <2> QED BY <1>1, <2>1, <2>2, <2>3, <2>5, <2>7, <2>8 DEF ExecutionValid, Given
<1>6. ASSUME "execution" \in w
      PROVE  ExecutionValid(root["execution"], Given(root, {"plan"} \cup (w \cap {"before", "after"})))
  <2>1. {"plan"} \cup (w \cap {"before", "after"}) = {"plan", "before", "after"}
    BY <1>2, <1>5, <1>6 DEF PlanSources
  <2> QED BY <1>5, <1>6, <2>1
<1>7. \A r \in w : root[r] # None
  OBVIOUS
<1> QED BY <1>2, <1>4, <1>5, <1>6, <1>7 DEF RemediationValid, RemediationAuthoritative

LEMMA UndisturbedRecovery ==
    ASSUME Inv, Undisturbed, root["recovery"] # None
    PROVE  /\ \A s \in {"observations", "signals", "execution"} : root[s] # None
           /\ RecoveryValid(root["recovery"],
                            Given(root, {"observations", "signals", "execution"}))
<1> DEFINE sources == {"observations", "signals", "execution"}
           given == Given(root, sources)
<1>0. "recovery" \in Artifact /\ "observations" \in Artifact
  BY DEF Artifact, Root
<1>1. \A s \in sources : root[s] # None
  BY <1>0 DEF Undisturbed, SourcesOf
<1>2. /\ Loads(root["recovery"]) /\ Loads(root["execution"])
      /\ root["execution"].manifest = root["observations"].result.execution
      /\ root["recovery"].source = root["observations"].result
      /\ root["recovery"].result =
            EvaluateRecovery(root["recovery"].source, root["execution"].manifest,
                             root["observations"].manifest)
  <2>1. PICK b \in builds["recovery"] :
           b.tree = root["recovery"] /\ \A x \in b.read : x[2] = root[x[1]]
    BY <1>0 DEF Undisturbed
  <2> QED BY <1>0, <1>1, <2>1, StandingBuild DEF Sealed, Loads
<1>3. /\ Loads(root["observations"])
      /\ root["observations"].source = root["observations"].result.scenario
      /\ root["observations"].result =
            DeriveObservations(root["observations"].source, root["signals"], root["execution"])
  <2>1. PICK b \in builds["observations"] :
           b.tree = root["observations"] /\ \A x \in b.read : x[2] = root[x[1]]
    BY <1>0, <1>1 DEF Undisturbed
  <2> QED BY <1>0, <1>1, <2>1, StandingBuild DEF Sealed, Loads
<1>4. DOMAIN given = sources /\ \A r \in sources : given[r] = root[r]
  BY DEF Given
<1>5. /\ root["recovery"].result.execution = root["execution"].manifest
      /\ root["recovery"].result.manifest = root["observations"].manifest
  BY <1>2 DEF EvaluateRecovery
<1>6. RecoveryLoads(root["recovery"])
  BY <1>2, <1>5 DEF RecoveryLoads
<1> DEFINE g == Given(given, {"signals", "execution"})
<1>7. /\ DOMAIN g = {"signals", "execution"} /\ g["signals"] = root["signals"]
      /\ g["execution"] = root["execution"]
  BY <1>4 DEF Given
<1> HIDE DEF given, g
<1>8. ObservationsLoad(given["observations"], g)
  BY <1>1, <1>2, <1>3, <1>4, <1>7 DEF ObservationsLoad
<1>9. RecoveryValid(root["recovery"], given)
  BY <1>2, <1>4, <1>5, <1>6, <1>8 DEF RecoveryValid, g
<1> QED BY <1>1, <1>9 DEF given

LEMMA InvImpliesUndisturbedIsHealthy == Inv => UndisturbedIsHealthy
<1> DEFINE w == {r \in Root : root[r] # None}
           undisturbed ==
              /\ \A r \in Artifact \cap w :
                    /\ SourcesOf(r) \subseteq w
                    /\ \E b \in builds[r] :
                          b.tree = root[r] /\ \A x \in b.read : x[2] = root[x[1]]
              /\ "execution" \in w <=> "after" \in w
              /\ "execution" \in w => root["execution"].result.after = root["after"].result
              /\ "plan" \in w =>
                    root["plan"].result.proposal.report = root["investigation"].result
<1> SUFFICES ASSUME Inv, undisturbed PROVE ResponseStatus(w, root) \in {"healthy", "not_configured"}
  BY DEF UndisturbedIsHealthy
<1>1. \A r \in Root : r \in w <=> root[r] # None
  OBVIOUS
<1>2. Undisturbed
  <2>1. \A r \in Artifact : r \in Root
    BY DEF Artifact
  <2>2. "execution" \in Root /\ "after" \in Root /\ "plan" \in Root
    BY DEF Root
  <2> QED BY <1>1, <2>1, <2>2 DEF Undisturbed
<1>3. root["signals"] # None /\ "signals" \in w
  BY ResponseAssumption DEF Inv, TypeOK, Root
<1>4. InvestigationStage(w, root) \in {"healthy", "not_configured"}
  <2> DEFINE valid == IF "signals" \in w THEN Replays(root["investigation"], root["signals"])
                      ELSE Loads(root["investigation"])
  <2>1. InvestigationStage(w, root) =
           StageStatus("investigation" \in w, root["investigation"] # None,
                       ReportStage(valid, "signals" \in w))
    BY DEF InvestigationStage
  <2>2. ASSUME "investigation" \in w PROVE root["investigation"] # None /\ valid
    <3>1. "investigation" \in Artifact /\ root["investigation"] # None
      BY <2>2 DEF Artifact, Root
    <3>2. PICK b \in builds["investigation"] :
             b.tree = root["investigation"] /\ \A x \in b.read : x[2] = root[x[1]]
      BY <1>2, <3>1 DEF Undisturbed
    <3>3. Loads(root["investigation"]) /\ root["investigation"].result.of = root["signals"]
      BY <3>1, <3>2, StandingBuild DEF Sealed, Loads
    <3> QED BY <1>3, <3>1, <3>3 DEF Replays
  <2> HIDE DEF valid, w
  <2> QED BY <1>3, <2>1, <2>2 DEF StageStatus, ReportStage
<1>5. RemediationStage(w, root) \in {"healthy", "not_configured"}
  <2>1. "plan" \in w => root["plan"] # None /\ RemediationValid(w) /\ RemediationAuthoritative(w)
    BY <1>2, UndisturbedRemediation
  <2>2. RemediationStage(w, root) =
           StageStatus("plan" \in w, root["plan"] # None,
                       ReportStage(RemediationValid(w), RemediationAuthoritative(w)))
    BY RemediationStageIs
  <2> HIDE DEF w
  <2> QED BY <2>1, <2>2 DEF StageStatus, ReportStage
<1>6. RecoveryStage(w, root) \in {"healthy", "not_configured"}
  <2> DEFINE sources == {"observations", "signals", "execution"}
             valid == RecoveryValid(root["recovery"],
                                    Given(root, IF sources \subseteq w THEN sources ELSE {}))
  <2>1. RecoveryStage(w, root) =
           StageStatus("recovery" \in w, root["recovery"] # None,
                       ReportStage(valid, sources \subseteq w))
    BY RecoveryStageIs
  <2>2. ASSUME "recovery" \in w PROVE root["recovery"] # None /\ valid /\ sources \subseteq w
    <3>1. root["recovery"] # None
      BY <2>2
    <3>2. sources \subseteq w
      BY <1>2, <3>1, UndisturbedRecovery DEF Root
    <3> HIDE DEF w
    <3> QED BY <1>2, <3>1, <3>2, UndisturbedRecovery
  <2> HIDE DEF valid, w, sources
  <2> QED BY <2>1, <2>2 DEF StageStatus, ReportStage
<1> HIDE DEF w
<1> QED BY <1>4, <1>5, <1>6 DEF ResponseStatus, Overall

-----------------------------------------------------------------------------
(* What a command under way has noted.                                     *)

\* Nothing that was read or committed is ever forgotten.
LEMMA StillSeen ==
    ASSUME NEW read, NEW more, read \subseteq more, NEW r
    PROVE  Seen(read, r) \subseteq Seen(more, r)
BY DEF Seen

LEMMA StillNoted ==
    ASSUME NEW call, NEW got, NEW read, NEW more, NEW receipts, NEW extended,
           read \subseteq more, receipts \subseteq extended,
           Noted(call, got, read, receipts)
    PROVE  Noted(call, got, more, extended)
<1>1. /\ Seen(read, "signals") \subseteq Seen(more, "signals")
      /\ Seen(read, "investigation") \subseteq Seen(more, "investigation")
      /\ Seen(read, "before") \subseteq Seen(more, "before")
      /\ Seen(read, "plan") \subseteq Seen(more, "plan")
      /\ Seen(read, "execution") \subseteq Seen(more, "execution")
      /\ Seen(read, "observations") \subseteq Seen(more, "observations")
  BY StillSeen
<1> QED BY <1>1 DEF Noted

LEMMA StillDerived ==
    ASSUME NEW r, NEW tree, NEW read, NEW receipts, NEW extended, receipts \subseteq extended,
           Derived(r, tree, read, receipts)
    PROVE  Derived(r, tree, read, extended)
BY DEF Derived

LEMMA StillSane ==
    ASSUME NEW P, NEW receipts, NEW extended, receipts \subseteq extended, Sane(P, receipts)
    PROVE  Sane(P, extended)
BY StillNoted DEF Sane

\* A command makes each of its calls once, and the export last.
LEMMA CallsAre ==
    ASSUME NEW command
    PROVE  /\ command = "investigate" =>
                 /\ Len(Calls(command)) = 2 /\ Calls(command)[1] = "bind"
                 /\ Calls(command)[2] = "export"
           /\ command = "state build" =>
                 /\ Len(Calls(command)) = 1 /\ Calls(command)[1] = "export"
           /\ command = "plan build" =>
                 /\ Len(Calls(command)) = 5 /\ Calls(command)[1] = "replay"
                 /\ Calls(command)[2] = "load state"
                 /\ Calls(command)[3] = "hash investigation"
                 /\ Calls(command)[4] = "hash state" /\ Calls(command)[5] = "export"
           /\ command = "execute" =>
                 /\ Len(Calls(command)) = 5 /\ Calls(command)[1] = "load plan"
                 /\ Calls(command)[2] = "initialize" /\ Calls(command)[3] = "commit"
                 /\ Calls(command)[4] = "export state" /\ Calls(command)[5] = "export"
           /\ command = "observations build" =>
                 /\ Len(Calls(command)) = 3 /\ Calls(command)[1] = "derive"
                 /\ Calls(command)[2] = "check" /\ Calls(command)[3] = "export"
           /\ command = "evaluate" =>
                 /\ Len(Calls(command)) = 4 /\ Calls(command)[1] = "load observations"
                 /\ Calls(command)[2] = "load execution"
                 /\ Calls(command)[3] = "hash observations"
                 /\ Calls(command)[4] = "export"
<1>1. command = "investigate" =>
        /\ Len(Calls(command)) = 2 /\ Calls(command)[1] = "bind"
        /\ Calls(command)[2] = "export"
  BY DEF Calls
<1>2. command = "state build" =>
        /\ Len(Calls(command)) = 1 /\ Calls(command)[1] = "export"
  BY DEF Calls
<1>3. command = "plan build" =>
        /\ Len(Calls(command)) = 5 /\ Calls(command)[1] = "replay"
        /\ Calls(command)[2] = "load state"
        /\ Calls(command)[3] = "hash investigation"
        /\ Calls(command)[4] = "hash state" /\ Calls(command)[5] = "export"
  BY DEF Calls
<1>4. command = "execute" =>
        /\ Len(Calls(command)) = 5 /\ Calls(command)[1] = "load plan"
        /\ Calls(command)[2] = "initialize" /\ Calls(command)[3] = "commit"
        /\ Calls(command)[4] = "export state" /\ Calls(command)[5] = "export"
  BY DEF Calls
<1>5. command = "observations build" =>
        /\ Len(Calls(command)) = 3 /\ Calls(command)[1] = "derive"
        /\ Calls(command)[2] = "check" /\ Calls(command)[3] = "export"
  BY DEF Calls
<1>6. command = "evaluate" =>
        /\ Len(Calls(command)) = 4 /\ Calls(command)[1] = "load observations"
        /\ Calls(command)[2] = "load execution"
        /\ Calls(command)[3] = "hash observations"
        /\ Calls(command)[4] = "export"
  BY DEF Calls
<1> QED BY <1>1, <1>2, <1>3, <1>4, <1>5, <1>6

LEMMA CallsOf ==
    ASSUME NEW command \in Commands
    PROVE  /\ Len(Calls(command)) \in Nat \ {0}
           /\ Calls(command)[Len(Calls(command))] = "export"
           /\ \A i \in 1..Len(Calls(command)) :
                 /\ Calls(command)[i] \in Call
                 /\ Calls(command)[i] = "export" => i = Len(Calls(command))
           /\ \A i, j \in 1..Len(Calls(command)) :
                 Calls(command)[i] = Calls(command)[j] => i = j
<1>1. CASE command = "investigate"
  <2>1. /\ Len(Calls(command)) = 2 /\ Calls(command)[1] = "bind"
        /\ Calls(command)[2] = "export"
    BY <1>1, CallsAre
  <2>2. \A i \in 1..2 : i = 1 \/ i = 2
    OBVIOUS
  <2>3. 1..Len(Calls(command)) = 1..2
    BY <2>1
  <2>4. ASSUME NEW i \in 1..2
        PROVE  Calls(command)[i] \in Call /\ (Calls(command)[i] = "export" => i = 2)
    BY <2>1, <2>2 DEF Call
  <2>5. ASSUME NEW i \in 1..2, NEW j \in 1..2, Calls(command)[i] = Calls(command)[j]
        PROVE  i = j
    BY <2>1, <2>2, <2>5
  <2>6. Len(Calls(command)) \in Nat \ {0}
    <3>1. Len(Calls(command)) = 2
      BY <2>1
    <3>2. 2 \in Nat \ {0}
      OBVIOUS
    <3> QED BY <3>1, <3>2
  <2>7. Calls(command)[Len(Calls(command))] = "export"
    BY <2>1
  <2> QED BY <2>1, <2>3, <2>4, <2>5, <2>6, <2>7
<1>2. CASE command = "state build"
  <2>1. /\ Len(Calls(command)) = 1 /\ Calls(command)[1] = "export"
    BY <1>2, CallsAre
  <2>2. \A i \in 1..1 : i = 1
    OBVIOUS
  <2>3. 1..Len(Calls(command)) = 1..1
    BY <2>1
  <2>4. ASSUME NEW i \in 1..1
        PROVE  Calls(command)[i] \in Call /\ (Calls(command)[i] = "export" => i = 1)
    BY <2>1, <2>2 DEF Call
  <2>5. ASSUME NEW i \in 1..1, NEW j \in 1..1, Calls(command)[i] = Calls(command)[j]
        PROVE  i = j
    BY <2>1, <2>2, <2>5
  <2>6. Len(Calls(command)) \in Nat \ {0}
    <3>1. Len(Calls(command)) = 1
      BY <2>1
    <3>2. 1 \in Nat \ {0}
      OBVIOUS
    <3> QED BY <3>1, <3>2
  <2>7. Calls(command)[Len(Calls(command))] = "export"
    BY <2>1
  <2> QED BY <2>1, <2>3, <2>4, <2>5, <2>6, <2>7
<1>3. CASE command = "plan build"
  <2>1. /\ Len(Calls(command)) = 5 /\ Calls(command)[1] = "replay"
        /\ Calls(command)[2] = "load state"
        /\ Calls(command)[3] = "hash investigation"
        /\ Calls(command)[4] = "hash state" /\ Calls(command)[5] = "export"
    BY <1>3, CallsAre
  <2>2. \A i \in 1..5 : i = 1 \/ i = 2 \/ i = 3 \/ i = 4 \/ i = 5
    OBVIOUS
  <2>3. 1..Len(Calls(command)) = 1..5
    BY <2>1
  <2>4. ASSUME NEW i \in 1..5
        PROVE  Calls(command)[i] \in Call /\ (Calls(command)[i] = "export" => i = 5)
    BY <2>1, <2>2 DEF Call
  <2>5. ASSUME NEW i \in 1..5, NEW j \in 1..5, Calls(command)[i] = Calls(command)[j]
        PROVE  i = j
    BY <2>1, <2>2, <2>5
  <2>6. Len(Calls(command)) \in Nat \ {0}
    <3>1. Len(Calls(command)) = 5
      BY <2>1
    <3>2. 5 \in Nat \ {0}
      OBVIOUS
    <3> QED BY <3>1, <3>2
  <2>7. Calls(command)[Len(Calls(command))] = "export"
    BY <2>1
  <2> QED BY <2>1, <2>3, <2>4, <2>5, <2>6, <2>7
<1>4. CASE command = "execute"
  <2>1. /\ Len(Calls(command)) = 5 /\ Calls(command)[1] = "load plan"
        /\ Calls(command)[2] = "initialize" /\ Calls(command)[3] = "commit"
        /\ Calls(command)[4] = "export state" /\ Calls(command)[5] = "export"
    BY <1>4, CallsAre
  <2>2. \A i \in 1..5 : i = 1 \/ i = 2 \/ i = 3 \/ i = 4 \/ i = 5
    OBVIOUS
  <2>3. 1..Len(Calls(command)) = 1..5
    BY <2>1
  <2>4. ASSUME NEW i \in 1..5
        PROVE  Calls(command)[i] \in Call /\ (Calls(command)[i] = "export" => i = 5)
    BY <2>1, <2>2 DEF Call
  <2>5. ASSUME NEW i \in 1..5, NEW j \in 1..5, Calls(command)[i] = Calls(command)[j]
        PROVE  i = j
    BY <2>1, <2>2, <2>5
  <2>6. Len(Calls(command)) \in Nat \ {0}
    <3>1. Len(Calls(command)) = 5
      BY <2>1
    <3>2. 5 \in Nat \ {0}
      OBVIOUS
    <3> QED BY <3>1, <3>2
  <2>7. Calls(command)[Len(Calls(command))] = "export"
    BY <2>1
  <2> QED BY <2>1, <2>3, <2>4, <2>5, <2>6, <2>7
<1>5. CASE command = "observations build"
  <2>1. /\ Len(Calls(command)) = 3 /\ Calls(command)[1] = "derive"
        /\ Calls(command)[2] = "check" /\ Calls(command)[3] = "export"
    BY <1>5, CallsAre
  <2>2. \A i \in 1..3 : i = 1 \/ i = 2 \/ i = 3
    OBVIOUS
  <2>3. 1..Len(Calls(command)) = 1..3
    BY <2>1
  <2>4. ASSUME NEW i \in 1..3
        PROVE  Calls(command)[i] \in Call /\ (Calls(command)[i] = "export" => i = 3)
    BY <2>1, <2>2 DEF Call
  <2>5. ASSUME NEW i \in 1..3, NEW j \in 1..3, Calls(command)[i] = Calls(command)[j]
        PROVE  i = j
    BY <2>1, <2>2, <2>5
  <2>6. Len(Calls(command)) \in Nat \ {0}
    <3>1. Len(Calls(command)) = 3
      BY <2>1
    <3>2. 3 \in Nat \ {0}
      OBVIOUS
    <3> QED BY <3>1, <3>2
  <2>7. Calls(command)[Len(Calls(command))] = "export"
    BY <2>1
  <2> QED BY <2>1, <2>3, <2>4, <2>5, <2>6, <2>7
<1>6. CASE command = "evaluate"
  <2>1. /\ Len(Calls(command)) = 4 /\ Calls(command)[1] = "load observations"
        /\ Calls(command)[2] = "load execution"
        /\ Calls(command)[3] = "hash observations"
        /\ Calls(command)[4] = "export"
    BY <1>6, CallsAre
  <2>2. \A i \in 1..4 : i = 1 \/ i = 2 \/ i = 3 \/ i = 4
    OBVIOUS
  <2>3. 1..Len(Calls(command)) = 1..4
    BY <2>1
  <2>4. ASSUME NEW i \in 1..4
        PROVE  Calls(command)[i] \in Call /\ (Calls(command)[i] = "export" => i = 4)
    BY <2>1, <2>2 DEF Call
  <2>5. ASSUME NEW i \in 1..4, NEW j \in 1..4, Calls(command)[i] = Calls(command)[j]
        PROVE  i = j
    BY <2>1, <2>2, <2>5
  <2>6. Len(Calls(command)) \in Nat \ {0}
    <3>1. Len(Calls(command)) = 4
      BY <2>1
    <3>2. 4 \in Nat \ {0}
      OBVIOUS
    <3> QED BY <3>1, <3>2
  <2>7. Calls(command)[Len(Calls(command))] = "export"
    BY <2>1
  <2> QED BY <2>1, <2>3, <2>4, <2>5, <2>6, <2>7
<1> QED BY <1>1, <1>2, <1>3, <1>4, <1>5, <1>6 DEF Commands

\* The calls that need an earlier one come right where they do.
LEMMA PlaceOf ==
    ASSUME NEW command \in Commands, NEW i \in 1..Len(Calls(command))
    PROVE  /\ Calls(command)[i] = "load execution" => command = "evaluate" /\ i = 2
           /\ Calls(command)[i] = "commit" => command = "execute" /\ i = 3
<1>1. CASE command = "investigate"
  <2>1. i \in 1..2
    BY <1>1, CallsAre
  <2>2. i = 1 \/ i = 2
    BY <2>1
  <2> QED BY <1>1, <2>2, CallsAre
<1>2. CASE command = "state build"
  <2>1. i \in 1..1
    BY <1>2, CallsAre
  <2>2. i = 1
    BY <2>1
  <2> QED BY <1>2, <2>2, CallsAre
<1>3. CASE command = "plan build"
  <2>1. i \in 1..5
    BY <1>3, CallsAre
  <2>2. i = 1 \/ i = 2 \/ i = 3 \/ i = 4 \/ i = 5
    BY <2>1
  <2> QED BY <1>3, <2>2, CallsAre
<1>4. CASE command = "execute"
  <2>1. i \in 1..5
    BY <1>4, CallsAre
  <2>2. i = 1 \/ i = 2 \/ i = 3 \/ i = 4 \/ i = 5
    BY <2>1
  <2> QED BY <1>4, <2>2, CallsAre
<1>5. CASE command = "observations build"
  <2>1. i \in 1..3
    BY <1>5, CallsAre
  <2>2. i = 1 \/ i = 2 \/ i = 3
    BY <2>1
  <2> QED BY <1>5, <2>2, CallsAre
<1>6. CASE command = "evaluate"
  <2>1. i \in 1..4
    BY <1>6, CallsAre
  <2>2. i = 1 \/ i = 2 \/ i = 3 \/ i = 4
    BY <2>1
  <2> QED BY <1>6, <2>2, CallsAre
<1> QED BY <1>1, <1>2, <1>3, <1>4, <1>5, <1>6 DEF Commands

LEMMA StartedIsSane ==
    ASSUME NEW command \in Commands, NEW input, NEW receipts, NEW P,
           P = [command |-> command, input |-> input, at |-> 1, read |-> {},
                got |-> [c \in Call |-> None]]
    PROVE  Sane(P, receipts)
<1>1. 1 \in 1..Len(Calls(command))
  BY CallsOf
<1>2. \A i \in 1..Len(Calls(command)) : ~(i < 1)
  BY CallsOf
<1> QED BY <1>1, <1>2 DEF Sane

\* One more call, of which what it returned is noted.
LEMMA DoneKeepsSane ==
    ASSUME NEW P, NEW receipts, NEW extended, receipts \subseteq extended, Sane(P, receipts),
           NEW call, call = Calls(P.command)[P.at], call # "export",
           NEW read, P.read \subseteq read, NEW got, Noted(call, got, read, extended),
           NEW Q, Q = [P EXCEPT !.at = @ + 1, !.read = read, !.got[call] = got]
    PROVE  Sane(Q, extended)
<1> DEFINE calls == Calls(P.command)
<1>1. P.command \in Commands /\ P.at \in 1..Len(calls)
  BY DEF Sane
<1>2. /\ Len(calls) \in Nat \ {0} /\ call \in Call /\ P.at # Len(calls)
      /\ \A i \in 1..Len(calls) : calls[i] \in Call
      /\ \A i \in 1..Len(calls) : calls[i] = call => i = P.at
  BY <1>1, CallsOf
<1> HIDE DEF calls
<1>3. /\ Q = [command |-> P.command, input |-> P.input, at |-> P.at + 1, read |-> read,
              got |-> [P.got EXCEPT ![call] = got]]
      /\ P.got = [c \in Call |-> P.got[c]]
  BY DEF Sane
<1>4. /\ Q.command = P.command /\ Q.at = P.at + 1 /\ Q.read = read
      /\ Q.got = [P.got EXCEPT ![call] = got]
      /\ Q = [command |-> Q.command, input |-> Q.input, at |-> Q.at, read |-> Q.read,
              got |-> Q.got]
  BY <1>3
<1>5. Q.at \in 1..Len(calls)
  BY <1>1, <1>2, <1>4
<1>6. Q.got = [c \in Call |-> Q.got[c]] /\ Q.got[call] = got
         /\ \A c \in Call : c # call => Q.got[c] = P.got[c]
  BY <1>2, <1>3, <1>4
<1>7. ASSUME NEW i \in 1..Len(calls), i < Q.at
      PROVE  Noted(calls[i], Q.got[calls[i]], Q.read, extended)
  <2>1. CASE i = P.at
    BY <1>4, <1>6, <2>1 DEF calls
  <2>2. CASE i # P.at
    <3>1. i < P.at
      BY <1>1, <1>2, <1>4, <1>7, <2>2
    <3>2. Noted(calls[i], P.got[calls[i]], P.read, receipts)
      BY <3>1 DEF Sane, calls
    <3>3. Q.got[calls[i]] = P.got[calls[i]]
      BY <1>2, <1>6, <2>2
    <3> QED BY <1>4, <3>2, <3>3, StillNoted
  <2> QED BY <2>1, <2>2
<1> QED BY <1>1, <1>4, <1>5, <1>6, <1>7 DEF Sane, calls

LEMMA FilesOfTree ==
    ASSUME NEW source, NEW result, NEW t, t = Tree(source, result)
    PROVE  t.source = source /\ t.result = result /\ t = Tree(t.source, t.result)
BY DEF Tree

LEMMA FilesOfWhole ==
    ASSUME NEW t, t = Tree(t.source, t.result)
    PROVE  /\ Sealed(t) /\ DOMAIN t = File
           /\ t = [manifest |-> t.manifest, source |-> t.source, result |-> t.result,
                   marker |-> t.marker]
BY DEF Tree, Sealed, File

LEMMA StandingSeen ==
    ASSUME NEW S, NEW r \in S, NEW read, read = {<<x, root[x]>> : x \in S}
    PROVE  root[r] \in Seen(read, r)
<1>1. <<r, root[r]>> \in read /\ <<r, root[r]>>[1] = r /\ <<r, root[r]>>[2] = root[r]
  OBVIOUS
<1> QED BY <1>1 DEF Seen

\* What a command that has made all its other calls exports is whole, and
\* follows from what it read.
LEMMA BuiltIsDerived ==
    ASSUME NEW p \in Process, NEW P, P = proc[p], NEW receipts, Sane(P, receipts),
           Calls(P.command)[P.at] = "export", NEW t, t = Built(p)
    PROVE  /\ t = Tree(t.source, t.result)
           /\ Target(P.command) \in Artifact
           /\ Derived(Target(P.command), t, P.read, receipts)
<1>0. P.command \in Commands /\ P.at = Len(Calls(P.command))
  BY CallsOf DEF Sane
<1>1. ASSUME NEW i \in 1..Len(Calls(P.command)), i # Len(Calls(P.command))
      PROVE  Noted(Calls(P.command)[i], P.got[Calls(P.command)[i]], P.read, receipts)
  <2>1. i < P.at
    BY <1>0, <1>1, CallsOf
  <2> QED BY <2>1 DEF Sane
<1>2. CASE P.command = "investigate"
  <2>1. Noted("bind", P.got["bind"], P.read, receipts)
    <3>1. Len(Calls(P.command)) = 2
      BY <1>2, CallsAre
    <3>2. Calls(P.command)[1] = "bind"
      BY <1>2, CallsAre
    <3>3. 1 \in 1..2 /\ 1 # 2
      OBVIOUS
    <3> QED BY <1>1, <3>1, <3>2, <3>3
  <2>2. t = InvestigationTree(P.got["bind"], P.input)
    BY <1>2 DEF Built
  <2>3. t = Tree(t.source, t.result) /\ t.result.of = P.got["bind"]
    BY <2>2 DEF InvestigationTree, Tree
  <2>4. Target(P.command) = "investigation"
    BY <1>2 DEF Target
  <2> QED BY <2>1, <2>3, <2>4 DEF Noted, Derived, Artifact, Root
<1>3. CASE P.command = "state build"
  <2>1. t = StateTree(P.input)
    BY <1>3 DEF Built
  <2>2. t = Tree(t.source, t.result)
    BY <2>1 DEF StateTree, Tree
  <2>3. Target(P.command) = "before"
    BY <1>3 DEF Target
  <2> QED BY <2>2, <2>3 DEF Derived, Artifact, Root
<1>4. CASE P.command = "plan build"
  <2>1. /\ Noted("replay", P.got["replay"], P.read, receipts)
        /\ Noted("load state", P.got["load state"], P.read, receipts)
        /\ Noted("hash investigation", P.got["hash investigation"], P.read, receipts)
        /\ Noted("hash state", P.got["hash state"], P.read, receipts)
    <3>1. Len(Calls(P.command)) = 5
      BY <1>4, CallsAre
    <3>2. Calls(P.command)[1] = "replay"
      BY <1>4, CallsAre
    <3>3. 1 \in 1..5 /\ 1 # 5
      OBVIOUS
    <3>4. Noted("replay", P.got["replay"], P.read, receipts)
      BY <1>1, <3>1, <3>2, <3>3
    <3>5. Calls(P.command)[2] = "load state"
      BY <1>4, CallsAre
    <3>6. 2 \in 1..5 /\ 2 # 5
      OBVIOUS
    <3>7. Noted("load state", P.got["load state"], P.read, receipts)
      BY <1>1, <3>1, <3>5, <3>6
    <3>8. Calls(P.command)[3] = "hash investigation"
      BY <1>4, CallsAre
    <3>9. 3 \in 1..5 /\ 3 # 5
      OBVIOUS
    <3>10. Noted("hash investigation", P.got["hash investigation"], P.read, receipts)
      BY <1>1, <3>1, <3>8, <3>9
    <3>11. Calls(P.command)[4] = "hash state"
      BY <1>4, CallsAre
    <3>12. 4 \in 1..5 /\ 4 # 5
      OBVIOUS
    <3>13. Noted("hash state", P.got["hash state"], P.read, receipts)
      BY <1>1, <3>1, <3>11, <3>12
    <3> QED BY <3>4, <3>7, <3>10, <3>13
  <2>2. t = PlanTree(BuildPlan(P.got["replay"], P.got["load state"], P.input,
                               P.got["hash investigation"], P.got["hash state"]))
    BY <1>4 DEF Built
  <2>3. /\ t = Tree(t.source, t.result) /\ t.source = t.result.proposal
        /\ t.result = BuildPlan(P.got["replay"], P.got["load state"], t.source,
                                P.got["hash investigation"], P.got["hash state"])
    <3>1. PICK plan : plan = BuildPlan(P.got["replay"], P.got["load state"], P.input,
                                       P.got["hash investigation"], P.got["hash state"])
      OBVIOUS
    <3>2. plan.proposal = P.input
      BY <3>1 DEF BuildPlan
    <3>3. t = Tree(P.input, plan)
      BY <2>2, <3>1, <3>2 DEF PlanTree
    <3>4. t.source = P.input /\ t.result = plan
      BY <3>3, FilesOfTree
    <3> QED BY <3>1, <3>2, <3>3, <3>4
  <2>4. \E x, y \in Seen(P.read, "investigation"), l \in Seen(P.read, "signals"),
           u, v \in Seen(P.read, "before") :
           /\ Sealed(x) /\ x.result.of = l /\ Sealed(u)
           /\ t.result = BuildPlan(x.result, u.result, t.source, y.manifest, v.manifest)
    <3>1. PICK x \in Seen(P.read, "investigation"), l \in Seen(P.read, "signals") :
             Sealed(x) /\ x.result.of = l /\ P.got["replay"] = x.result
      BY <2>1 DEF Noted
    <3>2. PICK u \in Seen(P.read, "before") : Sealed(u) /\ P.got["load state"] = u.result
      BY <2>1 DEF Noted
    <3>3. PICK y \in Seen(P.read, "investigation") : P.got["hash investigation"] = y.manifest
      BY <2>1 DEF Noted
    <3>4. PICK v \in Seen(P.read, "before") : P.got["hash state"] = v.manifest
      BY <2>1 DEF Noted
    <3>5. t.result = BuildPlan(x.result, u.result, t.source, y.manifest, v.manifest)
      BY <2>3, <3>1, <3>2, <3>3, <3>4
    <3> QED BY <3>1, <3>2, <3>5
  <2>5. Target(P.command) = "plan"
    BY <1>4 DEF Target
  <2> QED BY <2>3, <2>4, <2>5 DEF Derived, Artifact, Root
<1>5. CASE P.command = "execute"
  <2>1. Noted("commit", P.got["commit"], P.read, receipts)
    <3>1. Len(Calls(P.command)) = 5
      BY <1>5, CallsAre
    <3>2. Calls(P.command)[3] = "commit"
      BY <1>5, CallsAre
    <3>3. 3 \in 1..5 /\ 3 # 5
      OBVIOUS
    <3> QED BY <1>1, <3>1, <3>2, <3>3
  <2>2. t = ExecutionTree(P.got["commit"])
    BY <1>5 DEF Built
  <2>3. t = Tree(t.source, t.result) /\ t.result = P.got["commit"]
    BY <2>2 DEF ExecutionTree, Tree
  <2>4. Target(P.command) = "execution"
    BY <1>5 DEF Target
  <2> QED BY <2>1, <2>3, <2>4 DEF Noted, Derived, Artifact, Root
<1>6. CASE P.command = "observations build"
  <2>1. Noted("derive", P.got["derive"], P.read, receipts)
    <3>1. Len(Calls(P.command)) = 3
      BY <1>6, CallsAre
    <3>2. Calls(P.command)[1] = "derive"
      BY <1>6, CallsAre
    <3>3. 1 \in 1..3 /\ 1 # 3
      OBVIOUS
    <3> QED BY <1>1, <3>1, <3>2, <3>3
  <2>2. t = ObservationsTree(P.got["derive"])
    BY <1>6 DEF Built
  <2>3. t = Tree(t.source, t.result) /\ t.result = P.got["derive"] /\ t.source = t.result.scenario
    BY <2>2 DEF ObservationsTree, Tree
  <2>4. Target(P.command) = "observations"
    BY <1>6 DEF Target
  <2> QED BY <2>1, <2>3, <2>4 DEF Noted, Derived, Artifact, Root
<1>7. CASE P.command = "evaluate"
  <2>1. /\ Noted("load observations", P.got["load observations"], P.read, receipts)
        /\ Noted("load execution", P.got["load execution"], P.read, receipts)
        /\ Noted("hash observations", P.got["hash observations"], P.read, receipts)
    <3>1. Len(Calls(P.command)) = 4
      BY <1>7, CallsAre
    <3>2. Calls(P.command)[1] = "load observations"
      BY <1>7, CallsAre
    <3>3. 1 \in 1..4 /\ 1 # 4
      OBVIOUS
    <3>4. Noted("load observations", P.got["load observations"], P.read, receipts)
      BY <1>1, <3>1, <3>2, <3>3
    <3>5. Calls(P.command)[2] = "load execution"
      BY <1>7, CallsAre
    <3>6. 2 \in 1..4 /\ 2 # 4
      OBVIOUS
    <3>7. Noted("load execution", P.got["load execution"], P.read, receipts)
      BY <1>1, <3>1, <3>5, <3>6
    <3>8. Calls(P.command)[3] = "hash observations"
      BY <1>7, CallsAre
    <3>9. 3 \in 1..4 /\ 3 # 4
      OBVIOUS
    <3>10. Noted("hash observations", P.got["hash observations"], P.read, receipts)
      BY <1>1, <3>1, <3>8, <3>9
    <3> QED BY <3>4, <3>7, <3>10
  <2>2. t = RecoveryTree(P.got["load observations"],
                         EvaluateRecovery(P.got["load observations"], P.got["load execution"],
                                          P.got["hash observations"]))
    BY <1>7 DEF Built
  <2>3. /\ t = Tree(t.source, t.result) /\ t.source = P.got["load observations"]
        /\ t.result = EvaluateRecovery(t.source, P.got["load execution"],
                                       P.got["hash observations"])
    <3>1. PICK report : report = EvaluateRecovery(P.got["load observations"],
                                                  P.got["load execution"],
                                                  P.got["hash observations"])
      OBVIOUS
    <3>2. PICK loaded : loaded = P.got["load observations"]
      OBVIOUS
    <3>3. t = Tree(loaded, report)
      BY <2>2, <3>1, <3>2 DEF RecoveryTree
    <3>4. t.source = loaded /\ t.result = report
      BY <3>3, FilesOfTree
    <3> QED BY <3>1, <3>2, <3>3, <3>4
  <2>4. \E x, y, z \in Seen(P.read, "observations"), e \in Seen(P.read, "execution") :
           /\ Sealed(e) /\ e.manifest = y.result.execution
           /\ t.source = x.result
           /\ t.result = EvaluateRecovery(t.source, e.manifest, z.manifest)
    <3>1. PICK x \in Seen(P.read, "observations") : P.got["load observations"] = x.result
      BY <2>1 DEF Noted
    <3>2. PICK e \in Seen(P.read, "execution"), y \in Seen(P.read, "observations") :
             /\ Sealed(e) /\ P.got["load execution"] = e.manifest
             /\ P.got["load execution"] = y.result.execution
      BY <2>1 DEF Noted
    <3>3. PICK z \in Seen(P.read, "observations") : P.got["hash observations"] = z.manifest
      BY <2>1 DEF Noted
    <3>4. t.source = x.result /\ t.result = EvaluateRecovery(t.source, e.manifest, z.manifest)
      BY <2>3, <3>1, <3>2, <3>3
    <3> QED BY <3>2, <3>4
  <2>5. Target(P.command) = "recovery"
    BY <1>7 DEF Target
  <2> QED BY <2>3, <2>4, <2>5 DEF Derived, Artifact, Root
<1> QED BY <1>0, <1>2, <1>3, <1>4, <1>5, <1>6, <1>7 DEF Commands

-----------------------------------------------------------------------------
(* The invariant holds initially, and every step preserves it.             *)

LEMMA InitImpliesInv == Init => Inv
<1> SUFFICES ASSUME Init PROVE Inv
  OBVIOUS
<1>1. /\ proc = [p \in Process |-> Idle] /\ commands = 0 /\ edits = 0
      /\ builds = [r \in Artifact |->
                      IF root[r] = None THEN {}
                      ELSE {[tree |-> root[r], read |-> {<<s, root[s]>> : s \in SourcesOf(r)}]}]
      /\ store = IF root["before"] = None THEN <<>>
                 ELSE <<root["before"].result, root["after"].result>>
      /\ committed = IF root["execution"] = None THEN {} ELSE {root["execution"].result}
  BY DEF Init
<1>2. Underway
  BY <1>1 DEF Underway
<1>3. DOMAIN builds = Artifact /\ DOMAIN proc = Process
      /\ commands \in 0..MaxCommands /\ edits \in 0..MaxEdits
  BY <1>1, ResponseAssumption
<1>4. FirstLineage \in Lineage /\ FirstLineage # None
  BY ResponseAssumption DEF FirstLineage
<1>5. \A r \in Artifact : r \in Root /\ r # "signals"
  BY DEF Artifact
<1>6. CASE root = [Empty EXCEPT !["signals"] = FirstLineage]
  <2>1. DOMAIN root = Root /\ root["signals"] = FirstLineage /\ \A r \in Artifact : root[r] = None
    BY <1>5, <1>6 DEF Empty, Root
  <2>2. root["before"] = None /\ root["execution"] = None
    BY <2>1 DEF Artifact, Root
  <2>3. store = <<>> /\ committed = {} /\ \A r \in Artifact : builds[r] = {}
    BY <1>1, <2>1, <2>2
  <2>4. Stored /\ \A i \in DOMAIN store : store[i].generation = i - 1
    BY <2>3 DEF Stored
  <2>5. TypeOK
    BY <1>3, <1>4, <2>1, <2>4 DEF TypeOK
  <2> QED BY <1>2, <2>1, <2>3, <2>4, <2>5 DEF Inv, Committed, Builds, Standing
<1>7. CASE root = FirstResponse
  <2> DEFINE investigation == root["investigation"]
             before == root["before"]
             execution == root["execution"]
             observations == root["observations"]
  <2>1. PICK c, s :
           LET i == InvestigationTree(FirstLineage, c)
               b == StateTree(InitialState(FALSE))
               q == BuildPlan(i.result, b.result,
                              [report |-> i.result, expected |-> FALSE, desired |-> TRUE],
                              i.manifest, b.manifest)
               a == Executed(q, b.result)
               e == ExecutionTree(Receipt(q, b.manifest, a))
               o == ObservationsTree(DeriveObservations(s, FirstLineage, e))
           IN root = [signals |-> FirstLineage, investigation |-> i, before |-> b,
                      plan |-> PlanTree(q), after |-> StateTree(a), execution |-> e,
                      observations |-> o,
                      recovery |-> RecoveryTree(o.result,
                                      EvaluateRecovery(o.result, e.manifest, o.manifest))]
    BY <1>7 DEF FirstResponse, CompleteResponse
  <2>2. /\ DOMAIN root = Root
        /\ root["signals"] = FirstLineage
        /\ investigation = InvestigationTree(FirstLineage, c)
        /\ before = StateTree(InitialState(FALSE))
    BY <2>1 DEF Root
  <2>3. PICK q : q = BuildPlan(investigation.result, before.result,
                               [report |-> investigation.result, expected |-> FALSE,
                                desired |-> TRUE],
                               investigation.manifest, before.manifest)
    OBVIOUS
  <2>4. /\ root["plan"] = PlanTree(q)
        /\ root["after"] = StateTree(Executed(q, before.result))
        /\ execution = ExecutionTree(Receipt(q, before.manifest, Executed(q, before.result)))
    BY <2>1, <2>2, <2>3
  <2>5. /\ observations = ObservationsTree(DeriveObservations(s, FirstLineage, execution))
        /\ root["recovery"] = RecoveryTree(observations.result,
                                 EvaluateRecovery(observations.result, execution.manifest,
                                                  observations.manifest))
    BY <2>1, <2>2, <2>3, <2>4
  <2>6. PICK receipt : receipt = Receipt(q, before.manifest, Executed(q, before.result))
    OBVIOUS
  <2>7. PICK o : o = DeriveObservations(s, FirstLineage, execution)
    OBVIOUS
  <2>8. PICK report : report = EvaluateRecovery(observations.result, execution.manifest,
                                               observations.manifest)
    OBVIOUS
  <2>9. /\ investigation = Tree(None, [of |-> FirstLineage, conclusion |-> c])
        /\ before = Tree(None, InitialState(FALSE))
        /\ root["plan"] = Tree(q.proposal, q)
        /\ root["after"] = Tree(None, Executed(q, before.result))
        /\ execution = Tree(None, receipt)
        /\ observations = Tree(o.scenario, o)
        /\ root["recovery"] = Tree(observations.result, report)
    BY <2>2, <2>4, <2>5, <2>6, <2>7, <2>8
       DEF InvestigationTree, StateTree, PlanTree, ExecutionTree, ObservationsTree, RecoveryTree
  <2> HIDE DEF investigation, before, execution, observations
  <2>10. /\ investigation.result.of = FirstLineage
         /\ before.result = InitialState(FALSE)
         /\ root["plan"].source = q.proposal /\ root["plan"].result = q
         /\ root["after"].result = Executed(q, before.result)
         /\ execution.result = receipt
         /\ observations.source = o.scenario /\ observations.result = o
         /\ root["recovery"].source = observations.result /\ root["recovery"].result = report
    <3>1. investigation.result = [of |-> FirstLineage, conclusion |-> c]
      BY <2>9, FilesOfTree
    <3>2. before.result = InitialState(FALSE)
      <4>1. PICK i : i = InitialState(FALSE)
        OBVIOUS
      <4>2. before = Tree(None, i)
        BY <2>9, <4>1
      <4>3. before.result = i
        BY <4>2, FilesOfTree
      <4> QED BY <4>1, <4>3
    <3>3. root["plan"].source = q.proposal /\ root["plan"].result = q
      BY <2>9, FilesOfTree
    <3>4. root["after"].result = Executed(q, before.result)
      <4>1. PICK a : a = Executed(q, before.result)
        OBVIOUS
      <4>2. root["after"] = Tree(None, a)
        BY <2>9, <4>1
      <4>3. root["after"].result = a
        BY <4>2, FilesOfTree
      <4> QED BY <4>1, <4>3
    <3>5. execution.result = receipt
      BY <2>9, FilesOfTree
    <3>6. observations.source = o.scenario /\ observations.result = o
      BY <2>9, FilesOfTree
    <3>7. root["recovery"].source = observations.result /\ root["recovery"].result = report
      BY <2>9, FilesOfTree
    <3> QED BY <3>1, <3>2, <3>3, <3>4, <3>5, <3>6, <3>7
  <2>11. ASSUME NEW r \in Artifact PROVE root[r] = Tree(root[r].source, root[r].result)
    <3>1. CASE r = "investigation"
      BY <2>9, <3>1, FilesOfTree DEF investigation
    <3>2. CASE r = "before"
      <4>1. PICK i : i = InitialState(FALSE)
        OBVIOUS
      <4>2. root[r] = Tree(None, i)
        BY <2>9, <3>2, <4>1 DEF before
      <4> QED BY <4>2, FilesOfTree
    <3>3. CASE r = "plan"
      BY <2>9, <3>3, FilesOfTree
    <3>4. CASE r = "after"
      <4>1. PICK a : a = Executed(q, before.result)
        OBVIOUS
      <4>2. root[r] = Tree(None, a)
        BY <2>9, <3>4, <4>1
      <4> QED BY <4>2, FilesOfTree
    <3>5. CASE r = "execution"
      BY <2>9, <3>5, FilesOfTree DEF execution
    <3>6. CASE r = "observations"
      BY <2>9, <3>6, FilesOfTree DEF observations
    <3>7. CASE r = "recovery"
      BY <2>9, <3>7, FilesOfTree
    <3> QED BY <3>1, <3>2, <3>3, <3>4, <3>5, <3>6, <3>7 DEF Artifact, Root
  <2>12. \A r \in Artifact : Sealed(root[r])
    BY <2>11, FilesOfWhole
  <2>13. /\ q.proposal = [report |-> investigation.result, expected |-> FALSE, desired |-> TRUE]
         /\ q.before = before.manifest /\ q.status = "awaiting_approval"
    BY <2>3, <2>10 DEF BuildPlan, Allowed, InitialState
  <2>14. Committed
    <3>1. receipt.plan = q /\ receipt.before = before.manifest
             /\ receipt.after = Executed(q, before.result)
      BY <2>6 DEF Receipt
    <3>2. before.manifest = StateTree(before.result).manifest
             /\ before.manifest.result = before.result
      BY <2>9, <2>10 DEF Tree, StateTree
    <3>3. Executable(q, before.result)
      BY <2>10, <2>13, <3>2 DEF Executable, InitialState
    <3>4. \A x \in committed : x = receipt
      BY <1>1, <2>10 DEF execution
    <3> QED BY <3>1, <3>2, <3>3, <3>4 DEF Committed
  <2>15. ASSUME NEW r \in Artifact, NEW b \in builds[r]
         PROVE  b.tree = root[r] /\ b.read = {<<x, root[x]>> : x \in SourcesOf(r)}
                /\ root[r] # None
    BY <1>1
  <2>16. ASSUME NEW r \in Artifact, NEW b \in builds[r]
         PROVE  Derived(r, b.tree, b.read, committed)
    <3>1. \A x \in SourcesOf(r) : root[x] \in Seen(b.read, x)
      BY <2>15, StandingSeen
    <3>2. r = "investigation" => b.tree.result.of \in Seen(b.read, "signals")
      BY <2>2, <2>10, <2>15, <3>1 DEF SourcesOf, investigation
    <3>3. ASSUME r = "plan"
          PROVE  /\ b.tree.source = b.tree.result.proposal
                 /\ \E t, h \in Seen(b.read, "investigation"), l \in Seen(b.read, "signals"),
                       u, g \in Seen(b.read, "before") :
                       /\ Sealed(t) /\ t.result.of = l /\ Sealed(u)
                       /\ b.tree.result = BuildPlan(t.result, u.result, b.tree.source,
                                                    h.manifest, g.manifest)
      <4>1. /\ investigation \in Seen(b.read, "investigation")
            /\ root["signals"] \in Seen(b.read, "signals")
            /\ before \in Seen(b.read, "before")
        BY <3>1, <3>3 DEF SourcesOf, investigation, before
      <4>2. Sealed(investigation) /\ Sealed(before)
        BY <2>12 DEF investigation, before, Artifact, Root
      <4>3. q = BuildPlan(investigation.result, before.result, b.tree.source,
                          investigation.manifest, before.manifest)
        BY <2>3, <2>10, <2>13, <2>15, <3>3
      <4>4. b.tree.result = q /\ b.tree.source = q.proposal
        BY <2>10, <2>15, <3>3
      <4> QED BY <2>2, <2>10, <4>1, <4>2, <4>3, <4>4
    <3>4. r = "execution" =>
             /\ b.tree.result \in committed
             /\ \E t \in Seen(b.read, "plan") :
                   Sealed(t) /\ t.result.proposal = t.source /\ b.tree.result.plan = t.result
      <4>1. "plan" \in Artifact /\ Sealed(root["plan"])
        BY <2>12 DEF Artifact, Root
      <4>2. receipt.plan = q
        BY <2>6 DEF Receipt
      <4> QED BY <1>1, <2>10, <2>15, <3>1, <4>1, <4>2 DEF SourcesOf, execution
    <3>5. r = "observations" =>
             /\ b.tree.source = b.tree.result.scenario
             /\ \E l \in Seen(b.read, "signals"), t \in Seen(b.read, "execution") :
                   Sealed(t) /\ b.tree.result = DeriveObservations(b.tree.source, l, t)
      <4>1. Sealed(execution)
        BY <2>12 DEF Artifact, Root, execution
      <4>2. o.scenario = s
        BY <2>7 DEF DeriveObservations
      <4> QED BY <2>2, <2>7, <2>10, <2>15, <3>1, <4>1, <4>2
              DEF SourcesOf, execution, observations
    <3>6. ASSUME r = "recovery"
          PROVE  \E t, n, h \in Seen(b.read, "observations"), e \in Seen(b.read, "execution") :
                    /\ Sealed(e) /\ e.manifest = n.result.execution
                    /\ b.tree.source = t.result
                    /\ b.tree.result = EvaluateRecovery(b.tree.source, e.manifest, h.manifest)
      <4>1. Sealed(execution)
        BY <2>12 DEF Artifact, Root, execution
      <4>2. observations.result.execution = execution.manifest
        BY <2>7, <2>10 DEF DeriveObservations
      <4>3. observations \in Seen(b.read, "observations") /\ execution \in Seen(b.read, "execution")
        BY <3>1, <3>6 DEF SourcesOf, execution, observations
      <4>4. /\ b.tree.source = observations.result
            /\ b.tree.result = EvaluateRecovery(observations.result, execution.manifest,
                                                observations.manifest)
        BY <2>8, <2>10, <2>15, <3>6
      <4> QED BY <4>1, <4>2, <4>3, <4>4
    <3> QED BY <3>2, <3>3, <3>4, <3>5, <3>6 DEF Derived
  <2>17. Builds
    BY <2>11, <2>15, <2>16 DEF Builds
  <2>18. Standing
    BY <1>1, <2>11, FilesOfWhole DEF Standing
  <2>19. Stored /\ \A i \in DOMAIN store : store[i].generation = i - 1
    <3>1. before.result.generation = 0 /\ root["after"].result.generation = 1
      BY <2>10 DEF InitialState, Executed
    <3>2. CASE root["before"] = None
      <4>1. store = <<>>
        BY <1>1, <3>2
      <4> QED BY <4>1 DEF Stored
    <3>3. CASE root["before"] # None
      <4>1. store = <<before.result, root["after"].result>>
        BY <1>1, <3>3 DEF before
      <4>2. PICK u, v : u = before.result /\ v = root["after"].result
        OBVIOUS
      <4>3. store = <<u, v>> /\ u.generation = 0 /\ v.generation = 1
        BY <3>1, <4>1, <4>2
      <4> QED BY <4>3 DEF Stored
    <3> QED BY <3>2, <3>3
  <2>20. TypeOK
    BY <1>3, <1>4, <2>2, <2>11, <2>19, FilesOfWhole DEF TypeOK
  <2> QED BY <1>2, <2>14, <2>17, <2>18, <2>19, <2>20 DEF Inv
<1> QED BY <1>1, <1>6, <1>7 DEF Init

\* A step of one process, while nothing is published.
LEMMA UnderwayStep ==
    ASSUME Inv, NEW p \in Process, NEW Q, proc' = [proc EXCEPT ![p] = Q],
           Q = Idle \/ Sane(Q, committed'), committed \subseteq committed'
    PROVE  Underway'
<1>1. DOMAIN proc = Process
  BY DEF Inv, TypeOK
<1>2. ASSUME NEW q \in Process, proc'[q] # Idle PROVE Sane(proc'[q], committed')
  <2>1. CASE q = p
    BY <1>1, <1>2, <2>1
  <2>2. CASE q # p
    BY <1>1, <1>2, <2>2, StillSane DEF Inv, Underway
  <2> QED BY <2>1, <2>2
<1> QED BY <1>2 DEF Underway

LEMMA DisksUnchanged ==
    ASSUME Inv, UNCHANGED <<root, builds, edits>>, NEW p \in Process, NEW Q,
           proc' = [proc EXCEPT ![p] = Q], Q = Idle \/ Sane(Q, committed'),
           committed \subseteq committed', commands' \in 0..MaxCommands,
           Stored', Committed', \A i \in DOMAIN store' : store'[i].generation = i - 1
    PROVE  Inv'
<1>1. Underway'
  BY UnderwayStep
<1>2. TypeOK'
  BY DEF Inv, TypeOK
<1>3. Standing'
  BY DEF Inv, Standing
<1>4. Builds'
  BY StillDerived DEF Inv, Builds
<1> QED BY <1>1, <1>2, <1>3, <1>4 DEF Inv

LEMMA StartPreservesInv == ASSUME Inv, NEW p \in Process, Start(p) PROVE Inv'
<1>1. PICK command \in Commands : \E input \in Inputs(command) :
         proc' = [proc EXCEPT ![p] = [command |-> command, input |-> input, at |-> 1,
                                      read |-> {}, got |-> [c \in Call |-> None]]]
  BY DEF Start
<1>2. PICK input \in Inputs(command) :
         proc' = [proc EXCEPT ![p] = [command |-> command, input |-> input, at |-> 1,
                                      read |-> {}, got |-> [c \in Call |-> None]]]
  BY <1>1
<1>3. PICK Q : Q = [command |-> command, input |-> input, at |-> 1,
                    read |-> {}, got |-> [c \in Call |-> None]]
  OBVIOUS
<1>4. Sane(Q, committed')
  BY <1>3, StartedIsSane
<1>5. commands' \in 0..MaxCommands
  BY ResponseAssumption DEF Start, Inv, TypeOK
<1>6. Stored' /\ Committed' /\ \A i \in DOMAIN store' : store'[i].generation = i - 1
  BY DEF Start, Inv, Stored, Committed, TypeOK
<1>7. proc' = [proc EXCEPT ![p] = Q]
  BY <1>2, <1>3
<1> QED BY <1>4, <1>5, <1>6, <1>7, DisksUnchanged DEF Start

\* A call that only reads, and returns what is noted or makes the command fail.
LEMMA CallPreservesInv ==
    ASSUME Inv, NEW p \in Process, NEW call, call # "export", At(p, call),
           NEW sources, NEW result, NEW read,
           read = proc[p].read \cup {<<s, root[s]>> : s \in sources},
           Stop(p) \/ (Done(p, sources, result) /\ Noted(call, result, read, committed')),
           UNCHANGED <<root, builds, commands, edits>>, committed \subseteq committed',
           Stored', Committed', \A i \in DOMAIN store' : store'[i].generation = i - 1
    PROVE  Inv'
<1> DEFINE P == proc[p]
<1>1. Sane(P, committed) /\ call = Calls(P.command)[P.at]
  BY DEF At, Inv, Underway
<1>2. commands' \in 0..MaxCommands
  BY DEF Inv, TypeOK
<1>3. CASE Stop(p)
  <2>1. proc' = [proc EXCEPT ![p] = Idle]
    BY <1>3 DEF Stop
  <2> QED BY <1>2, <2>1, DisksUnchanged
<1>4. CASE Done(p, sources, result) /\ Noted(call, result, read, committed')
  <2>1. PICK Q : Q = [P EXCEPT !.at = @ + 1, !.read = read, !.got[call] = result]
    OBVIOUS
  <2>2. proc' = [proc EXCEPT ![p] = Q]
    <3>1. DOMAIN proc = Process
      BY DEF Inv, TypeOK
    <3>2. proc' = [proc EXCEPT ![p].at = @ + 1,
                               ![p].read = @ \cup {<<s, root[s]>> : s \in sources},
                               ![p].got[Calls(proc[p].command)[proc[p].at]] = result]
      BY <1>4 DEF Done
    <3>3. P = [command |-> P.command, input |-> P.input, at |-> P.at, read |-> P.read,
               got |-> P.got]
      BY <1>1 DEF Sane
    <3> QED BY <1>1, <2>1, <3>1, <3>2, <3>3
  <2>3. Sane(Q, committed')
    <3>1. P.read \subseteq read
      OBVIOUS
    <3> HIDE DEF P
    <3> QED BY <1>1, <1>4, <2>1, <3>1, DoneKeepsSane
  <2> QED BY <1>2, <2>2, <2>3, DisksUnchanged
<1> QED BY <1>3, <1>4

LEMMA ReadPreservesInv ==
    ASSUME Inv, NEW p \in Process, NEW call, call # "export", At(p, call),
           NEW sources, NEW result, NEW read,
           read = proc[p].read \cup {<<s, root[s]>> : s \in sources},
           Stop(p) \/ (Done(p, sources, result) /\ Noted(call, result, read, committed)),
           UNCHANGED <<root, builds, store, committed, commands, edits>>
    PROVE  Inv'
<1>1. Stored' /\ Committed' /\ \A i \in DOMAIN store' : store'[i].generation = i - 1
  BY DEF Inv, Stored, Committed, TypeOK
<1>2. committed' = committed
  OBVIOUS
<1> QED BY <1>1, <1>2, CallPreservesInv

LEMMA SeenNow ==
    ASSUME NEW before, NEW sources, NEW r \in sources, NEW read,
           read = before \cup {<<s, root[s]>> : s \in sources}
    PROVE  root[r] \in Seen(read, r)
<1>1. <<r, root[r]>> \in read /\ <<r, root[r]>>[1] = r /\ <<r, root[r]>>[2] = root[r]
  OBVIOUS
<1> QED BY <1>1 DEF Seen

LEMMA BindPreservesInv == ASSUME Inv, NEW p \in Process, BindSources(p) PROVE Inv'
<1>1. PICK sources : sources = {"signals"}
  OBVIOUS
<1>2. PICK read : read = proc[p].read \cup {<<s, root[s]>> : s \in sources}
  OBVIOUS
<1>3. PICK result : result = root["signals"]
  OBVIOUS
<1>4. Noted("bind", result, read, committed)
  <2>1. root["signals"] \in Seen(read, "signals")
    BY <1>1, <1>2, SeenNow
  <2> QED BY <1>3, <2>1 DEF Noted
<1>5. /\ At(p, "bind") /\ UNCHANGED <<root, builds, store, committed, commands, edits>>
      /\ Stop(p) \/ (Done(p, sources, result) /\ Noted("bind", result, read, committed))
  BY <1>1, <1>3, <1>4 DEF BindSources, Return
<1> QED BY <1>2, <1>5, ReadPreservesInv

LEMMA ReplayPreservesInv == ASSUME Inv, NEW p \in Process, ReplayInvestigation(p) PROVE Inv'
<1>1. PICK sources : sources = {"investigation", "signals"}
  OBVIOUS
<1>2. PICK read : read = proc[p].read \cup {<<s, root[s]>> : s \in sources}
  OBVIOUS
<1>3. PICK result : result = root["investigation"].result
  OBVIOUS
<1>4. Replays(root["investigation"], root["signals"]) => Noted("replay", result, read, committed)
  <2>1. root["investigation"] \in Seen(read, "investigation") /\ root["signals"] \in Seen(read, "signals")
    BY <1>1, <1>2, SeenNow
  <2> QED BY <1>3, <2>1 DEF Noted, Replays, Loads, Sealed
<1>5. /\ At(p, "replay") /\ UNCHANGED <<root, builds, store, committed, commands, edits>>
      /\ Stop(p) \/ (Done(p, sources, result) /\ Noted("replay", result, read, committed))
  BY <1>1, <1>3, <1>4 DEF ReplayInvestigation, Return
<1> QED BY <1>2, <1>5, ReadPreservesInv

LEMMA LoadStatePreservesInv == ASSUME Inv, NEW p \in Process, LoadControlState(p) PROVE Inv'
<1>1. PICK sources : sources = {"before"}
  OBVIOUS
<1>2. PICK read : read = proc[p].read \cup {<<s, root[s]>> : s \in sources}
  OBVIOUS
<1>3. PICK result : result = root["before"].result
  OBVIOUS
<1>4. Loads(root["before"]) => Noted("load state", result, read, committed)
  <2>1. root["before"] \in Seen(read, "before")
    BY <1>1, <1>2, SeenNow
  <2> QED BY <1>3, <2>1 DEF Noted, Loads, Sealed
<1>5. /\ At(p, "load state") /\ UNCHANGED <<root, builds, store, committed, commands, edits>>
      /\ Stop(p) \/ (Done(p, sources, result) /\ Noted("load state", result, read, committed))
  BY <1>1, <1>3, <1>4 DEF LoadControlState, Return
<1> QED BY <1>2, <1>5, ReadPreservesInv

LEMMA HashInvestigationPreservesInv == ASSUME Inv, NEW p \in Process, HashInvestigation(p) PROVE Inv'
<1>1. PICK sources : sources = {"investigation"}
  OBVIOUS
<1>2. PICK read : read = proc[p].read \cup {<<s, root[s]>> : s \in sources}
  OBVIOUS
<1>3. PICK result : result = root["investigation"].manifest
  OBVIOUS
<1>4. Noted("hash investigation", result, read, committed)
  <2>1. root["investigation"] \in Seen(read, "investigation")
    BY <1>1, <1>2, SeenNow
  <2> QED BY <1>3, <2>1 DEF Noted
<1>5. /\ At(p, "hash investigation") /\ UNCHANGED <<root, builds, store, committed, commands, edits>>
      /\ Stop(p) \/ (Done(p, sources, result) /\ Noted("hash investigation", result, read, committed))
  BY <1>1, <1>3, <1>4 DEF HashInvestigation, Return
<1> QED BY <1>2, <1>5, ReadPreservesInv

LEMMA HashStatePreservesInv == ASSUME Inv, NEW p \in Process, HashState(p) PROVE Inv'
<1>1. PICK sources : sources = {"before"}
  OBVIOUS
<1>2. PICK read : read = proc[p].read \cup {<<s, root[s]>> : s \in sources}
  OBVIOUS
<1>3. PICK result : result = root["before"].manifest
  OBVIOUS
<1>4. Noted("hash state", result, read, committed)
  <2>1. root["before"] \in Seen(read, "before")
    BY <1>1, <1>2, SeenNow
  <2> QED BY <1>3, <2>1 DEF Noted
<1>5. /\ At(p, "hash state") /\ UNCHANGED <<root, builds, store, committed, commands, edits>>
      /\ Stop(p) \/ (Done(p, sources, result) /\ Noted("hash state", result, read, committed))
  BY <1>1, <1>3, <1>4 DEF HashState, Return
<1> QED BY <1>2, <1>5, ReadPreservesInv

LEMMA LoadPlanPreservesInv == ASSUME Inv, NEW p \in Process, LoadPlan(p) PROVE Inv'
<1>1. PICK sources : sources = {"plan"}
  OBVIOUS
<1>2. PICK read : read = proc[p].read \cup {<<s, root[s]>> : s \in sources}
  OBVIOUS
<1>3. PICK result : result = root["plan"].result
  OBVIOUS
<1>4. PlanLoads(root["plan"]) => Noted("load plan", result, read, committed)
  <2>1. root["plan"] \in Seen(read, "plan")
    BY <1>1, <1>2, SeenNow
  <2> QED BY <1>3, <2>1 DEF Noted, PlanLoads, Loads, Sealed
<1>5. /\ At(p, "load plan") /\ UNCHANGED <<root, builds, store, committed, commands, edits>>
      /\ Stop(p) \/ (Done(p, sources, result) /\ Noted("load plan", result, read, committed))
  BY <1>1, <1>3, <1>4 DEF LoadPlan, Return
<1> QED BY <1>2, <1>5, ReadPreservesInv

LEMMA DerivePreservesInv == ASSUME Inv, NEW p \in Process, DerivePayload(p) PROVE Inv'
<1>1. PICK sources : sources = {"signals", "execution"}
  OBVIOUS
<1>2. PICK read : read = proc[p].read \cup {<<s, root[s]>> : s \in sources}
  OBVIOUS
<1>3. PICK result : result = DeriveObservations(proc[p].input, root["signals"],
                                        root["execution"])
  OBVIOUS
<1>4. Loads(root["execution"]) => Noted("derive", result, read, committed)
  <2>1. root["signals"] \in Seen(read, "signals") /\ root["execution"] \in Seen(read, "execution")
    BY <1>1, <1>2, SeenNow
  <2> QED BY <1>3, <2>1 DEF Noted, Loads, Sealed, DeriveObservations
<1>5. /\ At(p, "derive") /\ UNCHANGED <<root, builds, store, committed, commands, edits>>
      /\ Stop(p) \/ (Done(p, sources, result) /\ Noted("derive", result, read, committed))
  BY <1>1, <1>3, <1>4 DEF DerivePayload, Return
<1> QED BY <1>2, <1>5, ReadPreservesInv

LEMMA CheckPreservesInv == ASSUME Inv, NEW p \in Process, CheckStaged(p) PROVE Inv'
<1>1. PICK sources : sources = {"signals", "execution"}
  OBVIOUS
<1>2. PICK read : read = proc[p].read \cup {<<s, root[s]>> : s \in sources}
  OBVIOUS
<1>3. PICK result : result = None
  OBVIOUS
<1>4. Noted("check", result, read, committed)
  BY DEF Noted
<1>5. /\ At(p, "check") /\ UNCHANGED <<root, builds, store, committed, commands, edits>>
      /\ Stop(p) \/ (Done(p, sources, result) /\ Noted("check", result, read, committed))
  BY <1>1, <1>3, <1>4 DEF CheckStaged, Return
<1> QED BY <1>2, <1>5, ReadPreservesInv

LEMMA LoadObservationsPreservesInv == ASSUME Inv, NEW p \in Process, LoadObservations(p) PROVE Inv'
<1>1. PICK sources : sources = {"observations", "signals", "execution"}
  OBVIOUS
<1>2. PICK read : read = proc[p].read \cup {<<s, root[s]>> : s \in sources}
  OBVIOUS
<1>3. PICK result : result = root["observations"].result
  OBVIOUS
<1>4. Noted("load observations", result, read, committed)
  <2>1. root["observations"] \in Seen(read, "observations")
    BY <1>1, <1>2, SeenNow
  <2> QED BY <1>3, <2>1 DEF Noted
<1>5. /\ At(p, "load observations") /\ UNCHANGED <<root, builds, store, committed, commands, edits>>
      /\ Stop(p) \/ (Done(p, sources, result) /\ Noted("load observations", result, read, committed))
  BY <1>1, <1>3, <1>4 DEF LoadObservations, Return
<1> QED BY <1>2, <1>5, ReadPreservesInv

LEMMA HashObservationsPreservesInv == ASSUME Inv, NEW p \in Process, HashObservations(p) PROVE Inv'
<1>1. PICK sources : sources = {"observations"}
  OBVIOUS
<1>2. PICK read : read = proc[p].read \cup {<<s, root[s]>> : s \in sources}
  OBVIOUS
<1>3. PICK result : result = root["observations"].manifest
  OBVIOUS
<1>4. Noted("hash observations", result, read, committed)
  <2>1. root["observations"] \in Seen(read, "observations")
    BY <1>1, <1>2, SeenNow
  <2> QED BY <1>3, <2>1 DEF Noted
<1>5. /\ At(p, "hash observations") /\ UNCHANGED <<root, builds, store, committed, commands, edits>>
      /\ Stop(p) \/ (Done(p, sources, result) /\ Noted("hash observations", result, read, committed))
  BY <1>1, <1>3, <1>4 DEF HashObservations, Return
<1> QED BY <1>2, <1>5, ReadPreservesInv

\* The manifest of the execution is that the observations are bound to.
LEMMA LoadExecutionPreservesInv == ASSUME Inv, NEW p \in Process, LoadExecution(p) PROVE Inv'
<1> DEFINE P == proc[p]
           ok == /\ Loads(root["execution"])
                 /\ root["execution"].manifest = P.got["load observations"].execution
<1>1. PICK sources : sources = {"execution"}
  OBVIOUS
<1>2. PICK read : read = P.read \cup {<<s, root[s]>> : s \in sources}
  OBVIOUS
<1>3. PICK result : result = root["execution"].manifest
  OBVIOUS
<1>4. At(p, "load execution") /\ Sane(P, committed)
  BY DEF LoadExecution, At, Inv, Underway
<1>5. Noted("load observations", P.got["load observations"], P.read, committed)
  <2>1. P.command = "evaluate" /\ P.at = 2
    BY <1>4, PlaceOf DEF At, Sane
  <2>2. Calls(P.command)[1] = "load observations"
    BY <2>1, CallsAre
  <2>3. 1 < P.at
    BY <2>1
  <2>4. 1 \in 1..Len(Calls(P.command))
    <3>1. P.command \in Commands
      BY <1>4 DEF Sane
    <3>2. Len(Calls(P.command)) \in Nat \ {0}
      BY <3>1, CallsOf
    <3> QED BY <3>2
  <2>5. Noted(Calls(P.command)[1], P.got[Calls(P.command)[1]], P.read, committed)
    BY <1>4, <2>3, <2>4 DEF Sane
  <2> QED BY <2>2, <2>5
<1>6. ok => Noted("load execution", result, read, committed)
  <2>1. root["execution"] \in Seen(read, "execution")
    BY <1>1, <1>2, SeenNow
  <2>2. PICK t \in Seen(P.read, "observations") : P.got["load observations"] = t.result
    BY <1>5 DEF Noted
  <2>3. t \in Seen(read, "observations")
    BY <1>2, <2>2, StillSeen
  <2> QED BY <1>3, <2>1, <2>2, <2>3 DEF Noted, Loads, Sealed
<1>7. /\ UNCHANGED <<root, builds, store, committed, commands, edits>>
      /\ Stop(p) \/ (Done(p, sources, result) /\ Noted("load execution", result, read, committed))
  BY <1>1, <1>3, <1>6 DEF LoadExecution, Return
<1> QED BY <1>2, <1>4, <1>7, ReadPreservesInv

\* The first state directory begins the lineage of the store.
LEMMA InitializePreservesInv == ASSUME Inv, NEW p \in Process, Initialize(p) PROVE Inv'
<1> DEFINE kept == proc[p].input # None
           given == IF kept THEN proc[p].input ELSE root["before"]
           s == given.result
<1>1. PICK sources : sources = IF kept THEN {} ELSE {"before"}
  OBVIOUS
<1>2. PICK read : read = proc[p].read \cup {<<r, root[r]>> : r \in sources}
  OBVIOUS
<1>3. Noted("initialize", None, read, committed)
  BY DEF Noted
<1>4. /\ At(p, "initialize") /\ UNCHANGED <<root, builds, committed, commands, edits>>
      /\ Stop(p) \/ (Done(p, sources, None) /\ Noted("initialize", None, read, committed))
  BY <1>1, <1>3 DEF Initialize
<1>5. Committed'
  BY <1>4 DEF Inv, Committed
<1>6. Stored' /\ \A i \in DOMAIN store' : store'[i].generation = i - 1
  <2>1. CASE store' = store
    BY <2>1 DEF Inv, Stored, TypeOK
  <2>2. CASE store' = <<s>> /\ s.generation = 0
    <3>1. PICK x : x = s
      OBVIOUS
    <3>2. store' = <<x>> /\ x.generation = 0
      BY <2>2, <3>1
    <3> QED BY <3>2 DEF Stored
  <2>3. store' = store \/ (store' = <<s>> /\ s.generation = 0)
    BY DEF Initialize
  <2> QED BY <2>1, <2>2, <2>3
<1>7. committed' = committed
  BY <1>4
<1> QED BY <1>2, <1>4, <1>5, <1>6, <1>7, CallPreservesInv

\* A state appended to the store.
LEMMA AppendStored ==
    ASSUME Inv, NEW s, s.generation = Len(store), store' = Append(store, s)
    PROVE  Stored' /\ \A i \in DOMAIN store' : store'[i].generation = i - 1
<1> DEFINE S == {store[i] : i \in DOMAIN store}
           T == S \cup {s}
<1>1. store \in Seq(S) /\ DOMAIN store = 1..Len(store) /\ Len(store) \in Nat
  BY DEF Inv, Stored
<1>2. store \in Seq(T) /\ s \in T
  BY <1>1
<1> HIDE DEF S
<1>3. /\ store' \in Seq(T) /\ Len(store') = Len(store) + 1 /\ DOMAIN store' = 1..Len(store')
      /\ \A i \in 1..Len(store) : store'[i] = store[i]
      /\ store'[Len(store) + 1] = s
  BY <1>2
<1>4. \A i \in DOMAIN store' : store'[i].generation = i - 1
  <2>1. \A i \in 1..Len(store) : store[i].generation = i - 1
    BY <1>1 DEF Inv, TypeOK
  <2> QED BY <1>1, <1>3, <2>1
<1>5. store' \in Seq({store'[i] : i \in DOMAIN store'})
  BY <1>3
<1> QED BY <1>3, <1>4, <1>5 DEF Stored

\* State and receipt together, of the plan that was loaded.
LEMMA CommitPreservesInv == ASSUME Inv, NEW p \in Process, Commit(p) PROVE Inv'
<1> DEFINE P == proc[p]
           plan == P.got["load plan"]
           before == store[Len(store)]
           after == Executed(plan, before)
           receipt == Receipt(plan, StateTree(before).manifest, after)
<1>1. At(p, "commit") /\ Sane(P, committed) /\ UNCHANGED <<root, builds, commands, edits>>
  BY DEF Commit, At, Inv, Underway
<1>2. PICK sources : sources = {}
  OBVIOUS
<1>3. PICK read : read = P.read \cup {<<r, root[r]>> : r \in sources}
  OBVIOUS
<1>4. CASE ~(store # <<>> /\ Executable(plan, before))
  <2>1. Stop(p) /\ UNCHANGED <<store, committed>>
    BY <1>4 DEF Commit
  <2> QED BY <1>1, <1>3, <2>1, ReadPreservesInv
<1>5. CASE store # <<>> /\ Executable(plan, before)
  <2>1. /\ store' = Append(store, after) /\ committed' = committed \cup {receipt}
        /\ Done(p, sources, receipt)
    BY <1>2, <1>5 DEF Commit
  <2>2. PICK c : c = receipt
    OBVIOUS
  <2>3. c.plan = plan /\ c.before = StateTree(before).manifest /\ c.after = after
    BY <2>2 DEF Receipt
  <2>4. c.before.result = before
    <3>1. PICK x : x = before
      OBVIOUS
    <3>2. c.before = StateTree(x).manifest
      BY <2>3, <3>1
    <3> QED BY <3>1, <3>2 DEF StateTree, Tree
  <2>5. Committed'
    <3>1. \A x \in committed' : x \in committed \/ x = c
      BY <2>1, <2>2
    <3> HIDE DEF plan, before, after, receipt
    <3>2. Executable(c.plan, c.before.result)
      BY <1>5, <2>3, <2>4
    <3>3. c.before = StateTree(c.before.result).manifest
      BY <2>3, <2>4
    <3>4. c.after = Executed(c.plan, c.before.result)
      BY <2>3, <2>4 DEF after
    <3> QED BY <3>1, <3>2, <3>3, <3>4 DEF Inv, Committed
  <2>6. Stored' /\ \A i \in DOMAIN store' : store'[i].generation = i - 1
    <3>1. Len(store) \in Nat /\ Len(store) \in DOMAIN store
      <4>1. PICK S : store \in Seq(S)
        BY DEF Inv, Stored
      <4>2. Len(store) \in Nat /\ Len(store) # 0
        BY <1>5, <4>1, EmptySeq
      <4>3. DOMAIN store = 1..Len(store)
        BY DEF Inv, Stored
      <4> QED BY <4>2, <4>3
    <3>2. before.generation = Len(store) - 1
      BY <3>1 DEF Inv, TypeOK
    <3>3. after.generation = Len(store)
      BY <3>1, <3>2 DEF Executed
    <3> QED BY <2>1, <3>3, AppendStored
  <2>7. Noted("load plan", plan, P.read, committed)
    <3>1. P.command = "execute" /\ P.at = 3
      BY <1>1, PlaceOf DEF At, Sane
    <3>2. Calls(P.command)[1] = "load plan"
      BY <3>1, CallsAre
    <3>3. 1 < P.at
      BY <3>1
    <3>4. 1 \in 1..Len(Calls(P.command))
      <4>1. P.command \in Commands
        BY <1>1 DEF Sane
      <4>2. Len(Calls(P.command)) \in Nat \ {0}
        BY <4>1, CallsOf
      <4> QED BY <4>2
    <3>5. Noted(Calls(P.command)[1], P.got[Calls(P.command)[1]], P.read, committed)
      BY <1>1, <3>3, <3>4 DEF Sane
    <3> QED BY <3>2, <3>5
  <2>8. Noted("commit", c, read, committed')
    <3>1. c \in committed'
      BY <2>1, <2>2
    <3>2. PICK t \in Seen(P.read, "plan") :
             Sealed(t) /\ t.result.proposal = t.source /\ plan = t.result
      BY <2>7 DEF Noted
    <3>3. t \in Seen(read, "plan")
      BY <1>3, <3>2, StillSeen
    <3>4. c.plan = t.result
      BY <2>3, <3>2
    <3> HIDE DEF plan, before, after, receipt
    <3> QED BY <3>1, <3>2, <3>3, <3>4 DEF Noted
  <2>9. Done(p, sources, c) /\ committed \subseteq committed'
    BY <2>1, <2>2
  <2> HIDE DEF plan, before, after, receipt
  <2> QED BY <1>1, <1>3, <2>5, <2>6, <2>8, <2>9, CallPreservesInv
<1> QED BY <1>4, <1>5

LEMMA AbortPreservesInv == ASSUME Inv, NEW p \in Process, Abort(p) PROVE Inv'
<1>1. /\ UNCHANGED <<root, builds, store, committed, commands, edits>>
      /\ proc' = [proc EXCEPT ![p] = Idle]
  BY DEF Abort, Stop
<1>2. Stored' /\ Committed' /\ \A i \in DOMAIN store' : store'[i].generation = i - 1
  BY <1>1 DEF Inv, Stored, Committed, TypeOK
<1>3. commands' \in 0..MaxCommands
  BY <1>1 DEF Inv, TypeOK
<1> QED BY <1>1, <1>2, <1>3, DisksUnchanged

\* A publication adds a build, and what it puts in place is whole.
LEMMA PublishPreserves ==
    ASSUME Inv, NEW r \in Artifact, NEW tree, NEW read, Publish(r, tree, read),
           tree = Tree(tree.source, tree.result), Derived(r, tree, read, committed),
           UNCHANGED <<store, committed, commands, edits>>, DOMAIN proc' = Process
    PROVE  TypeOK' /\ Stored' /\ Committed' /\ Builds' /\ Standing'
<1>1. PICK b : b = [tree |-> tree, read |-> read]
  OBVIOUS
<1>2. /\ root' = [root EXCEPT ![r] = tree]
      /\ builds' = [builds EXCEPT ![r] = @ \cup {b}]
      /\ b.tree = tree /\ b.read = read
  BY <1>1 DEF Publish
<1>3. DOMAIN root = Root /\ DOMAIN builds = Artifact /\ r \in Root /\ r # "signals"
  BY DEF Inv, TypeOK, Artifact
<1>4. /\ root'[r] = tree /\ b \in builds'[r]
      /\ \A s \in Root : s # r => root'[s] = root[s]
      /\ \A s \in Artifact : s # r => builds'[s] = builds[s]
      /\ \A a \in builds'[r] : a \in builds[r] \/ a = b
  BY <1>2, <1>3
<1>5. /\ DOMAIN tree = File
      /\ tree = [manifest |-> tree.manifest, source |-> tree.source, result |-> tree.result,
                 marker |-> tree.marker]
  BY FilesOfWhole
<1>6. \A s \in Artifact : s \in Root
  BY DEF Artifact
<1>7. TypeOK'
  <2>1. DOMAIN root' = Root /\ DOMAIN builds' = Artifact
    BY <1>2, <1>3
  <2>2. root'["signals"] = root["signals"]
    BY <1>3, <1>4 DEF Root
  <2>3. \A s \in Artifact : root'[s] = None \/ DOMAIN root'[s] = File
    BY <1>4, <1>5, <1>6 DEF Inv, TypeOK
  <2> QED BY <2>1, <2>2, <2>3 DEF Inv, TypeOK
<1>8. Stored' /\ Committed'
  BY DEF Inv, Stored, Committed
<1>9. Builds'
  <2> SUFFICES ASSUME NEW s \in Artifact, NEW a \in builds'[s]
               PROVE  a.tree = Tree(a.tree.source, a.tree.result)
                      /\ Derived(s, a.tree, a.read, committed')
    BY DEF Builds
  <2>1. a \in builds[s] \/ (s = r /\ a = b)
    BY <1>4
  <2> QED BY <1>2, <2>1 DEF Inv, Builds
<1>10. Standing'
  <2> SUFFICES ASSUME NEW s \in Artifact, root'[s] # None
               PROVE  /\ root'[s] = [manifest |-> root'[s].manifest, source |-> root'[s].source,
                                     result |-> root'[s].result, marker |-> root'[s].marker]
                      /\ \E a \in builds'[s] : root'[s].manifest = a.tree.manifest
    BY DEF Standing
  <2>1. CASE s = r
    BY <1>2, <1>4, <1>5, <2>1
  <2>2. CASE s # r
    BY <1>4, <1>6, <2>2 DEF Inv, Standing
  <2> QED BY <2>1, <2>2
<1> QED BY <1>7, <1>8, <1>9, <1>10

LEMMA ExportStatePreservesInv == ASSUME Inv, NEW p \in Process, ExportState(p) PROVE Inv'
<1> DEFINE P == proc[p]
<1>1. At(p, "export state") /\ Sane(P, committed) /\ UNCHANGED <<store, committed, commands, edits>>
  BY DEF ExportState, At, Inv, Underway
<1>2. PICK tree : tree = StateTree(P.got["commit"].after)
  OBVIOUS
<1>3. Publish("after", tree, P.read)
  BY <1>2 DEF ExportState
<1>4. tree = Tree(tree.source, tree.result)
  <2>1. PICK s : s = P.got["commit"].after
    OBVIOUS
  <2>2. tree = Tree(None, s)
    BY <1>2, <2>1 DEF StateTree
  <2> QED BY <2>2, FilesOfTree
<1>5. "after" \in Artifact /\ Derived("after", tree, P.read, committed)
  BY DEF Artifact, Root, Derived
<1>6. PICK read : read = P.read \cup {<<s, root[s]>> : s \in {}}
  OBVIOUS
<1>7. PICK Q : Q = [P EXCEPT !.at = @ + 1, !.read = read, !.got["export state"] = None]
  OBVIOUS
<1>8. DOMAIN proc = Process
  BY DEF Inv, TypeOK
<1>9. proc' = [proc EXCEPT ![p] = Q]
  <2>1. Calls(P.command)[P.at] = "export state"
    BY <1>1 DEF At
  <2>2. proc' = [proc EXCEPT ![p].at = @ + 1,
                             ![p].read = @ \cup {<<s, root[s]>> : s \in {}},
                             ![p].got[Calls(proc[p].command)[proc[p].at]] = None]
    BY DEF ExportState, Done
  <2>3. P = [command |-> P.command, input |-> P.input, at |-> P.at, read |-> P.read,
             got |-> P.got]
    BY <1>1 DEF Sane
  <2> QED BY <1>6, <1>7, <1>8, <2>1, <2>2, <2>3
<1>10. Sane(Q, committed')
  <2>1. PICK call, got : call = "export state" /\ got = None
    OBVIOUS
  <2>2. Noted(call, got, read, committed') /\ P.read \subseteq read
    BY <1>6, <2>1 DEF Noted
  <2>3. call = Calls(P.command)[P.at] /\ call # "export"
    BY <1>1, <2>1 DEF At
  <2>4. committed \subseteq committed'
    BY <1>1
  <2>5. Q = [P EXCEPT !.at = @ + 1, !.read = read, !.got[call] = got]
    BY <1>7, <2>1
  <2>6. Sane(P, committed)
    BY <1>1
  <2> HIDE DEF P
  <2> QED BY <2>2, <2>3, <2>4, <2>5, <2>6, DoneKeepsSane
<1>11. DOMAIN proc' = Process
  BY <1>8, <1>9
<1>12. TypeOK' /\ Stored' /\ Committed' /\ Builds' /\ Standing'
  <2> HIDE DEF P
  <2> QED BY <1>1, <1>3, <1>4, <1>5, <1>11, PublishPreserves
<1>13. Underway'
  BY <1>1, <1>9, <1>10, UnderwayStep
<1> QED BY <1>12, <1>13 DEF Inv

LEMMA ExportPreservesInv == ASSUME Inv, NEW p \in Process, Export(p) PROVE Inv'
<1>1. PICK P : P = proc[p]
  OBVIOUS
<1>2. /\ Calls(P.command)[P.at] = "export" /\ Sane(P, committed)
      /\ UNCHANGED <<store, committed, commands, edits>>
      /\ proc' = [proc EXCEPT ![p] = Idle]
  BY <1>1 DEF Export, At, Stop, Inv, Underway
<1>3. PICK tree : tree = Built(p)
  OBVIOUS
<1>4. PICK r : r = Target(P.command)
  OBVIOUS
<1>5. Publish(r, tree, P.read)
  BY <1>1, <1>3, <1>4 DEF Export
<1>6. tree = Tree(tree.source, tree.result) /\ r \in Artifact /\ Derived(r, tree, P.read, committed)
  BY <1>1, <1>2, <1>3, <1>4, BuiltIsDerived
<1>7. DOMAIN proc' = Process
  BY <1>2 DEF Inv, TypeOK
<1>8. TypeOK' /\ Stored' /\ Committed' /\ Builds' /\ Standing'
  BY <1>2, <1>5, <1>6, <1>7, PublishPreserves
<1>9. Underway'
  BY <1>2, UnderwayStep
<1> QED BY <1>8, <1>9 DEF Inv

\* Other signals: what was built of the earlier ones keeps saying so.
LEMMA RepublishPreservesInv == ASSUME Inv, Republish PROVE Inv'
<1>1. PICK l \in Lineage : root' = [root EXCEPT !["signals"] = l]
  BY DEF Republish
<1>2. /\ UNCHANGED <<builds, store, committed, proc, edits>> /\ commands' \in 0..MaxCommands
  BY ResponseAssumption DEF Republish, Inv, TypeOK
<1>3. DOMAIN root = Root /\ "signals" \in Root
  BY DEF Inv, TypeOK, Root
<1>4. DOMAIN root' = Root /\ root'["signals"] = l /\ \A r \in Artifact : root'[r] = root[r]
  BY <1>1, <1>3 DEF Artifact
<1>5. TypeOK'
  BY <1>2, <1>4 DEF Inv, TypeOK
<1>6. Standing'
  BY <1>2, <1>4 DEF Inv, Standing
<1>7. Stored' /\ Committed' /\ Builds' /\ Underway'
  BY <1>2 DEF Inv, Stored, Committed, Builds, Underway
<1> QED BY <1>5, <1>6, <1>7 DEF Inv

\* A file of a published tree is put back while no command runs.
LEMMA RestorePreservesInv ==
    ASSUME Inv, NEW r \in Artifact, NEW file \in File, RestoreFile(r, file)
    PROVE  Inv'
<1>1. PICK g \in Published(r) : root' = [root EXCEPT ![r][file] = g[file]]
  BY DEF RestoreFile
<1>2. PICK b \in builds[r] : g = b.tree
  BY <1>1 DEF Published
<1>3. /\ root[r] # None /\ UNCHANGED <<builds, store, committed, proc, commands>>
      /\ edits' \in 0..MaxEdits
  BY ResponseAssumption DEF RestoreFile, Inv, TypeOK
<1>4. DOMAIN root = Root /\ r \in Root /\ r # "signals" /\ DOMAIN root[r] = File
  BY <1>3 DEF Inv, TypeOK, Artifact
<1>5. /\ DOMAIN root' = Root
      /\ \A s \in Root : s # r => root'[s] = root[s]
      /\ root'[r] = [root[r] EXCEPT ![file] = b.tree[file]]
  BY <1>1, <1>2, <1>4
<1>6. root[r] = [manifest |-> root[r].manifest, source |-> root[r].source,
                 result |-> root[r].result, marker |-> root[r].marker]
  BY <1>3 DEF Inv, Standing
<1>7. DOMAIN root'[r] = File
  BY <1>4, <1>5
<1>8. root'[r] = [manifest |-> root'[r].manifest, source |-> root'[r].source,
                  result |-> root'[r].result, marker |-> root'[r].marker]
  BY <1>5, <1>6 DEF File
<1>9. root'[r].manifest = root[r].manifest \/ root'[r].manifest = b.tree.manifest
  BY <1>4, <1>5 DEF File
<1>10. \E a \in builds'[r] : root'[r].manifest = a.tree.manifest
  BY <1>3, <1>9 DEF Inv, Standing
<1>11. \A s \in Artifact : s \in Root
  BY DEF Artifact
<1>12. Standing'
  <2> SUFFICES ASSUME NEW s \in Artifact, root'[s] # None
               PROVE  /\ root'[s] = [manifest |-> root'[s].manifest, source |-> root'[s].source,
                                     result |-> root'[s].result, marker |-> root'[s].marker]
                      /\ \E a \in builds'[s] : root'[s].manifest = a.tree.manifest
    BY DEF Standing
  <2>1. CASE s = r
    BY <1>8, <1>10, <2>1
  <2>2. CASE s # r
    BY <1>3, <1>5, <1>11, <2>2 DEF Inv, Standing
  <2> QED BY <2>1, <2>2
<1>13. TypeOK'
  <2>1. root'["signals"] = root["signals"]
    BY <1>4, <1>5 DEF Root
  <2>2. \A s \in Artifact : root'[s] = None \/ DOMAIN root'[s] = File
    BY <1>5, <1>7, <1>11 DEF Inv, TypeOK
  <2> QED BY <1>3, <1>5, <2>1, <2>2 DEF Inv, TypeOK
<1>14. Stored' /\ Committed' /\ Builds' /\ Underway'
  BY <1>3 DEF Inv, Stored, Committed, Builds, Underway
<1> QED BY <1>12, <1>13, <1>14 DEF Inv

LEMMA StutterPreservesInv == Inv /\ UNCHANGED vars => Inv'
BY DEF Inv, TypeOK, Stored, Committed, Builds, Standing, Underway, vars

LEMMA NextPreservesInv == Inv /\ [Next]_vars => Inv'
<1> SUFFICES ASSUME Inv, [Next]_vars PROVE Inv'
  OBVIOUS
<1>1. ASSUME NEW p \in Process, Start(p) \/ BindSources(p) \/ Export(p) \/ Abort(p)
      PROVE  Inv'
  BY <1>1, StartPreservesInv, BindPreservesInv, ExportPreservesInv, AbortPreservesInv
<1>2. ASSUME NEW p \in Process, Plan(p) PROVE Inv'
  BY <1>2, ReplayPreservesInv, LoadStatePreservesInv, HashInvestigationPreservesInv,
     HashStatePreservesInv DEF Plan
<1>3. ASSUME NEW p \in Process, Execute(p) PROVE Inv'
  BY <1>3, LoadPlanPreservesInv, InitializePreservesInv, CommitPreservesInv,
     ExportStatePreservesInv DEF Execute
<1>4. ASSUME NEW p \in Process, Recover(p) PROVE Inv'
  BY <1>4, DerivePreservesInv, CheckPreservesInv, LoadObservationsPreservesInv,
     LoadExecutionPreservesInv, HashObservationsPreservesInv DEF Recover
<1> QED
  BY <1>1, <1>2, <1>3, <1>4, RepublishPreservesInv, RestorePreservesInv, StutterPreservesInv
     DEF Next

-----------------------------------------------------------------------------
(* The theorems.                                                           *)

\* Whatever the processes do, the commands keep this invariant.
THEOREM Invariance == Spec => []Inv
<1> QED BY InitImpliesInv, NextPreservesInv, PTL DEF Spec

\* Every directory is absent or made of the files of an artifact, and the
\* transaction store numbers its generations from zero
\* (remediation/state_store.py:229).
THEOREM TypeCorrect == Spec => []TypeOK
<1>1. Inv => TypeOK
  BY DEF Inv
<1> QED BY <1>1, Invariance, PTL

\* What loads is a tree that was published whole (remediation/artifact.py:239).
THEOREM LoadedArtifactsAreWhole == Spec => []LoadedIsWhole
<1> QED BY InvImpliesLoadedIsWhole, Invariance, PTL

\* A response the control room calls healthy is one story
\* (tui/workspace.py:339, :455), whatever of it the workspace configures.
THEOREM HealthyResponsesAreOneStory == Spec => [](\A w \in SUBSET Root : OneStory(w))
<1>1. Inv => \A w \in SUBSET Root : OneStory(w)
  BY InvImpliesOneStory
<1> QED BY <1>1, Invariance, PTL

\* The same of the workspaces the runs look at.
THEOREM HealthyWorkspacesAreOneStory == Spec => []HealthyIsOneStory
<1>1. Inv => HealthyIsOneStory
  BY InvImpliesOneStory DEF HealthyIsOneStory
<1> QED BY <1>1, Invariance, PTL

\* When everything the builder of each directory had read still stands and no
\* file was exchanged, the control room finds nothing wrong
\* (tui/workspace.py:588).
THEOREM UndisturbedResponsesAreHealthy == Spec => []UndisturbedIsHealthy
<1> QED BY InvImpliesUndisturbedIsHealthy, Invariance, PTL
=============================================================================
