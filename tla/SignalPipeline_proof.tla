------------------------ MODULE SignalPipeline_proof ------------------------
(***************************************************************************)
(* Theorems about the build commands of the signal artifacts: what         *)
(* validates was published whole, what the control room calls healthy was  *)
(* computed from what stands beside it, and what nobody disturbed is       *)
(* healthy - for any number of processes, builds and files put back.       *)
(***************************************************************************)
EXTENDS SignalPipeline, TLAPS

-----------------------------------------------------------------------------
(* The inductive invariant.                                                *)

(* A tree as the exporters leave it.  Only that of the dataset and the     *)
(* analytics say in their own manifest what their tables were computed     *)
(* from; evidence is never built without a dataset.                        *)
Whole(s, tree) ==
    /\ tree = IF s = "dataset" THEN DatasetTree(tree.manifest) ELSE SealedTree(tree.manifest)
    /\ s = "dataset" => tree.manifest.tables = Simulated(tree.manifest.config)
    /\ s = "analytics" =>
          tree.manifest.tables = Analysed(Simulated(tree.manifest.simulation), tree.manifest.config)
    /\ s = "evidence" => "dataset" \in DOMAIN tree.manifest.hash

(* What a builder had read: the sources, whether each stood still, and the *)
(* tree each of them then was.                                             *)
Sources(read) == {x[1] : x \in read}
Settled(read) == \A x, y \in read : x[1] = y[1] => x[2] = y[2]
Given(read) == [s \in Sources(read) |-> (CHOOSE x \in read : x[1] = s)[2]]

(* A build whose sources stood still is one that read them all at once.    *)
Derived(s, b) ==
    /\ Sources(b.read) \in SourceSets(s)
    /\ s # "dataset" /\ Settled(b.read) => b.tree = Fresh(s, Given(b.read))
    /\ s = "impact" /\ Settled(b.read) =>
          Given(b.read)["dataset"].manifest.config.window \in CoveredWindows

Builds == \A s \in Stage : \A b \in builds[s] : Whole(s, b.tree) /\ Derived(s, b)

(* What stands is made of files, and its manifest was published.           *)
Standing ==
    \A s \in Stage : root[s] # None =>
        /\ root[s] = [manifest |-> root[s].manifest, tables |-> root[s].tables,
                      config |-> root[s].config, marker |-> root[s].marker]
        /\ \E b \in builds[s] : root[s].manifest = b.tree.manifest

Field == {"stage", "config", "overwrite", "todo", "loaded", "hash", "read"}
Call == [op : {"check", "load", "hash"}, stage : Stage]

(* What has been loaded and hashed is what was read of it.                 *)
Left(T, call) == \E i \in 1..Len(T) : T[i] = call
LoadNoticed(P, s) == Left(P.todo, Step("load", s)) \/ <<s, P.loaded[s]>> \in P.read
HashNoticed(P, s) ==
    Left(P.todo, Step("hash", s)) \/ \E x \in P.read : x[1] = s /\ P.hash[s] = x[2].manifest

(* The analytics builder loads a dataset it has validated, and nobody puts *)
(* a file back while it runs.                                              *)
Intact(tree) == tree.tables = Simulated(tree.manifest.config)

Validated(P, dataset) ==
    P.stage = "analytics" =>
        \/ P.todo = AnalyticsSteps
        \/ P.todo = Tail(AnalyticsSteps) /\ Intact(dataset)
        \/ P.todo \in {Tail(Tail(AnalyticsSteps)), <<>>} /\ Intact(P.loaded["dataset"])

(* A build under way, beside a dataset that stands.                        *)
Sane(P, dataset) ==
    /\ DOMAIN P = Field
    /\ P.stage \in Stage
    /\ P.config \in Configs(P.stage)
    /\ P.todo \in Seq(Call)
    /\ DOMAIN P.loaded \in SourceSets(P.stage)
    /\ P.loaded = [s \in DOMAIN P.loaded |-> P.loaded[s]]
    /\ P.hash = [s \in DOMAIN P.loaded |-> P.hash[s]]
    /\ \A i \in 1..Len(P.todo) : P.todo[i].stage \in DOMAIN P.loaded
    /\ \A x \in P.read : x[1] \in DOMAIN P.loaded
    /\ \A s \in DOMAIN P.loaded : LoadNoticed(P, s) /\ HashNoticed(P, s)
    /\ Validated(P, dataset)

Underway == \A p \in Process : proc[p] # Idle => Sane(proc[p], root["dataset"])

Inv == TypeOK /\ Builds /\ Standing /\ Underway

-----------------------------------------------------------------------------
(* Consequences of the invariant.                                          *)

\* What is valid on its own, at the path of any stage.
LEMMA AloneIsSealed ==
    ASSUME NEW s \in Stage, root[s] # None,
           IF s = "dataset" THEN DatasetValid(root[s])
           ELSE IF s = "evidence"
           THEN EvidenceValid(root[s], Only(root, Stage \ {"evidence"}))
           ELSE SourceValid(s, root[s], Only(root, {}))
    PROVE  /\ s = "dataset" => DatasetValid(root[s])
           /\ s # "dataset" => Sealed(root[s])
<1>1. CASE s = "dataset"
  BY <1>1
<1>2. CASE s = "evidence"
  BY <1>2 DEF EvidenceValid
<1>3. CASE s \in {"analytics", "detection", "impact"}
  BY <1>3 DEF SourceValid, AnalyticsValid, DetectionValid, ImpactValid
<1> QED BY <1>1, <1>2, <1>3 DEF Stage

\* A mixture of the files of two generations does not validate: the marker and
\* the manifest agree on everything else, and the manifest was published.
LEMMA InvImpliesValidIsWhole == Inv => ValidIsWhole
<1> SUFFICES ASSUME Inv, NEW s \in Stage, root[s] # None,
                    IF s = "dataset" THEN DatasetValid(root[s])
                    ELSE IF s = "evidence"
                    THEN EvidenceValid(root[s], Only(root, Stage \ {"evidence"}))
                    ELSE SourceValid(s, root[s], Only(root, {}))
             PROVE  root[s] \in Published(s)
  BY DEF ValidIsWhole
<1>1. PICK b \in builds[s] : root[s].manifest = b.tree.manifest
  BY DEF Inv, Standing
<1>2. root[s] = [manifest |-> root[s].manifest, tables |-> root[s].tables,
                 config |-> root[s].config, marker |-> root[s].marker]
  BY DEF Inv, Standing
<1>3. Whole(s, b.tree)
  BY <1>1 DEF Inv, Builds
<1>4. CASE s = "dataset"
  <2>1. DatasetValid(root[s])
    BY <1>4
  <2>2. root[s] = DatasetTree(root[s].manifest)
    BY <1>2, <2>1 DEF DatasetValid, MatchesManifest, DatasetTree
  <2>3. b.tree = DatasetTree(b.tree.manifest)
    BY <1>3, <1>4 DEF Whole
  <2> QED BY <1>1, <2>2, <2>3 DEF Published
<1>5. CASE s # "dataset"
  <2>1. Sealed(root[s])
    BY <1>5, AloneIsSealed
  <2>2. root[s] = SealedTree(root[s].manifest)
    BY <1>2, <2>1 DEF Sealed, MatchesManifest, SealedTree
  <2>3. b.tree = SealedTree(b.tree.manifest)
    BY <1>3, <1>5 DEF Whole
  <2> QED BY <1>1, <2>2, <2>3 DEF Published
<1> QED BY <1>4, <1>5

\* The status of every configured stage of a healthy workspace.
LEMMA HealthyStages ==
    ASSUME NEW w, Overall(SignalStatuses(w, root)) = "healthy"
    PROVE  /\ AnalyticsStage(w, root) \in {"healthy", "not_configured"}
           /\ ImpactStage(w, root) \in {"healthy", "not_configured"}
           /\ EvidenceStage(w, root) \in {"healthy", "not_configured"}
<1> DEFINE T == SignalStatuses(w, root)
<1>1. T \cap {"error", "missing"} = {} /\ "warning" \notin T
  BY DEF Overall
<1>2. \A v, a : ReportStage(v, a) \in {"error", "healthy", "warning"}
  BY DEF ReportStage
<1>3. \A c, e, x : x \in {"error", "healthy", "warning"} =>
         StageStatus(c, e, x) \in {"error", "healthy", "warning", "missing", "not_configured"}
  BY DEF StageStatus
<1>4. AnalyticsStage(w, root) \in T /\ ImpactStage(w, root) \in T /\ EvidenceStage(w, root) \in T
  BY DEF SignalStatuses
<1>5. AnalyticsStage(w, root) \in {"error", "healthy", "warning", "missing", "not_configured"}
  BY <1>2, <1>3 DEF AnalyticsStage
<1>6. ImpactStage(w, root) \in {"error", "healthy", "warning", "missing", "not_configured"}
  BY <1>2, <1>3 DEF ImpactStage
<1>7. EvidenceStage(w, root) \in {"error", "healthy", "warning", "missing", "not_configured"}
  BY <1>2, <1>3 DEF EvidenceStage
<1> QED BY <1>1, <1>4, <1>5, <1>6, <1>7

LEMMA HealthyStage ==
    ASSUME NEW configured \in BOOLEAN, NEW present \in BOOLEAN, NEW valid \in BOOLEAN,
           NEW authoritative \in BOOLEAN, configured,
           StageStatus(configured, present, ReportStage(valid, authoritative))
              \in {"healthy", "not_configured"}
    PROVE  present /\ valid /\ authoritative
BY DEF StageStatus, ReportStage

\* A stage called healthy stands beside the tables it was computed from: of the
\* analytics that follows from the digest of the simulation they are bound to,
\* of impact and evidence from the rebuild in their validators.
LEMMA InvImpliesHealthyIsDerived == Inv => HealthyIsDerived
<1> SUFFICES ASSUME Inv, NEW w \in Workspaces,
                    Overall(SignalStatuses(w, root)) = "healthy",
                    NEW s \in w \ {"dataset", "detection"}
             PROVE  DerivedFrom(root[s], root[SourceOf(s)])
  BY DEF HealthyIsDerived
<1>1. DOMAIN root = Stage /\ w \subseteq Stage
  BY DEF Inv, TypeOK, Workspaces
<1>2. SourceOf(s) = "dataset"
  BY DEF SourceOf
<1>3. CASE s = "analytics"
  <2> DEFINE tree == root["analytics"]
             source == Only(root, w \cap {"dataset"})
             dataset == root["dataset"]
  <2>1. tree # None /\ AnalyticsValid(tree, source) /\ "dataset" \in w
    <3>1. AnalyticsValid(tree, source) \in BOOLEAN
      BY DEF AnalyticsValid, Sealed, DatasetValid, MatchesManifest
    <3>2. ("analytics" \in w) /\ ("analytics" \in w) \in BOOLEAN
      BY <1>3
    <3>3. (tree # None) \in BOOLEAN /\ ("dataset" \in w) \in BOOLEAN
      OBVIOUS
    <3>4. AnalyticsStage(w, root) \in {"healthy", "not_configured"}
      BY HealthyStages
    <3> QED BY <3>1, <3>2, <3>3, <3>4, HealthyStage DEF AnalyticsStage
  <2>2. "dataset" \in DOMAIN source /\ source["dataset"] = dataset
    BY <1>1, <2>1 DEF Only
  <2>3. Sealed(tree) /\ DatasetValid(dataset) /\ dataset.manifest.config = tree.manifest.simulation
    BY <2>1, <2>2 DEF AnalyticsValid
  <2>4. dataset # None /\ dataset.tables = dataset.manifest.tables /\ tree.tables = tree.manifest.tables
    BY <2>3 DEF DatasetValid, Sealed, MatchesManifest
  <2>5. dataset.manifest.tables = Simulated(dataset.manifest.config)
    BY <2>4 DEF Inv, Standing, Builds, Whole, Stage
  <2>6. tree.manifest.tables = Analysed(Simulated(tree.manifest.simulation), tree.manifest.config)
    BY <2>1 DEF Inv, Standing, Builds, Whole, Stage
  <2>7. tree.tables.of = dataset.tables
    BY <2>3, <2>4, <2>5, <2>6 DEF Analysed
  <2> QED BY <1>2, <1>3, <2>4, <2>7 DEF DerivedFrom
<1>4. CASE s = "impact"
  <2> DEFINE tree == root["impact"]
             source == Only(root, w \cap {"dataset"})
             dataset == root["dataset"]
  <2>1. tree # None /\ ImpactValid(tree, source) /\ "dataset" \in w
    <3>1. ImpactValid(tree, source) \in BOOLEAN
      BY DEF ImpactValid, Sealed, ImpactRebuilt, MatchesManifest
    <3>2. ("impact" \in w) /\ ("impact" \in w) \in BOOLEAN
      BY <1>4
    <3>3. (tree # None) \in BOOLEAN /\ ("dataset" \in w) \in BOOLEAN
      OBVIOUS
    <3>4. ImpactStage(w, root) \in {"healthy", "not_configured"}
      BY HealthyStages
    <3> QED BY <3>1, <3>2, <3>3, <3>4, HealthyStage DEF ImpactStage
  <2>2. "dataset" \in DOMAIN source /\ source["dataset"] = dataset
    BY <1>1, <2>1 DEF Only
  <2>3. dataset # None /\ tree.tables = Measured(dataset.tables, tree.config)
    BY <2>1, <2>2 DEF ImpactValid, ImpactRebuilt
  <2> QED BY <1>2, <1>4, <2>3 DEF DerivedFrom, Measured
<1>5. CASE s = "evidence"
  <2> DEFINE tree == root["evidence"]
             source == Only(root, w \ {"evidence"})
             dataset == root["dataset"]
  <2>1. tree # None /\ EvidenceValid(tree, source) /\ w \ {"evidence"} = DOMAIN tree.manifest.hash
    <3>1. EvidenceValid(tree, source) \in BOOLEAN
      BY DEF EvidenceValid, Sealed, EvidenceRebuilt, MatchesManifest
    <3>2. ("evidence" \in w) /\ ("evidence" \in w) \in BOOLEAN
      BY <1>5
    <3>3. (tree # None) \in BOOLEAN /\ (w \ {"evidence"} = DOMAIN tree.manifest.hash) \in BOOLEAN
      OBVIOUS
    <3>4. EvidenceStage(w, root) \in {"healthy", "not_configured"}
      BY HealthyStages
    <3>5. EvidenceStage(w, root) =
             StageStatus("evidence" \in w, tree # None,
                         ReportStage(EvidenceValid(tree, source),
                                     w \ {"evidence"} = DOMAIN tree.manifest.hash))
      BY DEF EvidenceStage
    <3> HIDE DEF tree, source
    <3> QED BY <3>1, <3>2, <3>3, <3>4, <3>5, HealthyStage
  <2>2. "dataset" \in DOMAIN tree.manifest.hash
    BY <2>1 DEF Inv, Standing, Builds, Whole, Stage
  <2>3. "dataset" \in DOMAIN source /\ source["dataset"] = dataset
    BY <1>1, <2>1, <2>2 DEF Only
  <2>4. dataset # None /\ EvidenceRebuilt(source, tree.config, tree.tables)
    BY <2>1, <2>2, <2>3 DEF EvidenceValid
  <2>5. tree.tables.of = dataset.tables
    BY <2>3, <2>4 DEF EvidenceRebuilt, Assembled
  <2> QED BY <1>2, <1>5, <2>4, <2>5 DEF DerivedFrom
<1> QED BY <1>1, <1>3, <1>4, <1>5 DEF Stage

\* A source that stood still is given as it was read.
LEMMA GivenOf ==
    ASSUME NEW read, Settled(read), NEW x \in read
    PROVE  x[1] \in Sources(read) /\ Given(read)[x[1]] = x[2]
<1>1. x[1] \in Sources(read)
  BY DEF Sources
<1> DEFINE y == CHOOSE z \in read : z[1] = x[1]
<1>2. y \in read /\ y[1] = x[1]
  OBVIOUS
<1>3. y[2] = x[2]
  BY <1>2 DEF Settled
<1> QED BY <1>1, <1>3 DEF Given

\* A build whose sources all still stand is the one made of them at once.
LEMMA UndisturbedBuild ==
    ASSUME Inv, NEW s \in Stage, NEW b \in builds[s], b.tree = root[s],
           b.read = {<<x, root[x]>> : x \in Sources(b.read)}
    PROVE  /\ Whole(s, root[s])
           /\ Sources(b.read) \in SourceSets(s)
           /\ s # "dataset" => root[s] = Fresh(s, [x \in Sources(b.read) |-> root[x]])
           /\ s = "impact" => root["dataset"].manifest.config.window \in CoveredWindows
<1>1. Whole(s, b.tree) /\ Derived(s, b)
  BY DEF Inv, Builds
<1>2. Settled(b.read) /\ Given(b.read) = [x \in Sources(b.read) |-> root[x]]
  <2>1. Settled(b.read)
    BY DEF Settled
  <2>2. ASSUME NEW x \in Sources(b.read) PROVE Given(b.read)[x] = root[x]
    <3>1. <<x, root[x]>> \in b.read /\ <<x, root[x]>>[1] = x /\ <<x, root[x]>>[2] = root[x]
      OBVIOUS
    <3> QED BY <2>1, <3>1, GivenOf
  <2> QED BY <2>1, <2>2 DEF Given
<1>3. s = "impact" => "dataset" \in Sources(b.read)
  BY <1>1 DEF Derived, SourceSets
<1> QED BY <1>1, <1>2, <1>3 DEF Derived

\* What each validator says of such builds.
LEMMA WholeDatasetIsValid ==
    ASSUME NEW t, t # None, Whole("dataset", t)
    PROVE  DatasetValid(t)
BY DEF Whole, DatasetTree, DatasetValid, MatchesManifest

LEMMA FreshAnalyticsIsValid ==
    ASSUME NEW given, DOMAIN given = {"dataset"}, DatasetValid(given["dataset"]),
           NEW t, t # None, t = Fresh("analytics", given)
    PROVE  AnalyticsValid(t, given)
BY DEF Fresh, ExportAnalytics, AnalyticsManifest, SealedTree, AnalyticsValid, Sealed, MatchesManifest

LEMMA FreshDetectionIsValid ==
    ASSUME NEW given, DOMAIN given = {"analytics"}, given["analytics"] # None,
           NEW t, t # None, t = Fresh("detection", given), Summarised(t)
    PROVE  DetectionValid(t, given)
BY DEF Fresh, ExportDetection, DetectionManifest, SealedTree, DetectionValid, Sealed, MatchesManifest

LEMMA FreshImpactIsValid ==
    ASSUME NEW given, DOMAIN given = {"dataset"}, DatasetValid(given["dataset"]),
           given["dataset"].manifest.config.window \in CoveredWindows,
           NEW t, t # None, t = Fresh("impact", given)
    PROVE  ImpactValid(t, given)
<1>1. given["dataset"] # None
  BY DEF DatasetValid
<1> QED
  BY <1>1 DEF Fresh, ExportImpact, ImpactManifest, SealedTree, ImpactValid, ImpactRebuilt,
              Sealed, MatchesManifest

LEMMA FreshEvidenceIsValid ==
    ASSUME NEW given, "dataset" \in DOMAIN given,
           "detection" \in DOMAIN given => "analytics" \in DOMAIN given,
           \A s \in DOMAIN given : given[s] # None,
           \A s \in DOMAIN given : SourceValid(s, given[s], Only(given, CheckedAgainst(s))),
           NEW t, t # None, t = Fresh("evidence", given)
    PROVE  EvidenceValid(t, given) /\ DOMAIN t.manifest.hash = DOMAIN given
<1> DEFINE hash == [s \in DOMAIN given |-> given[s].manifest]
           config == StageConfig["evidence"]
<1>1. t = SealedTree(EvidenceManifest(config, given, hash))
  BY DEF Fresh, ExportEvidence
<1>2. /\ t.manifest.hash = hash
      /\ t.marker = t.manifest
      /\ t.tables = t.manifest.tables
      /\ t.config = config
      /\ t.config = t.manifest.config
      /\ t.tables = Assembled(given["dataset"].tables,
                              {given[s].manifest : s \in DOMAIN given \ {"dataset"}}, config)
  BY <1>1 DEF SealedTree, EvidenceManifest
<1>3. EvidenceRebuilt(given, t.config, t.tables)
  BY <1>2 DEF EvidenceRebuilt
<1>4. Sealed(t)
  BY <1>2 DEF Sealed, MatchesManifest
<1>5. DOMAIN t.manifest.hash = DOMAIN given
  BY <1>2
<1>6. \A s \in DOMAIN given : given[s].manifest = t.manifest.hash[s]
  BY <1>2
<1> QED BY <1>3, <1>4, <1>5, <1>6 DEF EvidenceValid

\* Whatever order the artifacts were built in: if what each builder read still
\* stands, every validator finds what it compares, and only a benchmark that
\* detected nothing is refused.
LEMMA InvImpliesUndisturbedIsHealthy == Inv => UndisturbedIsHealthy
<1> DEFINE w == {s \in Stage : root[s] # None}
           Undisturbed(s) ==
               /\ \E b \in builds[s] :
                     LET sources == {x[1] : x \in b.read} IN
                     /\ b.tree = root[s]
                     /\ b.read = {<<x, root[x]>> : x \in sources}
                     /\ s = "evidence" => sources = w \ {"evidence"}
               /\ s # "dataset" => SourceOf(s) \in w
           missed == "detection" \in w /\ ~Summarised(root["detection"])
<1> SUFFICES ASSUME Inv, w # {}, \A s \in w : Undisturbed(s)
             PROVE  Overall(SignalStatuses(w, root)) = IF missed THEN "error" ELSE "healthy"
  BY DEF UndisturbedIsHealthy
<1> HIDE DEF w
<1>a. DOMAIN root = Stage /\ w \subseteq Stage /\ \A s \in Stage : s \in w <=> root[s] # None
  BY DEF Inv, TypeOK, w
<1>0. missed => Overall(SignalStatuses(w, root)) = "error"
  <2> SUFFICES ASSUME missed PROVE Overall(SignalStatuses(w, root)) = "error"
    OBVIOUS
  <2>1. "detection" \in w /\ root["detection"] # None
    BY <1>a
  <2>2. ~DetectionValid(root["detection"], Only(root, w \cap {"analytics"}))
    BY DEF DetectionValid
  <2>3. DetectionStage(w, root) = "error"
    BY <2>1, <2>2 DEF DetectionStage, StageStatus, ReportStage
  <2>4. "error" \in SignalStatuses(w, root)
    BY <2>3 DEF SignalStatuses
  <2> QED BY <2>4 DEF Overall
<1> SUFFICES ASSUME ~missed PROVE Overall(SignalStatuses(w, root)) = "healthy"
  BY <1>0
<1>b. \A S : DOMAIN Only(root, S) = Stage \cap S /\ \A s \in Stage \cap S : Only(root, S)[s] = root[s]
  BY <1>a DEF Only
<1>1. "dataset" \in w => DatasetValid(root["dataset"])
  <2> SUFFICES ASSUME "dataset" \in w PROVE DatasetValid(root["dataset"])
    OBVIOUS
  <2>1. Undisturbed("dataset") /\ "dataset" \in Stage
    BY <1>a
  <2>2. PICK b \in builds["dataset"] :
           b.tree = root["dataset"] /\ b.read = {<<x, root[x]>> : x \in Sources(b.read)}
    BY <2>1 DEF Sources
  <2>3. Whole("dataset", root["dataset"])
    BY <2>1, <2>2, UndisturbedBuild
  <2> QED BY <1>a, <2>1, <2>3, WholeDatasetIsValid
<1>2. "analytics" \in w =>
         "dataset" \in w /\ AnalyticsValid(root["analytics"], Only(root, {"dataset"}))
  <2> SUFFICES ASSUME "analytics" \in w
               PROVE  "dataset" \in w /\ AnalyticsValid(root["analytics"], Only(root, {"dataset"}))
    OBVIOUS
  <2>1. Undisturbed("analytics") /\ "analytics" \in Stage
    BY <1>a
  <2>2. PICK b \in builds["analytics"] :
           b.tree = root["analytics"] /\ b.read = {<<x, root[x]>> : x \in Sources(b.read)}
    BY <2>1 DEF Sources
  <2>3. Sources(b.read) = {"dataset"}
    BY <2>1, <2>2, UndisturbedBuild DEF SourceSets
  <2>4. root["analytics"] = Fresh("analytics", [x \in Sources(b.read) |-> root[x]])
    BY <2>1, <2>2, UndisturbedBuild
  <2>5. [x \in Sources(b.read) |-> root[x]] = Only(root, {"dataset"})
    BY <1>a, <2>3 DEF Only, Stage
  <2>6. "dataset" \in w
    BY <2>1 DEF SourceOf
  <2>7. DOMAIN Only(root, {"dataset"}) = {"dataset"} /\ Only(root, {"dataset"})["dataset"] = root["dataset"]
    BY <1>b DEF Stage
  <2> QED BY <1>1, <1>a, <2>1, <2>4, <2>5, <2>6, <2>7, FreshAnalyticsIsValid
<1>3. "detection" \in w =>
         "analytics" \in w /\ DetectionValid(root["detection"], Only(root, {"analytics"}))
  <2> SUFFICES ASSUME "detection" \in w
               PROVE  "analytics" \in w /\ DetectionValid(root["detection"], Only(root, {"analytics"}))
    OBVIOUS
  <2>1. Undisturbed("detection") /\ "detection" \in Stage
    BY <1>a
  <2>2. PICK b \in builds["detection"] :
           b.tree = root["detection"] /\ b.read = {<<x, root[x]>> : x \in Sources(b.read)}
    BY <2>1 DEF Sources
  <2>3. Sources(b.read) = {"analytics"}
    BY <2>1, <2>2, UndisturbedBuild DEF SourceSets
  <2>4. root["detection"] = Fresh("detection", [x \in Sources(b.read) |-> root[x]])
    BY <2>1, <2>2, UndisturbedBuild
  <2>5. [x \in Sources(b.read) |-> root[x]] = Only(root, {"analytics"})
    BY <1>a, <2>3 DEF Only, Stage
  <2>6. "analytics" \in w
    BY <2>1 DEF SourceOf
  <2>7. DOMAIN Only(root, {"analytics"}) = {"analytics"} /\ Only(root, {"analytics"})["analytics"] = root["analytics"]
    BY <1>b DEF Stage
  <2>8. Summarised(root["detection"])
    OBVIOUS
  <2> QED BY <1>a, <2>1, <2>4, <2>5, <2>6, <2>7, <2>8, FreshDetectionIsValid
<1>4. "impact" \in w =>
         "dataset" \in w /\ ImpactValid(root["impact"], Only(root, {"dataset"}))
  <2> SUFFICES ASSUME "impact" \in w
               PROVE  "dataset" \in w /\ ImpactValid(root["impact"], Only(root, {"dataset"}))
    OBVIOUS
  <2>1. Undisturbed("impact") /\ "impact" \in Stage
    BY <1>a
  <2>2. PICK b \in builds["impact"] :
           b.tree = root["impact"] /\ b.read = {<<x, root[x]>> : x \in Sources(b.read)}
    BY <2>1 DEF Sources
  <2>3. Sources(b.read) = {"dataset"}
    BY <2>1, <2>2, UndisturbedBuild DEF SourceSets
  <2>4. /\ root["impact"] = Fresh("impact", [x \in Sources(b.read) |-> root[x]])
        /\ root["dataset"].manifest.config.window \in CoveredWindows
    BY <2>1, <2>2, UndisturbedBuild
  <2>5. [x \in Sources(b.read) |-> root[x]] = Only(root, {"dataset"})
    BY <1>a, <2>3 DEF Only, Stage
  <2>6. "dataset" \in w
    BY <2>1 DEF SourceOf
  <2>7. DOMAIN Only(root, {"dataset"}) = {"dataset"} /\ Only(root, {"dataset"})["dataset"] = root["dataset"]
    BY <1>b DEF Stage
  <2> QED BY <1>1, <1>a, <2>1, <2>4, <2>5, <2>6, <2>7, FreshImpactIsValid
<1>5. "evidence" \in w =>
         /\ EvidenceValid(root["evidence"], Only(root, w \ {"evidence"}))
         /\ w \ {"evidence"} = DOMAIN root["evidence"].manifest.hash
  <2> SUFFICES ASSUME "evidence" \in w
               PROVE  /\ EvidenceValid(root["evidence"], Only(root, w \ {"evidence"}))
                      /\ w \ {"evidence"} = DOMAIN root["evidence"].manifest.hash
    OBVIOUS
  <2> DEFINE given == Only(root, w \ {"evidence"})
  <2>1. Undisturbed("evidence") /\ "evidence" \in Stage
    BY <1>a
  <2>2. PICK b \in builds["evidence"] :
           /\ b.tree = root["evidence"] /\ b.read = {<<x, root[x]>> : x \in Sources(b.read)}
           /\ Sources(b.read) = w \ {"evidence"}
    BY <2>1 DEF Sources
  <2>3. root["evidence"] = Fresh("evidence", [x \in Sources(b.read) |-> root[x]])
    BY <2>1, <2>2, UndisturbedBuild
  <2>4. [x \in Sources(b.read) |-> root[x]] = given
    <3>1. Stage \cap (w \ {"evidence"}) = w \ {"evidence"}
      BY <1>a
    <3> QED BY <1>a, <2>2, <3>1 DEF Only
  <2>5. DOMAIN given = w \ {"evidence"} /\ \A s \in w \ {"evidence"} : given[s] = root[s]
    BY <1>a, <1>b
  <2>6. "dataset" \in DOMAIN given
    BY <2>1, <2>5 DEF SourceOf
  <2>7. \A s \in DOMAIN given : given[s] # None
    BY <1>a, <2>5
  <2> HIDE DEF given
  <2>8. ASSUME NEW s \in DOMAIN given
        PROVE  SourceValid(s, given[s], Only(given, CheckedAgainst(s)))
    <3> DEFINE upstream == Only(given, CheckedAgainst(s))
    <3>0. s \in w \ {"evidence"} /\ given[s] = root[s] /\ s \in Stage
      BY <1>a, <2>5
    <3>1. CASE s = "dataset"
      BY <1>1, <3>0, <3>1 DEF SourceValid
    <3>2. CASE s = "analytics"
      <4>1. CheckedAgainst(s) = {"dataset"} /\ "dataset" \in w
        BY <1>2, <3>0, <3>2 DEF CheckedAgainst
      <4>2. upstream = Only(root, {"dataset"})
        BY <1>a, <2>5, <2>6, <4>1 DEF Only, Stage
      <4> QED BY <1>2, <3>0, <3>2, <4>2 DEF SourceValid
    <3>3. CASE s = "impact"
      <4>1. CheckedAgainst(s) = {"dataset"} /\ "dataset" \in w
        BY <1>4, <3>0, <3>3 DEF CheckedAgainst
      <4>2. upstream = Only(root, {"dataset"})
        BY <1>a, <2>5, <2>6, <4>1 DEF Only, Stage
      <4> QED BY <1>4, <3>0, <3>3, <4>2 DEF SourceValid
    <3>4. CASE s = "detection"
      <4>1. CheckedAgainst(s) = {"analytics"} /\ "analytics" \in w
        BY <1>3, <3>0, <3>4 DEF CheckedAgainst
      <4>2. upstream = Only(root, {"analytics"})
        BY <1>a, <2>5, <4>1 DEF Only, Stage
      <4> QED BY <1>3, <3>0, <3>4, <4>2 DEF SourceValid
    <3> QED BY <3>0, <3>1, <3>2, <3>3, <3>4 DEF Stage
  <2>9. "detection" \in DOMAIN given => "analytics" \in DOMAIN given
    BY <1>3, <2>5
  <2>10. root["evidence"] # None /\ root["evidence"] = Fresh("evidence", given)
    BY <1>a, <2>3, <2>4
  <2>11. EvidenceValid(root["evidence"], given) /\ DOMAIN root["evidence"].manifest.hash = DOMAIN given
    BY <2>6, <2>7, <2>8, <2>9, <2>10, FreshEvidenceIsValid
  <2> QED BY <2>5, <2>11 DEF given
<1> DEFINE Fine(s) == IF s \in w THEN "healthy" ELSE "not_configured"
<1>6. DatasetStage(w, root) = Fine("dataset")
  <2>1. DatasetValid(root["dataset"]) \in BOOLEAN
    BY DEF DatasetValid, MatchesManifest
  <2>2. "dataset" \in w => root["dataset"] # None
    BY <1>a
  <2> QED BY <1>1, <2>1, <2>2 DEF DatasetStage, StageStatus, ReportStage
<1>7. AnalyticsStage(w, root) = Fine("analytics")
  <2>1. AnalyticsValid(root["analytics"], Only(root, w \cap {"dataset"})) \in BOOLEAN
    BY DEF AnalyticsValid, Sealed, DatasetValid, MatchesManifest
  <2>2. "analytics" \in w => w \cap {"dataset"} = {"dataset"} /\ root["analytics"] # None
    BY <1>2, <1>a
  <2> QED BY <1>2, <2>1, <2>2 DEF AnalyticsStage, StageStatus, ReportStage
<1>8. DetectionStage(w, root) = Fine("detection")
  <2>1. DetectionValid(root["detection"], Only(root, w \cap {"analytics"})) \in BOOLEAN
    BY DEF DetectionValid, Sealed, MatchesManifest, Summarised
  <2>2. "detection" \in w => w \cap {"analytics"} = {"analytics"} /\ root["detection"] # None
    BY <1>3, <1>a
  <2> QED BY <1>3, <2>1, <2>2 DEF DetectionStage, StageStatus, ReportStage
<1>9. ImpactStage(w, root) = Fine("impact")
  <2>1. ImpactValid(root["impact"], Only(root, w \cap {"dataset"})) \in BOOLEAN
    BY DEF ImpactValid, Sealed, ImpactRebuilt, MatchesManifest
  <2>2. "impact" \in w => w \cap {"dataset"} = {"dataset"} /\ root["impact"] # None
    BY <1>4, <1>a
  <2> QED BY <1>4, <2>1, <2>2 DEF ImpactStage, StageStatus, ReportStage
<1>10. EvidenceStage(w, root) = Fine("evidence")
  <2>1. EvidenceValid(root["evidence"], Only(root, w \ {"evidence"})) \in BOOLEAN
    BY DEF EvidenceValid, Sealed, EvidenceRebuilt, MatchesManifest
  <2>2. "evidence" \in w => root["evidence"] # None
    BY <1>a
  <2>3. EvidenceStage(w, root) =
           StageStatus("evidence" \in w, root["evidence"] # None,
                       ReportStage(EvidenceValid(root["evidence"], Only(root, w \ {"evidence"})),
                                   w \ {"evidence"} = DOMAIN root["evidence"].manifest.hash))
    BY DEF EvidenceStage
  <2>4. (w \ {"evidence"} = DOMAIN root["evidence"].manifest.hash) \in BOOLEAN
    OBVIOUS
  <2> QED BY <1>5, <2>1, <2>2, <2>3, <2>4 DEF StageStatus, ReportStage
<1>11. SignalStatuses(w, root) = {Fine(s) : s \in Stage}
  BY <1>6, <1>7, <1>8, <1>9, <1>10 DEF SignalStatuses, Stage
<1>12. \E s \in Stage : s \in w
  BY <1>a
<1> QED BY <1>11, <1>12 DEF Overall

-----------------------------------------------------------------------------
(* The steps of the commands.                                              *)

LEMMA TailOf ==
    ASSUME NEW S, NEW T \in Seq(S), T # <<>>
    PROVE  /\ Tail(T) \in Seq(S)
           /\ Head(T) = T[1] /\ T[1] \in S
           /\ \A i \in 1..Len(Tail(T)) : i + 1 \in 1..Len(T) /\ Tail(T)[i] = T[i + 1]
           /\ \A i \in 1..Len(T) : i # 1 => i - 1 \in 1..Len(Tail(T)) /\ Tail(T)[i - 1] = T[i]
OBVIOUS

(* A sequence of calls that load and hash every source of a set, and no    *)
(* other.                                                                  *)
Covers(T, sources) ==
    /\ T \in Seq(Call)
    /\ \A i \in 1..Len(T) : T[i].stage \in sources
    /\ \A s \in sources : /\ \E i \in 1..Len(T) : T[i] = Step("load", s)
                          /\ \E i \in 1..Len(T) : T[i] = Step("hash", s)

LEMMA ConcatCovers ==
    ASSUME NEW T, NEW U, NEW A, NEW B, Covers(T, A), Covers(U, B)
    PROVE  Covers(T \o U, A \cup B)
<1>1. T \in Seq(Call) /\ U \in Seq(Call) /\ Len(T) \in Nat /\ Len(U) \in Nat
  BY DEF Covers
<1>2. /\ T \o U \in Seq(Call) /\ Len(T \o U) = Len(T) + Len(U)
      /\ \A i \in 1..Len(T) : i \in 1..Len(T \o U) /\ (T \o U)[i] = T[i]
      /\ \A i \in 1..Len(U) : i + Len(T) \in 1..Len(T \o U) /\ (T \o U)[i + Len(T)] = U[i]
  BY <1>1
<1>3. ASSUME NEW i \in 1..Len(T \o U) PROVE (T \o U)[i].stage \in A \cup B
  <2>1. CASE i <= Len(T)
    <3>1. i \in 1..Len(T)
      BY <1>1, <1>2, <2>1
    <3> QED BY <1>2, <3>1 DEF Covers
  <2>2. CASE ~(i <= Len(T))
    <3>1. i - Len(T) \in 1..Len(U) /\ (i - Len(T)) + Len(T) = i
      BY <1>1, <1>2, <2>2
    <3>2. (T \o U)[i] = U[i - Len(T)]
      BY <1>2, <3>1
    <3> QED BY <3>1, <3>2 DEF Covers
  <2> QED BY <2>1, <2>2
<1>4. ASSUME NEW s \in A \cup B, NEW x, x \in {Step("load", s), Step("hash", s)}
      PROVE  \E i \in 1..Len(T \o U) : (T \o U)[i] = x
  <2>1. CASE s \in A
    <3>1. PICK i \in 1..Len(T) : T[i] = x
      BY <1>4, <2>1 DEF Covers
    <3> QED BY <1>2, <3>1
  <2>2. CASE s \in B
    <3>1. PICK i \in 1..Len(U) : U[i] = x
      BY <1>4, <2>2 DEF Covers
    <3> QED BY <1>2, <3>1
  <2> QED BY <2>1, <2>2
<1> QED BY <1>2, <1>3, <1>4 DEF Covers

LEMMA ReadSourceCovers ==
    ASSUME NEW s \in Stage
    PROVE  Covers(ReadSource(s), {s})
<1> DEFINE T == ReadSource(s)
<1>1. /\ T \in Seq(Call) /\ Len(T) = 3
      /\ T[1] = Step("check", s) /\ T[2] = Step("load", s) /\ T[3] = Step("hash", s)
  BY DEF ReadSource, Step, Call
<1>2. \A i \in 1..3 : T[i].stage = s
  BY <1>1 DEF Step
<1> QED BY <1>1, <1>2 DEF Covers

LEMMA OptionalCovers ==
    ASSUME NEW s \in Stage, NEW sources
    PROVE  Covers(Optional(s, sources), {s} \cap sources)
<1>1. CASE s \in sources
  BY <1>1, ReadSourceCovers DEF Optional
<1>2. CASE s \notin sources
  BY <1>2 DEF Optional, Covers
<1> QED BY <1>1, <1>2

\* Every command reads all the sources it is given.
LEMMA StepsCover ==
    ASSUME NEW s \in Stage, NEW sources \in SourceSets(s)
    PROVE  Covers(Steps(s, sources), sources)
<1>1. CASE s = "dataset"
  BY <1>1 DEF Steps, SimulateSteps, SourceSets, Covers
<1>2. CASE s \in {"analytics", "impact"}
  <2>1. sources = {"dataset"} /\ Steps(s, sources) = ReadSource("dataset")
    BY <1>2 DEF Steps, AnalyticsSteps, ImpactSteps, SourceSets
  <2> QED BY <2>1, ReadSourceCovers DEF Stage
<1>3. CASE s = "detection"
  <2>1. sources = {"analytics"} /\ Steps(s, sources) = DetectionSteps
    BY <1>3 DEF Steps, SourceSets
  <2> DEFINE T == DetectionSteps
  <2>2. /\ T \in Seq(Call) /\ Len(T) = 3
        /\ T[1] = Step("load", "analytics") /\ T[2] = Step("check", "analytics")
        /\ T[3] = Step("hash", "analytics")
    BY DEF DetectionSteps, Step, Call, Stage
  <2>3. \A i \in 1..3 : T[i].stage = "analytics"
    BY <2>2 DEF Step
  <2> QED BY <2>1, <2>2, <2>3 DEF Covers
<1>4. CASE s = "evidence"
  <2> DEFINE A == Optional("analytics", sources)
             D == Optional("detection", sources)
             I == Optional("impact", sources)
             AS == {"analytics"} \cap sources
             DS == {"detection"} \cap sources
             IS == {"impact"} \cap sources
  <2>1. Steps(s, sources) = ((ReadSource("dataset") \o A) \o D) \o I
    BY <1>4 DEF Steps, EvidenceSteps
  <2>2. sources = (({"dataset"} \cup AS) \cup DS) \cup IS
    BY <1>4 DEF SourceSets
  <2>3. Covers(ReadSource("dataset"), {"dataset"})
    BY ReadSourceCovers DEF Stage
  <2>4. Covers(A, AS) /\ Covers(D, DS) /\ Covers(I, IS)
    BY OptionalCovers DEF Stage
  <2> HIDE DEF A, D, I, AS, DS, IS
  <2>5. Covers(ReadSource("dataset") \o A, {"dataset"} \cup AS)
    BY <2>3, <2>4, ConcatCovers
  <2>6. Covers((ReadSource("dataset") \o A) \o D, ({"dataset"} \cup AS) \cup DS)
    BY <2>4, <2>5, ConcatCovers
  <2>7. Covers(((ReadSource("dataset") \o A) \o D) \o I, (({"dataset"} \cup AS) \cup DS) \cup IS)
    BY <2>4, <2>6, ConcatCovers
  <2> QED BY <2>1, <2>2, <2>7
<1> QED BY <1>1, <1>2, <1>3, <1>4 DEF Stage

\* A command that starts has everything before it.
LEMMA StartedIsSane ==
    ASSUME NEW s \in Stage, NEW config \in Configs(s), NEW sources \in SourceSets(s),
           NEW overwrite, NEW dataset
    PROVE  Sane(Running(s, config, sources, overwrite), dataset)
<1> DEFINE P == Running(s, config, sources, overwrite)
<1>1. /\ DOMAIN P = Field
      /\ P.stage = s /\ P.config = config /\ P.todo = Steps(s, sources)
      /\ P.loaded = [x \in sources |-> None] /\ P.hash = [x \in sources |-> None]
      /\ P.read = {}
  BY DEF Running, Nothing, Field
<1>2. Covers(Steps(s, sources), sources)
  BY StepsCover
<1>3. DOMAIN P.loaded = sources
  BY <1>1
<1>4. \A x \in DOMAIN P.loaded : LoadNoticed(P, x) /\ HashNoticed(P, x)
  BY <1>1, <1>2, <1>3 DEF LoadNoticed, HashNoticed, Left, Covers
<1>5. P.todo \in Seq(Call) /\ \A i \in 1..Len(P.todo) : P.todo[i].stage \in sources
  BY <1>1, <1>2 DEF Covers
<1>6. Validated(P, dataset)
  BY <1>1 DEF Validated, Steps
<1> HIDE DEF P
<1>7. P.loaded = [x \in DOMAIN P.loaded |-> P.loaded[x]] /\ P.hash = [x \in DOMAIN P.loaded |-> P.hash[x]]
  BY <1>1, <1>3
<1>8. \A x \in P.read : x[1] \in DOMAIN P.loaded
  BY <1>1
<1>9. Sane(P, dataset)
  BY <1>1, <1>3, <1>4, <1>5, <1>6, <1>7, <1>8 DEF Sane
<1> QED BY <1>9 DEF P

\* The call at the head of what is left of a build: what it is, and what is left
\* after it.
LEMMA NextCall ==
    ASSUME NEW P, NEW dataset, Sane(P, dataset), P.todo # <<>>
    PROVE  /\ Head(P.todo) \in Call /\ Head(P.todo).stage \in DOMAIN P.loaded
           /\ Tail(P.todo) \in Seq(Call)
           /\ \A i \in 1..Len(Tail(P.todo)) : Tail(P.todo)[i].stage \in DOMAIN P.loaded
           /\ \A x : x # Head(P.todo) /\ Left(P.todo, x) => Left(Tail(P.todo), x)
<1> DEFINE T == P.todo
<1>1. T \in Seq(Call) /\ T # <<>> /\ \A i \in 1..Len(T) : T[i].stage \in DOMAIN P.loaded
  BY DEF Sane
<1> HIDE DEF T
<1>2. /\ Tail(T) \in Seq(Call)
      /\ Head(T) = T[1] /\ T[1] \in Call
      /\ \A i \in 1..Len(Tail(T)) : i + 1 \in 1..Len(T) /\ Tail(T)[i] = T[i + 1]
      /\ \A i \in 1..Len(T) : i # 1 => i - 1 \in 1..Len(Tail(T)) /\ Tail(T)[i - 1] = T[i]
  BY <1>1, TailOf
<1>3. 1 \in 1..Len(T)
  BY <1>1
<1>4. \A i \in 1..Len(Tail(T)) : Tail(T)[i].stage \in DOMAIN P.loaded
  BY <1>1, <1>2
<1>5. ASSUME NEW x, x # Head(T), Left(T, x) PROVE Left(Tail(T), x)
  <2>1. PICK i \in 1..Len(T) : T[i] = x
    BY <1>5 DEF Left
  <2>2. i # 1
    BY <1>2, <1>5, <2>1
  <2> QED BY <1>2, <2>1, <2>2 DEF Left
<1> QED BY <1>1, <1>2, <1>3, <1>4, <1>5 DEF T

\* What has been noticed of a source stays noticed while others are read.
LEMMA StillNoticed ==
    ASSUME NEW P, NEW Q, NEW s, P.read \subseteq Q.read
    PROVE  /\ /\ LoadNoticed(P, s) /\ Q.loaded[s] = P.loaded[s]
              /\ Left(P.todo, Step("load", s)) => Left(Q.todo, Step("load", s))
              => LoadNoticed(Q, s)
           /\ /\ HashNoticed(P, s) /\ Q.hash[s] = P.hash[s]
              /\ Left(P.todo, Step("hash", s)) => Left(Q.todo, Step("hash", s))
              => HashNoticed(Q, s)
BY DEF LoadNoticed, HashNoticed

\* Only the analytics builder's own order matters: which call is left when.
LEMMA AnalyticsOrder ==
    ASSUME NEW P, NEW dataset, Sane(P, dataset), P.stage = "analytics", P.todo # <<>>
    PROVE  /\ Head(P.todo).stage = "dataset"
           /\ Head(P.todo).op = "check" => P.todo = AnalyticsSteps
           /\ Head(P.todo).op = "load" =>
                 P.todo = Tail(AnalyticsSteps) /\ Intact(dataset)
           /\ Head(P.todo).op = "hash" =>
                 /\ P.todo = Tail(Tail(AnalyticsSteps)) /\ Tail(P.todo) = <<>>
                 /\ Intact(P.loaded["dataset"])
<1>1. AnalyticsSteps =
        <<Step("check", "dataset"), Step("load", "dataset"), Step("hash", "dataset")>>
  BY DEF AnalyticsSteps, ReadSource
<1>2. /\ Head(AnalyticsSteps) = Step("check", "dataset")
      /\ Head(Tail(AnalyticsSteps)) = Step("load", "dataset")
      /\ Head(Tail(Tail(AnalyticsSteps))) = Step("hash", "dataset")
      /\ Tail(Tail(Tail(AnalyticsSteps))) = <<>>
  BY <1>1
<1>3. \A op : Step(op, "dataset").op = op /\ Step(op, "dataset").stage = "dataset"
  BY DEF Step
<1>4. /\ Head(AnalyticsSteps).op = "check" /\ Head(AnalyticsSteps).stage = "dataset"
      /\ Head(Tail(AnalyticsSteps)).op = "load"
      /\ Head(Tail(AnalyticsSteps)).stage = "dataset"
      /\ Head(Tail(Tail(AnalyticsSteps))).op = "hash"
      /\ Head(Tail(Tail(AnalyticsSteps))).stage = "dataset"
  BY <1>2, <1>3
<1>5. Validated(P, dataset)
  BY DEF Sane
<1>6. CASE P.todo = AnalyticsSteps
  BY <1>4, <1>6, Zenon
<1>7. CASE P.todo = Tail(AnalyticsSteps) /\ Intact(dataset)
  BY <1>4, <1>7, Zenon
<1>8. CASE P.todo = Tail(Tail(AnalyticsSteps)) /\ Intact(P.loaded["dataset"])
  <2>1. Tail(P.todo) = <<>>
    BY <1>2, <1>8
  <2>2. Head(P.todo).op = "hash" /\ Head(P.todo).stage = "dataset"
    BY <1>4, <1>8
  <2> QED BY <1>8, <2>1, <2>2, Zenon
<1> QED BY <1>5, <1>6, <1>7, <1>8 DEF Validated

LEMMA CheckKeepsSane ==
    ASSUME NEW P, NEW dataset, Sane(P, dataset), P.todo # <<>>, Head(P.todo).op = "check",
           NEW t, NEW Q,
           Q = [P EXCEPT !.todo = Tail(@), !.read = P.read \cup {<<Head(P.todo).stage, t>>}],
           P.stage = "analytics" => Intact(dataset)
    PROVE  Sane(Q, dataset)
<1>1. /\ DOMAIN Q = Field
      /\ Q.stage = P.stage /\ Q.config = P.config /\ Q.loaded = P.loaded /\ Q.hash = P.hash
      /\ Q.todo = Tail(P.todo) /\ Q.read = P.read \cup {<<Head(P.todo).stage, t>>}
  BY DEF Sane, Field
<1>2. /\ Head(P.todo).stage \in DOMAIN P.loaded
      /\ Q.todo \in Seq(Call)
      /\ \A i \in 1..Len(Q.todo) : Q.todo[i].stage \in DOMAIN P.loaded
      /\ \A x : x # Head(P.todo) /\ Left(P.todo, x) => Left(Q.todo, x)
  BY <1>1, NextCall
<1>3. ASSUME NEW s \in DOMAIN Q.loaded PROVE LoadNoticed(Q, s) /\ HashNoticed(Q, s)
  <2>1. LoadNoticed(P, s) /\ HashNoticed(P, s) /\ P.read \subseteq Q.read
    BY <1>1 DEF Sane
  <2>2. Step("load", s) # Head(P.todo) /\ Step("hash", s) # Head(P.todo)
    BY DEF Step
  <2> QED BY <1>1, <1>2, <2>1, <2>2, StillNoticed
<1>4. Validated(Q, dataset)
  <2> SUFFICES ASSUME P.stage = "analytics" PROVE Validated(Q, dataset)
    BY <1>1 DEF Validated
  <2> QED BY <1>1, AnalyticsOrder DEF Validated
<1>5. \A x \in Q.read : x[1] \in DOMAIN Q.loaded
  BY <1>1, <1>2 DEF Sane
<1> QED BY <1>1, <1>2, <1>3, <1>4, <1>5 DEF Sane

LEMMA LoadKeepsSane ==
    ASSUME NEW P, NEW dataset, Sane(P, dataset), P.todo # <<>>, Head(P.todo).op = "load",
           NEW t, NEW Q, NEW source, source = Head(P.todo).stage,
           Q = [P EXCEPT !.todo = Tail(@), !.read = P.read \cup {<<source, t>>},
                         !.loaded[source] = t],
           P.stage = "analytics" => t = dataset
    PROVE  Sane(Q, dataset)
<1>1. /\ DOMAIN Q = Field
      /\ Q.stage = P.stage /\ Q.config = P.config /\ Q.hash = P.hash
      /\ Q.todo = Tail(P.todo) /\ Q.read = P.read \cup {<<source, t>>}
      /\ Q.loaded = [P.loaded EXCEPT ![source] = t]
  BY DEF Sane, Field
<1>2. /\ source \in DOMAIN P.loaded
      /\ Q.todo \in Seq(Call)
      /\ \A i \in 1..Len(Q.todo) : Q.todo[i].stage \in DOMAIN P.loaded
      /\ \A x : x # Head(P.todo) /\ Left(P.todo, x) => Left(Q.todo, x)
  BY <1>1, NextCall
<1>3. DOMAIN Q.loaded = DOMAIN P.loaded /\ Q.loaded[source] = t
  BY <1>1, <1>2
<1>4. ASSUME NEW s \in DOMAIN Q.loaded PROVE LoadNoticed(Q, s) /\ HashNoticed(Q, s)
  <2>1. LoadNoticed(P, s) /\ HashNoticed(P, s) /\ P.read \subseteq Q.read
    BY <1>1, <1>3 DEF Sane
  <2>2. Step("hash", s) # Head(P.todo) /\ (s # source => Step("load", s) # Head(P.todo))
    BY DEF Step
  <2>3. HashNoticed(Q, s)
    BY <1>1, <1>2, <2>1, <2>2, StillNoticed
  <2>4. CASE s = source
    BY <1>1, <1>3, <2>3, <2>4 DEF LoadNoticed
  <2>5. CASE s # source
    <3>1. Q.loaded[s] = P.loaded[s]
      BY <1>1, <1>3, <2>5
    <3> QED BY <1>2, <2>1, <2>2, <2>3, <2>5, <3>1, StillNoticed
  <2> QED BY <2>4, <2>5
<1>5. Validated(Q, dataset)
  <2> SUFFICES ASSUME P.stage = "analytics" PROVE Validated(Q, dataset)
    BY <1>1 DEF Validated
  <2> QED BY <1>1, <1>3, AnalyticsOrder DEF Validated
<1>6. \A x \in Q.read : x[1] \in DOMAIN Q.loaded
  BY <1>1, <1>2, <1>3 DEF Sane
<1>7. Q.loaded = [s \in DOMAIN Q.loaded |-> Q.loaded[s]]
  BY <1>1
<1> QED BY <1>1, <1>2, <1>3, <1>4, <1>5, <1>6, <1>7 DEF Sane

LEMMA HashKeepsSane ==
    ASSUME NEW P, NEW dataset, Sane(P, dataset), P.todo # <<>>, Head(P.todo).op = "hash",
           NEW t, NEW Q, NEW source, source = Head(P.todo).stage,
           Q = [P EXCEPT !.todo = Tail(@), !.read = P.read \cup {<<source, t>>},
                         !.hash[source] = t.manifest]
    PROVE  Sane(Q, dataset)
<1>1. /\ DOMAIN Q = Field
      /\ Q.stage = P.stage /\ Q.config = P.config /\ Q.loaded = P.loaded
      /\ Q.todo = Tail(P.todo) /\ Q.read = P.read \cup {<<source, t>>}
      /\ Q.hash = [P.hash EXCEPT ![source] = t.manifest]
  BY DEF Sane, Field
<1>2. /\ source \in DOMAIN P.loaded
      /\ Q.todo \in Seq(Call)
      /\ \A i \in 1..Len(Q.todo) : Q.todo[i].stage \in DOMAIN P.loaded
      /\ \A x : x # Head(P.todo) /\ Left(P.todo, x) => Left(Q.todo, x)
  BY <1>1, NextCall
<1>3. DOMAIN P.hash = DOMAIN P.loaded /\ DOMAIN Q.hash = DOMAIN P.loaded /\ Q.hash[source] = t.manifest
  BY <1>1, <1>2 DEF Sane
<1>4. ASSUME NEW s \in DOMAIN Q.loaded PROVE LoadNoticed(Q, s) /\ HashNoticed(Q, s)
  <2>1. LoadNoticed(P, s) /\ HashNoticed(P, s) /\ P.read \subseteq Q.read
    BY <1>1 DEF Sane
  <2>2. Step("load", s) # Head(P.todo) /\ (s # source => Step("hash", s) # Head(P.todo))
    BY DEF Step
  <2>3. LoadNoticed(Q, s)
    BY <1>1, <1>2, <2>1, <2>2, StillNoticed
  <2>4. CASE s = source
    <3>1. <<source, t>> \in Q.read /\ <<source, t>>[1] = s /\ <<source, t>>[2] = t
      BY <1>1, <2>4
    <3>2. \E x \in Q.read : x[1] = s /\ Q.hash[s] = x[2].manifest
      BY <1>3, <2>4, <3>1
    <3> QED BY <2>3, <3>2 DEF HashNoticed
  <2>5. CASE s # source
    <3>1. Q.hash[s] = P.hash[s]
      BY <1>1, <1>3, <2>5
    <3> QED BY <1>2, <2>1, <2>2, <2>3, <2>5, <3>1, StillNoticed
  <2> QED BY <2>4, <2>5
<1>5. Validated(Q, dataset)
  <2> SUFFICES ASSUME P.stage = "analytics" PROVE Validated(Q, dataset)
    BY <1>1 DEF Validated
  <2> QED BY <1>1, AnalyticsOrder DEF Validated
<1>6. \A x \in Q.read : x[1] \in DOMAIN Q.loaded
  BY <1>1, <1>2 DEF Sane
<1>7. Q.hash = [s \in DOMAIN Q.loaded |-> Q.hash[s]]
  BY <1>1, <1>3
<1> QED BY <1>1, <1>2, <1>4, <1>5, <1>6, <1>7 DEF Sane

\* A build all of whose sources stood still has loaded and hashed one tree of each.
LEMMA SettledBuild ==
    ASSUME NEW P, NEW dataset, Sane(P, dataset), P.todo = <<>>, Settled(P.read)
    PROVE  /\ Given(P.read) = P.loaded
           /\ P.hash = [s \in DOMAIN P.loaded |-> P.loaded[s].manifest]
<1>1. \A s \in DOMAIN P.loaded :
         <<s, P.loaded[s]>> \in P.read /\ \E x \in P.read : x[1] = s /\ P.hash[s] = x[2].manifest
  BY DEF Sane, LoadNoticed, HashNoticed, Left
<1>2. ASSUME NEW s \in DOMAIN P.loaded, NEW x \in P.read, x[1] = s
      PROVE  x[2] = P.loaded[s]
  <2>1. <<s, P.loaded[s]>> \in P.read /\ <<s, P.loaded[s]>>[1] = s
           /\ <<s, P.loaded[s]>>[2] = P.loaded[s]
    BY <1>1
  <2> QED BY <1>2, <2>1 DEF Settled
<1>3. Sources(P.read) = DOMAIN P.loaded
  <2>1. \A s \in DOMAIN P.loaded : s \in Sources(P.read)
    BY <1>1 DEF Sources
  <2>2. \A s \in Sources(P.read) : s \in DOMAIN P.loaded
    BY DEF Sources, Sane
  <2> QED BY <2>1, <2>2
<1>4. ASSUME NEW s \in DOMAIN P.loaded
      PROVE  (CHOOSE x \in P.read : x[1] = s)[2] = P.loaded[s]
  <2> DEFINE x == CHOOSE y \in P.read : y[1] = s
  <2>1. x \in P.read /\ x[1] = s
    BY <1>1
  <2> QED BY <1>2, <2>1
<1>5. P.loaded = [s \in DOMAIN P.loaded |-> P.loaded[s]]
  BY DEF Sane
<1>6. Given(P.read) = P.loaded
  BY <1>3, <1>4, <1>5 DEF Given
<1>7. \A s \in DOMAIN P.loaded : P.hash[s] = P.loaded[s].manifest
  BY <1>1, <1>2
<1>8. P.hash = [s \in DOMAIN P.loaded |-> P.hash[s]]
  BY DEF Sane
<1> QED BY <1>6, <1>7, <1>8

LEMMA AllAreRead ==
    ASSUME NEW P, NEW dataset, Sane(P, dataset), P.todo = <<>>
    PROVE  Sources(P.read) = DOMAIN P.loaded
<1>1. \A s \in DOMAIN P.loaded : <<s, P.loaded[s]>> \in P.read /\ <<s, P.loaded[s]>>[1] = s
  BY DEF Sane, LoadNoticed, Left
<1>2. \A s \in DOMAIN P.loaded : s \in Sources(P.read)
  BY <1>1 DEF Sources
<1>3. \A s \in Sources(P.read) : s \in DOMAIN P.loaded
  BY DEF Sources, Sane
<1> QED BY <1>2, <1>3

\* What is published is whole, and derived from what was read.
LEMMA BuiltIsSound ==
    ASSUME Underway, NEW p \in Process, proc[p] # Idle, proc[p].todo = <<>>, Computable(p),
           NEW runtime \in Runtime, NEW b,
           b = [tree |-> Built(p, runtime), read |-> proc[p].read]
    PROVE  Whole(proc[p].stage, b.tree) /\ Derived(proc[p].stage, b)
<1> DEFINE P == proc[p]
           s == proc[p].stage
<1>0. Sane(P, root["dataset"]) /\ s \in Stage
  BY DEF Underway, Sane
<1>1. b.tree = Built(p, runtime) /\ b.read = P.read
  OBVIOUS
<1>2. Sources(b.read) = DOMAIN P.loaded /\ DOMAIN P.loaded \in SourceSets(s)
  BY <1>0, <1>1, AllAreRead DEF Sane
<1>3. Settled(b.read) =>
         /\ Given(b.read) = P.loaded
         /\ P.hash = [x \in DOMAIN P.loaded |-> P.loaded[x].manifest]
  BY <1>0, <1>1, SettledBuild
<1>4. P.config \in Configs(s)
  BY <1>0 DEF Sane
<1>5. CASE s = "dataset"
  <2>1. b.tree = DatasetTree(DatasetManifest(P.config, runtime))
    BY <1>1, <1>5 DEF Built, ExportDataset
  <2>2. Whole(s, b.tree)
    BY <1>5, <2>1 DEF Whole, DatasetTree, DatasetManifest
  <2> QED BY <1>2, <1>5, <2>2 DEF Derived
<1>6. CASE s = "analytics"
  <2>1. b.tree = ExportAnalytics(P.config, P.loaded, P.hash) /\ P.config = StageConfig[s]
    BY <1>1, <1>4, <1>6 DEF Built, Configs
  <2>2. "dataset" \in DOMAIN P.loaded
    BY <1>2, <1>6 DEF SourceSets
  <2>3. Intact(P.loaded["dataset"])
    <3>1. Validated(P, root["dataset"]) /\ P.todo = <<>>
      BY <1>0 DEF Sane
    <3>2. P.todo # AnalyticsSteps /\ P.todo # Tail(AnalyticsSteps)
      BY DEF AnalyticsSteps, ReadSource
    <3> QED BY <1>6, <3>1, <3>2 DEF Validated
  <2>4. Whole(s, b.tree)
    BY <1>6, <2>1, <2>3 DEF Whole, Intact, ExportAnalytics, AnalyticsManifest, SealedTree
  <2>5. Settled(b.read) => b.tree = Fresh(s, Given(b.read))
    BY <1>3, <1>6, <2>1 DEF Fresh
  <2> QED BY <1>2, <1>6, <2>4, <2>5 DEF Derived
<1>7. CASE s = "detection"
  <2>1. b.tree = ExportDetection(P.config, P.loaded, P.hash) /\ P.config = StageConfig[s]
    BY <1>1, <1>4, <1>7 DEF Built, Configs
  <2>2. Whole(s, b.tree)
    BY <1>7, <2>1 DEF Whole, ExportDetection, DetectionManifest, SealedTree
  <2>3. Settled(b.read) => b.tree = Fresh(s, Given(b.read))
    BY <1>3, <1>7, <2>1 DEF Fresh
  <2> QED BY <1>2, <1>7, <2>2, <2>3 DEF Derived
<1>8. CASE s = "impact"
  <2>1. b.tree = ExportImpact(P.config, P.loaded, P.hash) /\ P.config = StageConfig[s]
    BY <1>1, <1>4, <1>8 DEF Built, Configs
  <2>2. Whole(s, b.tree)
    BY <1>8, <2>1 DEF Whole, ExportImpact, ImpactManifest, SealedTree
  <2>3. Settled(b.read) => b.tree = Fresh(s, Given(b.read))
    BY <1>3, <1>8, <2>1 DEF Fresh
  <2>4. Settled(b.read) => Given(b.read)["dataset"].manifest.config.window \in CoveredWindows
    BY <1>3, <1>8 DEF Computable
  <2> QED BY <1>2, <1>8, <2>2, <2>3, <2>4 DEF Derived
<1>9. CASE s = "evidence"
  <2>1. b.tree = ExportEvidence(P.config, P.loaded, P.hash) /\ P.config = StageConfig[s]
    BY <1>1, <1>4, <1>9 DEF Built, Configs
  <2>2. DOMAIN P.hash = DOMAIN P.loaded
    BY <1>0 DEF Sane
  <2>3. "dataset" \in DOMAIN P.hash
    BY <1>2, <1>9, <2>2 DEF SourceSets
  <2>4. Whole(s, b.tree)
    BY <1>9, <2>1, <2>3 DEF Whole, ExportEvidence, EvidenceManifest, SealedTree
  <2>5. Settled(b.read) => b.tree = Fresh(s, Given(b.read))
    BY <1>3, <1>9, <2>1 DEF Fresh
  <2> QED BY <1>2, <1>9, <2>4, <2>5 DEF Derived
<1> QED BY <1>0, <1>5, <1>6, <1>7, <1>8, <1>9 DEF Stage

\* A published tree is made of files.
LEMMA WholeIsMadeOfFiles ==
    ASSUME NEW s \in Stage, NEW t, Whole(s, t)
    PROVE  /\ DOMAIN t = File
           /\ t = [manifest |-> t.manifest, tables |-> t.tables, config |-> t.config,
                   marker |-> t.marker]
           /\ s = "dataset" => Intact(t)
BY DEF Whole, DatasetTree, SealedTree, File, Intact

-----------------------------------------------------------------------------
(* The invariant holds initially, and every step preserves it.             *)

LEMMA FreshIsWhole ==
    ASSUME NEW s \in Stage, s # "dataset", NEW given,
           s = "analytics" => Intact(given["dataset"]),
           s = "evidence" => "dataset" \in DOMAIN given,
           NEW t, t = Fresh(s, given)
    PROVE  Whole(s, t)
<1>1. CASE s = "analytics"
  BY <1>1 DEF Whole, Intact, Fresh, ExportAnalytics, AnalyticsManifest, SealedTree
<1>2. CASE s = "detection"
  BY <1>2 DEF Whole, Fresh, ExportDetection, DetectionManifest, SealedTree
<1>3. CASE s = "impact"
  BY <1>3 DEF Whole, Fresh, ExportImpact, ImpactManifest, SealedTree
<1>4. CASE s = "evidence"
  BY <1>4 DEF Whole, Fresh, ExportEvidence, EvidenceManifest, SealedTree
<1> QED BY <1>1, <1>2, <1>3, <1>4 DEF Stage

LEMMA InitImpliesInv == Init => Inv
<1> SUFFICES ASSUME Init PROVE Inv
  OBVIOUS
<1> USE DEF Init
<1>1. Underway
  BY DEF Underway
<1>2. CASE root = Nothing(Stage)
  <2>1. \A s \in Stage : root[s] = None /\ builds[s] = {}
    BY <1>2 DEF Nothing
  <2>2. TypeOK
    BY <1>2, <2>1, PipelineAssumption DEF TypeOK, Nothing
  <2> QED BY <1>1, <2>1, <2>2 DEF Inv, Builds, Standing
<1>3. CASE root = FirstBuild(FirstConfig, FirstRuntime)
  <2> DEFINE c == FirstConfig
             r == FirstRuntime
  <2>1. c \in SimulationConfig /\ c.window \in CoveredWindows /\ r \in Runtime
    BY PipelineAssumption DEF FirstConfig, FirstRuntime, Usable
  <2> HIDE DEF c, r
  <2>2. /\ DOMAIN root = Stage
        /\ root["dataset"] = ExportDataset(c, r)
        /\ root["analytics"] = Fresh("analytics", [dataset |-> root["dataset"]])
        /\ root["detection"] = Fresh("detection", [analytics |-> root["analytics"]])
        /\ root["impact"] = Fresh("impact", [dataset |-> root["dataset"]])
        /\ root["evidence"] =
              Fresh("evidence", [dataset |-> root["dataset"], analytics |-> root["analytics"],
                                 detection |-> root["detection"], impact |-> root["impact"]])
    BY <1>3 DEF FirstBuild, Stage, c, r
  <2>3. ASSUME NEW s \in Stage, s # "dataset"
        PROVE  root[s] = Fresh(s, [x \in FirstSources(s) |-> root[x]])
    <3>1. [dataset |-> root["dataset"]] = [x \in {"dataset"} |-> root[x]]
      OBVIOUS
    <3>2. [analytics |-> root["analytics"]] = [x \in {"analytics"} |-> root[x]]
      OBVIOUS
    <3>3. [dataset |-> root["dataset"], analytics |-> root["analytics"],
           detection |-> root["detection"], impact |-> root["impact"]]
             = [x \in Stage \ {"evidence"} |-> root[x]]
      BY DEF Stage
    <3> QED BY <2>2, <2>3, <3>1, <3>2, <3>3 DEF FirstSources, Stage
  <2>4. root["dataset"] = DatasetTree(DatasetManifest(c, r))
    BY <2>2 DEF ExportDataset
  <2>5. Intact(root["dataset"]) /\ root["dataset"].manifest.config.window \in CoveredWindows
    BY <2>1, <2>4 DEF Intact, DatasetTree, DatasetManifest
  <2>6. ASSUME NEW s \in Stage PROVE Whole(s, root[s])
    <3>1. CASE s = "dataset"
      BY <2>4, <3>1 DEF Whole, DatasetTree, DatasetManifest
    <3>2. CASE s # "dataset"
      <4>1. s = "analytics" => Intact([x \in FirstSources(s) |-> root[x]]["dataset"])
        BY <2>5 DEF FirstSources
      <4>2. s = "evidence" => "dataset" \in DOMAIN [x \in FirstSources(s) |-> root[x]]
        BY DEF FirstSources, Stage
      <4> QED BY <2>3, <3>2, <4>1, <4>2, FreshIsWhole
    <3> QED BY <3>1, <3>2
  <2>7. \A s \in Stage : FirstSources(s) \in SourceSets(s)
    <3>1. Stage \ {"evidence"} = {"dataset"} \cup {"analytics", "detection", "impact"}
      BY DEF Stage
    <3>2. Stage \ {"evidence"} \in SourceSets("evidence")
      BY <3>1 DEF SourceSets
    <3> QED BY <3>2 DEF FirstSources, SourceSets, Stage
  <2>8. ASSUME NEW s \in Stage, NEW b \in builds[s]
        PROVE  b.tree = root[s] /\ b.read = {<<x, root[x]>> : x \in FirstSources(s)}
    OBVIOUS
  <2>9. ASSUME NEW s \in Stage, NEW b \in builds[s] PROVE Derived(s, b)
    <3>0. b.read = {<<x, root[x]>> : x \in FirstSources(s)}
      BY <2>8
    <3>1. /\ Sources(b.read) = FirstSources(s)
          /\ Given(b.read) = [x \in FirstSources(s) |-> root[x]]
      <4>1. Settled(b.read)
        BY <3>0 DEF Settled
      <4>2. ASSUME NEW x \in FirstSources(s)
            PROVE  x \in Sources(b.read) /\ Given(b.read)[x] = root[x]
        <5>1. <<x, root[x]>> \in b.read /\ <<x, root[x]>>[1] = x /\ <<x, root[x]>>[2] = root[x]
          BY <3>0
        <5> QED BY <4>1, <5>1, GivenOf
      <4>3. \A x \in Sources(b.read) : x \in FirstSources(s)
        BY <3>0 DEF Sources
      <4>4. Sources(b.read) = FirstSources(s)
        BY <4>2, <4>3
      <4> QED BY <4>2, <4>4 DEF Given
    <3>2. s = "impact" => FirstSources(s) = {"dataset"}
      BY DEF FirstSources
    <3> QED BY <2>3, <2>5, <2>7, <2>8, <3>1, <3>2 DEF Derived
  <2>10. Builds
    BY <2>6, <2>8, <2>9 DEF Builds
  <2>11. \A s \in Stage : root[s] # None => \E b \in builds[s] : b.tree = root[s]
    OBVIOUS
  <2>12. Standing
    BY <2>6, <2>11, WholeIsMadeOfFiles DEF Standing
  <2>13. TypeOK
    BY <2>2, <2>6, <2>8, WholeIsMadeOfFiles, PipelineAssumption DEF TypeOK
  <2> QED BY <1>1, <2>10, <2>12, <2>13 DEF Inv
<1> QED BY <1>2, <1>3

\* A step of one process keeps the other builds sane if it keeps a dataset that
\* was validated as good.
LEMMA UnderwayStep ==
    ASSUME Inv, NEW p \in Process, NEW Q, proc' = [proc EXCEPT ![p] = Q],
           Q = Idle \/ Sane(Q, root'["dataset"]),
           Intact(root["dataset"]) => Intact(root'["dataset"])
    PROVE  Underway'
<1>1. DOMAIN proc = Process
  BY DEF Inv, TypeOK
<1>2. ASSUME NEW q \in Process, proc'[q] # Idle PROVE Sane(proc'[q], root'["dataset"])
  <2>1. CASE q = p
    BY <1>1, <1>2, <2>1
  <2>2. CASE q # p
    <3>1. proc'[q] = proc[q] /\ Sane(proc[q], root["dataset"])
      BY <1>1, <1>2, <2>2 DEF Inv, Underway
    <3>2. Validated(proc[q], root'["dataset"])
      BY <3>1 DEF Sane, Validated
    <3> QED BY <3>1, <3>2 DEF Sane
  <2> QED BY <2>1, <2>2
<1> QED BY <1>2 DEF Underway

\* What stands and what was built, while a process only reads.
LEMMA DisksUnchanged ==
    ASSUME Inv, UNCHANGED <<root, builds, edits>>, NEW p \in Process, NEW Q,
           proc' = [proc EXCEPT ![p] = Q], Q = Idle \/ Sane(Q, root["dataset"]),
           commands' \in 0..MaxCommands
    PROVE  Inv'
<1>1. Underway'
  BY UnderwayStep
<1>2. TypeOK'
  BY DEF Inv, TypeOK
<1>3. Builds' /\ Standing'
  BY DEF Inv, Builds, Standing
<1> QED BY <1>1, <1>2, <1>3 DEF Inv

LEMMA StartPreservesInv == ASSUME Inv, NEW p \in Process, Start(p) PROVE Inv'
<1>1. PICK s \in Stage : \E config \in Configs(s), sources \in SourceSets(s), overwrite \in BOOLEAN :
         proc' = [proc EXCEPT ![p] = Running(s, config, sources, overwrite)]
  BY DEF Start
<1>2. PICK config \in Configs(s), sources \in SourceSets(s), overwrite \in BOOLEAN :
         proc' = [proc EXCEPT ![p] = Running(s, config, sources, overwrite)]
  BY <1>1
<1>3. Sane(Running(s, config, sources, overwrite), root["dataset"])
  BY StartedIsSane
<1>4. commands' \in 0..MaxCommands
  BY PipelineAssumption DEF Start, Inv, TypeOK
<1> QED BY <1>2, <1>3, <1>4, DisksUnchanged DEF Start

LEMMA CheckPreservesInv == ASSUME Inv, NEW p \in Process, CheckSource(p) PROVE Inv'
<1> DEFINE P == proc[p]
           source == Head(proc[p].todo).stage
<1>1. /\ Sane(P, root["dataset"]) /\ P.todo # <<>> /\ Head(P.todo).op = "check"
      /\ UNCHANGED <<root, builds, edits>> /\ commands' \in 0..MaxCommands
  BY DEF CheckSource, At, Inv, Underway, TypeOK
<1>2. CASE SourceValid(source, root[source], Supplied(p))
  <2> DEFINE Q == [P EXCEPT !.todo = Tail(@), !.read = P.read \cup {<<source, root[source]>>}]
  <2>1. proc' = [proc EXCEPT ![p] = Q]
    BY <1>2 DEF CheckSource, Source, Noted
  <2>2. ASSUME P.stage = "analytics" PROVE Intact(root["dataset"])
    <3>1. source = "dataset"
      BY <1>1, <2>2, AnalyticsOrder
    <3>2. DatasetValid(root["dataset"])
      BY <1>2, <3>1 DEF SourceValid
    <3> QED BY <3>2 DEF DatasetValid, MatchesManifest, Inv, Standing, Builds, Whole, Intact, Stage
  <2>3. Sane(Q, root["dataset"])
    BY <1>1, <2>2, CheckKeepsSane
  <2> QED BY <1>1, <2>1, <2>3, DisksUnchanged
<1>3. CASE ~SourceValid(source, root[source], Supplied(p))
  <2>1. proc' = [proc EXCEPT ![p] = Idle]
    BY <1>3 DEF CheckSource, Source, Fail
  <2> QED BY <1>1, <2>1, DisksUnchanged
<1> QED BY <1>2, <1>3

LEMMA LoadPreservesInv == ASSUME Inv, NEW p \in Process, LoadSource(p) PROVE Inv'
<1> DEFINE P == proc[p]
           source == Head(proc[p].todo).stage
<1>1. /\ Sane(P, root["dataset"]) /\ P.todo # <<>> /\ Head(P.todo).op = "load"
      /\ UNCHANGED <<root, builds, edits>> /\ commands' \in 0..MaxCommands
  BY DEF LoadSource, At, Inv, Underway, TypeOK
<1>2. CASE root[source] # None
  <2> DEFINE Q == [P EXCEPT !.todo = Tail(@), !.read = P.read \cup {<<source, root[source]>>},
                            !.loaded[source] = root[source]]
  <2>1. proc' = [proc EXCEPT ![p] = Q]
    BY <1>2 DEF LoadSource, Source, Noted
  <2>2. P.stage = "analytics" => root[source] = root["dataset"]
    BY <1>1, AnalyticsOrder
  <2>3. Sane(Q, root["dataset"])
    BY <1>1, <2>2, LoadKeepsSane
  <2> QED BY <1>1, <2>1, <2>3, DisksUnchanged
<1>3. CASE ~(root[source] # None)
  <2>1. proc' = [proc EXCEPT ![p] = Idle]
    BY <1>3 DEF LoadSource, Source, Fail
  <2> QED BY <1>1, <2>1, DisksUnchanged
<1> QED BY <1>2, <1>3

LEMMA HashPreservesInv == ASSUME Inv, NEW p \in Process, HashSource(p) PROVE Inv'
<1> DEFINE P == proc[p]
           source == Head(proc[p].todo).stage
           Q == [P EXCEPT !.todo = Tail(@), !.read = P.read \cup {<<source, root[source]>>},
                          !.hash[source] = root[source].manifest]
<1>1. /\ Sane(P, root["dataset"]) /\ P.todo # <<>> /\ Head(P.todo).op = "hash"
      /\ UNCHANGED <<root, builds, edits>> /\ commands' \in 0..MaxCommands
  BY DEF HashSource, At, Inv, Underway, TypeOK
<1>2. proc' = [proc EXCEPT ![p] = Q]
  BY DEF HashSource, Source, Noted
<1>3. Sane(Q, root["dataset"])
  BY <1>1, HashKeepsSane
<1> QED BY <1>1, <1>2, <1>3, DisksUnchanged

LEMMA AbortPreservesInv == ASSUME Inv, NEW p \in Process, Abort(p) PROVE Inv'
<1>1. /\ UNCHANGED <<root, builds, edits>> /\ commands' \in 0..MaxCommands
      /\ proc' = [proc EXCEPT ![p] = Idle]
  BY DEF Abort, Fail, Inv, TypeOK
<1> QED BY <1>1, DisksUnchanged

\* A publication adds a build, and what it puts in place is whole.
LEMMA ExportPreservesInv == ASSUME Inv, NEW p \in Process, ExportArtifact(p) PROVE Inv'
<1> DEFINE P == proc[p]
           s == proc[p].stage
<1>1. /\ proc[p] # Idle /\ P.todo = <<>> /\ proc' = [proc EXCEPT ![p] = Idle]
      /\ UNCHANGED <<commands, edits>>
  BY DEF ExportArtifact, Fail
<1>2. s \in Stage /\ DOMAIN root = Stage /\ DOMAIN builds = Stage
  BY <1>1 DEF Inv, Underway, Sane, TypeOK
<1>3. CASE UNCHANGED <<root, builds>>
  BY <1>1, <1>3, DisksUnchanged DEF Inv, TypeOK
<1>4. CASE Computable(p) /\ (root[s] = None \/ P.overwrite)
  <2>1. PICK runtime \in Runtime :
           /\ root' = [root EXCEPT ![s] = Built(p, runtime)]
           /\ builds' = [builds EXCEPT ![s] = @ \cup {[tree |-> Built(p, runtime),
                                                       read |-> P.read]}]
    BY <1>4 DEF ExportArtifact
  <2>2. PICK b : b = [tree |-> Built(p, runtime), read |-> P.read]
    OBVIOUS
  <2>3. Whole(s, b.tree) /\ Derived(s, b)
    BY <1>1, <1>4, <2>2, BuiltIsSound DEF Inv
  <2>4. /\ root' = [root EXCEPT ![s] = b.tree]
        /\ builds' = [builds EXCEPT ![s] = @ \cup {b}]
    BY <2>1, <2>2
  <2>5. Builds'
    <3> SUFFICES ASSUME NEW r \in Stage, NEW a \in builds'[r] PROVE Whole(r, a.tree) /\ Derived(r, a)
      BY DEF Builds
    <3>1. a \in builds[r] \/ (r = s /\ a = b)
      BY <1>2, <2>4
    <3> QED BY <2>3, <3>1 DEF Inv, Builds
  <2>6. Standing'
    <3> SUFFICES ASSUME NEW r \in Stage, root'[r] # None
                 PROVE  /\ root'[r] = [manifest |-> root'[r].manifest, tables |-> root'[r].tables,
                                       config |-> root'[r].config, marker |-> root'[r].marker]
                        /\ \E a \in builds'[r] : root'[r].manifest = a.tree.manifest
      BY DEF Standing
    <3>1. CASE r = s
      <4>1. root'[r] = b.tree /\ b \in builds'[r]
        BY <1>2, <2>4, <3>1
      <4> QED BY <2>3, <3>1, <4>1, WholeIsMadeOfFiles
    <3>2. CASE r # s
      <4>1. root'[r] = root[r] /\ builds'[r] = builds[r]
        BY <1>2, <2>4, <3>2
      <4> QED BY <4>1 DEF Inv, Standing
    <3> QED BY <3>1, <3>2
  <2>7. TypeOK'
    <3>1. DOMAIN b.tree = File
      BY <1>2, <2>3, WholeIsMadeOfFiles
    <3>2. \A r \in Stage : root'[r] = root[r] \/ root'[r] = b.tree
      BY <1>2, <2>4
    <3>3. \A r \in Stage : \A a \in builds'[r] : a \in builds[r] \/ a = b
      BY <1>2, <2>4
    <3>4. DOMAIN root' = Stage /\ DOMAIN builds' = Stage /\ DOMAIN proc' = Process
      BY <1>1, <2>4 DEF Inv, TypeOK
    <3>5. \A r \in Stage : root'[r] = None \/ DOMAIN root'[r] = File
      BY <3>1, <3>2 DEF Inv, TypeOK
    <3>6. \A r \in Stage : \A a \in builds'[r] : DOMAIN a.tree = File
      BY <3>1, <3>3 DEF Inv, TypeOK
    <3> QED BY <1>1, <3>4, <3>5, <3>6 DEF Inv, TypeOK
  <2>8. Intact(root["dataset"]) => Intact(root'["dataset"])
    BY <1>2, <2>3, <2>4, WholeIsMadeOfFiles DEF Stage
  <2>9. Underway'
    BY <1>1, <2>8, UnderwayStep
  <2> QED BY <2>5, <2>6, <2>7, <2>9 DEF Inv
<1> QED BY <1>3, <1>4 DEF ExportArtifact

\* A file of a published tree is put back while no build runs.
LEMMA RestorePreservesInv ==
    ASSUME Inv, NEW s \in Stage, NEW file \in File, RestoreFile(s, file)
    PROVE  Inv'
<1>1. PICK g \in Published(s) : root' = [root EXCEPT ![s][file] = g[file]]
  BY DEF RestoreFile
<1>2. PICK b \in builds[s] : g = b.tree
  BY DEF Published
<1>3. /\ root[s] # None /\ UNCHANGED <<builds, proc, commands>>
      /\ edits' \in 0..MaxEdits /\ \A p \in Process : proc[p] = Idle
  BY PipelineAssumption DEF RestoreFile, Inv, TypeOK
<1>4. root' = [root EXCEPT ![s] = [root[s] EXCEPT ![file] = b.tree[file]]]
  BY <1>1, <1>2
<1>5. DOMAIN root = Stage /\ DOMAIN root[s] = File
  BY <1>3 DEF Inv, TypeOK
<1>6. /\ \A r \in Stage : r # s => root'[r] = root[r]
      /\ root'[s] = [root[s] EXCEPT ![file] = b.tree[file]]
  BY <1>4, <1>5
<1>7. root[s] = [manifest |-> root[s].manifest, tables |-> root[s].tables,
                 config |-> root[s].config, marker |-> root[s].marker]
  BY <1>3 DEF Inv, Standing
<1>8. DOMAIN root'[s] = File
  BY <1>5, <1>6
<1>9. root'[s] = [manifest |-> root'[s].manifest, tables |-> root'[s].tables,
                  config |-> root'[s].config, marker |-> root'[s].marker]
  BY <1>6, <1>7 DEF File
<1>10. root'[s].manifest = root[s].manifest \/ root'[s].manifest = b.tree.manifest
  BY <1>5, <1>6 DEF File
<1>11. \E a \in builds'[s] : root'[s].manifest = a.tree.manifest
  BY <1>3, <1>10 DEF Inv, Standing
<1>12. Standing'
  <2> SUFFICES ASSUME NEW r \in Stage, root'[r] # None
               PROVE  /\ root'[r] = [manifest |-> root'[r].manifest, tables |-> root'[r].tables,
                                     config |-> root'[r].config, marker |-> root'[r].marker]
                      /\ \E a \in builds'[r] : root'[r].manifest = a.tree.manifest
    BY DEF Standing
  <2>1. CASE r = s
    BY <1>9, <1>11, <2>1
  <2>2. CASE r # s
    BY <1>3, <1>6, <2>2 DEF Inv, Standing
  <2> QED BY <2>1, <2>2
<1>13. TypeOK'
  BY <1>3, <1>4, <1>6, <1>8 DEF Inv, TypeOK
<1>14. Builds' /\ Underway'
  BY <1>3 DEF Inv, Builds, Underway
<1> QED BY <1>12, <1>13, <1>14 DEF Inv

LEMMA StutterPreservesInv == Inv /\ UNCHANGED vars => Inv'
BY DEF Inv, TypeOK, Builds, Standing, Underway, vars

LEMMA NextPreservesInv == Inv /\ [Next]_vars => Inv'
<1> SUFFICES ASSUME Inv, [Next]_vars PROVE Inv'
  OBVIOUS
<1>1. CASE UNCHANGED vars
  BY <1>1, StutterPreservesInv
<1>2. ASSUME NEW p \in Process, Start(p) PROVE Inv'
  BY <1>2, StartPreservesInv
<1>3. ASSUME NEW p \in Process, CheckSource(p) PROVE Inv'
  BY <1>3, CheckPreservesInv
<1>4. ASSUME NEW p \in Process, LoadSource(p) PROVE Inv'
  BY <1>4, LoadPreservesInv
<1>5. ASSUME NEW p \in Process, HashSource(p) PROVE Inv'
  BY <1>5, HashPreservesInv
<1>6. ASSUME NEW p \in Process, ExportArtifact(p) PROVE Inv'
  BY <1>6, ExportPreservesInv
<1>7. ASSUME NEW p \in Process, Abort(p) PROVE Inv'
  BY <1>7, AbortPreservesInv
<1>8. ASSUME NEW s \in Stage, NEW file \in File, RestoreFile(s, file) PROVE Inv'
  BY <1>8, RestorePreservesInv
<1> QED BY <1>1, <1>2, <1>3, <1>4, <1>5, <1>6, <1>7, <1>8 DEF Next

THEOREM Invariance == Spec => []Inv
<1>1. Init => Inv
  BY InitImpliesInv
<1>2. Inv /\ [Next]_vars => Inv'
  BY NextPreservesInv
<1> QED BY <1>1, <1>2, PTL DEF Spec

-----------------------------------------------------------------------------
\* What stands at every path is absent or made of the files of an artifact.
THEOREM TypeCorrect == Spec => []TypeOK
<1>1. Inv => TypeOK
  BY DEF Inv
<1> QED BY <1>1, Invariance, PTL

\* An artifact that validates was published whole (simulator/validation.py:94),
\* however many files of earlier generations were put back.
THEOREM ValidArtifactsAreWhole == Spec => []ValidIsWhole
BY InvImpliesValidIsWhole, Invariance, PTL

\* A workspace called healthy shows analytics, impact and evidence computed from
\* the dataset beside them (tui/workspace.py:584), whatever was republished
\* between the validation, the load and the digest of a build.
THEOREM HealthyWorkspacesAreDerived == Spec => []HealthyIsDerived
BY InvImpliesHealthyIsDerived, Invariance, PTL

\* What no later build or file disturbed is accepted (tui/workspace.py:265), but
\* for a detection whose benchmark detected nothing, which is always refused
\* (detection/validation.py:255-276).
THEOREM UndisturbedWorkspacesAreHealthy == Spec => []UndisturbedIsHealthy
BY InvImpliesUndisturbedIsHealthy, Invariance, PTL
=============================================================================
