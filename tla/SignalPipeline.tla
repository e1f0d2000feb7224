--------------------------- MODULE SignalPipeline ---------------------------
(***************************************************************************)
(* The build commands of the signal artifacts, several at a time.          *)
(*                                                                         *)
(* Every build command validates, loads and takes the manifest digest of   *)
(* its sources under a lease of its own for each of the three, so a source *)
(* may be republished between any two of them.  Only the validators, which *)
(* are declared to read all their roots under one set of leases, see one   *)
(* cut.  Publication replaces a tree in one step (Publication.tla) and a   *)
(* reader sees one generation of a root (ArtifactLease.tla).               *)
(*                                                                         *)
(* While no build runs, an operator may put one file of an earlier         *)
(* generation back in place.                                               *)
(***************************************************************************)
EXTENDS Workspace, Sequences, TLC

CONSTANTS
    Process,           \* the processes that run build commands
    SimulationConfig,  \* resolved simulator configurations: [seed, window]
    Runtime,           \* what a manifest records of the interpreter
    StageConfig,       \* the configuration of each of the later stages
    MaxCommands,       \* bound: build commands started
    MaxEdits           \* bound: files put back by an operator

(* What a simulation leads to can be built and validated at every stage.    *)
Usable(config) ==
    LET analysed == Analysed(Simulated(config), StageConfig["analytics"]) IN
    /\ config.window \in CoveredWindows
    /\ Scored(analysed, StageConfig["detection"]) \notin Undetected

ASSUME PipelineAssumption ==
    /\ SimulationConfig \subseteq [seed : Nat, window : Nat]
    /\ Stage \subseteq DOMAIN StageConfig
    /\ \E c \in SimulationConfig : Usable(c)
    /\ Runtime # {}
    /\ MaxCommands \in Nat /\ MaxEdits \in Nat

VARIABLES
    root,        \* the tree that stands at the path of each stage
    builds,      \* history: every tree published at it, with what its builder had read
    proc,        \* what each process is doing
    commands,    \* commands started
    edits        \* files put back

vars == <<root, builds, proc, commands, edits>>

Published(s) == {b.tree : b \in builds[s]}

-----------------------------------------------------------------------------
(* The commands.  A step of a build is a call under one lease.             *)

Step(op, stage) == [op |-> op, stage |-> stage]
ReadSource(stage) == <<Step("check", stage), Step("load", stage), Step("hash", stage)>>

Optional(stage, sources) == IF stage \in sources THEN ReadSource(stage) ELSE <<>>

SimulateSteps == <<>>
AnalyticsSteps == ReadSource("dataset")
DetectionSteps ==
    <<Step("load", "analytics"), Step("check", "analytics"), Step("hash", "analytics")>>
ImpactSteps == ReadSource("dataset")
EvidenceSteps(sources) ==
    ReadSource("dataset") \o Optional("analytics", sources)
        \o Optional("detection", sources) \o Optional("impact", sources)

Steps(stage, sources) ==
    CASE stage = "dataset" -> SimulateSteps
      [] stage = "analytics" -> AnalyticsSteps
      [] stage = "detection" -> DetectionSteps
      [] stage = "impact" -> ImpactSteps
      [] stage = "evidence" -> EvidenceSteps(sources)

(* The source options of the build commands: those of analytics, detection *)
(* and impact are required; evidence refuses a detection source without    *)
(* its analytics.                                                          *)
SourceSets(stage) ==
    CASE stage = "dataset" -> {{}}
      [] stage \in {"analytics", "impact"} -> {{"dataset"}}
      [] stage = "detection" -> {{"analytics"}}
      [] stage = "evidence" ->
            {{"dataset"} \cup s : s \in
                {x \in SUBSET {"analytics", "detection", "impact"} :
                    "detection" \in x => "analytics" \in x}}

Configs(stage) == IF stage = "dataset" THEN SimulationConfig ELSE {StageConfig[stage]}

Nothing(stages) == [s \in stages |-> None]

Idle == [stage |-> None]

Running(stage, config, sources, overwrite) ==
    [stage |-> stage, config |-> config, overwrite |-> overwrite,
     todo |-> Steps(stage, sources), loaded |-> Nothing(sources), hash |-> Nothing(sources),
     read |-> {}]

-----------------------------------------------------------------------------
(* The stages as one undisturbed build of each leaves them.                *)

(* An artifact built from the trees of `given`, all read at once.          *)
Fresh(stage, given) ==
    LET config == StageConfig[stage]
        hash == [s \in DOMAIN given |-> given[s].manifest]
    IN CASE stage = "analytics" -> ExportAnalytics(config, given, hash)
         [] stage = "detection" -> ExportDetection(config, given, hash)
         [] stage = "impact" -> ExportImpact(config, given, hash)
         [] stage = "evidence" -> ExportEvidence(config, given, hash)

FirstBuild(config, runtime) ==
    LET dataset == ExportDataset(config, runtime)
        analytics == Fresh("analytics", [dataset |-> dataset])
        detection == Fresh("detection", [analytics |-> analytics])
        impact == Fresh("impact", [dataset |-> dataset])
        evidence == Fresh("evidence", [dataset |-> dataset, analytics |-> analytics,
                                       detection |-> detection, impact |-> impact])
    IN [dataset |-> dataset, analytics |-> analytics, detection |-> detection,
        impact |-> impact, evidence |-> evidence]

(* Which simulation stands first makes no difference. *)
FirstConfig == CHOOSE c \in SimulationConfig : Usable(c)
FirstRuntime == CHOOSE r \in Runtime : TRUE

FirstSources(s) ==
    CASE s = "dataset" -> {}
      [] s \in {"analytics", "impact"} -> {"dataset"}
      [] s = "detection" -> {"analytics"}
      [] s = "evidence" -> Stage \ {"evidence"}

Init ==
    /\ root \in {Nothing(Stage), FirstBuild(FirstConfig, FirstRuntime)}
    /\ builds = [s \in Stage |->
                    IF root[s] = None THEN {}
                    ELSE {[tree |-> root[s],
                           read |-> {<<x, root[x]>> : x \in FirstSources(s)}]}]
    /\ proc = [p \in Process |-> Idle]
    /\ commands = 0
    /\ edits = 0

-----------------------------------------------------------------------------
Start(p) ==
    /\ proc[p] = Idle
    /\ commands < MaxCommands
    /\ \E stage \in Stage : \E config \in Configs(stage),
          sources \in SourceSets(stage), overwrite \in BOOLEAN :
          proc' = [proc EXCEPT ![p] = Running(stage, config, sources, overwrite)]
    /\ commands' = commands + 1
    /\ UNCHANGED <<root, builds, edits>>

At(p, op) ==
    /\ proc[p] # Idle
    /\ proc[p].todo # <<>>
    /\ Head(proc[p].todo).op = op

Source(p) == Head(proc[p].todo).stage

(* A command that raises ends with exit code 2 and has published nothing.  *)
Fail(p) == proc' = [proc EXCEPT ![p] = Idle]

Noted(p) == proc[p].read \cup {<<Source(p), root[Source(p)]>>}

(* The directories a builder validates a source with: none but the source  *)
(* itself, except in build_evidence.                                       *)
Supplied(p) ==
    IF proc[p].stage = "evidence" THEN Only(root, CheckedAgainst(Source(p)))
    ELSE Only(root, {})

CheckSource(p) ==
    /\ At(p, "check")
    /\ IF SourceValid(Source(p), root[Source(p)], Supplied(p))
       THEN proc' = [proc EXCEPT ![p].todo = Tail(@), ![p].read = Noted(p)]
       ELSE Fail(p)
    /\ UNCHANGED <<root, builds, commands, edits>>

LoadSource(p) ==
    /\ At(p, "load")
    /\ IF root[Source(p)] # None
       THEN proc' = [proc EXCEPT ![p].todo = Tail(@), ![p].read = Noted(p),
                                 ![p].loaded[Source(p)] = root[Source(p)]]
       ELSE Fail(p)
    /\ UNCHANGED <<root, builds, commands, edits>>

HashSource(p) ==
    /\ At(p, "hash")
    /\ proc' = [proc EXCEPT ![p].todo = Tail(@), ![p].read = Noted(p),
                            ![p].hash[Source(p)] = root[Source(p)].manifest]
    /\ UNCHANGED <<root, builds, commands, edits>>

(* build_impact refuses a dataset whose window does not hold the pre-period *)
(* and the horizon; a failed quality gate, a full disk or a kill before the *)
(* publication is Abort.                                                    *)
Computable(p) ==
    proc[p].stage = "impact" =>
        proc[p].loaded["dataset"].manifest.config.window \in CoveredWindows

Built(p, runtime) ==
    LET loaded == proc[p].loaded
        hash == proc[p].hash
        config == proc[p].config
    IN CASE proc[p].stage = "dataset" -> ExportDataset(config, runtime)
         [] proc[p].stage = "analytics" -> ExportAnalytics(config, loaded, hash)
         [] proc[p].stage = "detection" -> ExportDetection(config, loaded, hash)
         [] proc[p].stage = "impact" -> ExportImpact(config, loaded, hash)
         [] proc[p].stage = "evidence" -> ExportEvidence(config, loaded, hash)

(* export_<stage>: the publisher replaces a standing artifact only when it *)
(* was told to overwrite it.                                               *)
ExportArtifact(p) ==
    /\ proc[p] # Idle
    /\ proc[p].todo = <<>>
    /\ LET s == proc[p].stage IN
       IF Computable(p) /\ (root[s] = None \/ proc[p].overwrite)
       THEN \E runtime \in Runtime :
              /\ s # "dataset" => runtime = FirstRuntime
              /\ root' = [root EXCEPT ![s] = Built(p, runtime)]
              /\ builds' = [builds EXCEPT ![s] = @ \cup {[tree |-> Built(p, runtime),
                                                          read |-> proc[p].read]}]
       ELSE UNCHANGED <<root, builds>>
    /\ Fail(p)
    /\ UNCHANGED <<commands, edits>>

Abort(p) ==
    /\ proc[p] # Idle
    /\ Fail(p)
    /\ UNCHANGED <<root, builds, commands, edits>>

(* Not a command: a file of an earlier generation is copied back, while no *)
(* build runs - a builder does not look at the digests again when it loads *)
(* what it has validated.                                                  *)
RestoreFile(s, file) ==
    /\ \A p \in Process : proc[p] = Idle
    /\ edits < MaxEdits
    /\ root[s] # None
    /\ \E g \in Published(s) :
          /\ g[file] # root[s][file]
          /\ root' = [root EXCEPT ![s][file] = g[file]]
    /\ edits' = edits + 1
    /\ UNCHANGED <<builds, proc, commands>>

Next ==
    \/ \E p \in Process : Start(p) \/ CheckSource(p) \/ LoadSource(p) \/ HashSource(p)
                             \/ ExportArtifact(p) \/ Abort(p)
    \/ \E s \in Stage, file \in File : RestoreFile(s, file)

Spec == Init /\ [][Next]_vars

-----------------------------------------------------------------------------
(* What the stages other than the dataset were computed from.              *)
DerivedFrom(tree, source) ==
    source # None /\ tree.tables.of = source.tables

SourceOf(s) == IF s = "detection" THEN "analytics" ELSE "dataset"

Workspaces == SUBSET Stage

(* An artifact that validates on its own is one that was published whole:  *)
(* no mixture of the files of two generations passes                       *)
(* (simulator/validation.py:94 and the validators of the other stages).    *)
ValidIsWhole ==
    \A s \in Stage : root[s] # None =>
        LET valid == IF s = "dataset" THEN DatasetValid(root[s])
                     ELSE IF s = "evidence"
                     THEN EvidenceValid(root[s], Only(root, Stage \ {"evidence"}))
                     ELSE SourceValid(s, root[s], Only(root, {}))
        IN valid => root[s] \in Published(s)

(* A workspace the control room calls healthy (tui/workspace.py:584) shows *)
(* stages that were computed from the very tables that stand beside them,  *)
(* whatever was republished while they were built.  Detection is left to   *)
(* DetectionFromStanding.                                                  *)
HealthyIsDerived ==
    \A w \in Workspaces : Overall(SignalStatuses(w, root)) = "healthy" =>
        \A s \in w \ {"dataset", "detection"} : DerivedFrom(root[s], root[SourceOf(s)])

(* docs/ANOMALY_DETECTION.md:134: the manifest of a detection artifact     *)
(* binds it to the exact source analytics; one that validates against the  *)
(* analytics that stands was computed from its tables.                     *)
DetectionFromStanding ==
    \A w \in Workspaces :
        (DetectionStage(w, root) = "healthy") =>
            DerivedFrom(root["detection"], root["analytics"])

(* The validators accept what the builders produce, but for one thing: when *)
(* everything the builder of each standing directory had read still stands, *)
(* and the evidence was built from all the others (tui/workspace.py:265, the *)
(* exact source set), the control room finds nothing wrong unless the       *)
(* detection ran a benchmark that detected nothing, which is exported and   *)
(* then always refused (detection/validation.py:255-276).                   *)
UndisturbedIsHealthy ==
    LET w == {s \in Stage : root[s] # None}
        undisturbed == \A s \in w :
            /\ \E b \in builds[s] :
                  LET sources == {x[1] : x \in b.read} IN
                  /\ b.tree = root[s]
                  /\ b.read = {<<x, root[x]>> : x \in sources}
                  /\ s = "evidence" => sources = w \ {"evidence"}
            /\ s # "dataset" => SourceOf(s) \in w
        missed == "detection" \in w /\ ~Summarised(root["detection"])
    IN w # {} /\ undisturbed =>
          Overall(SignalStatuses(w, root)) = IF missed THEN "error" ELSE "healthy"

\* The signal commands keep to their types: what stands on the disk, what was
\* published there, and the bounds on commands and edits.
TypeOK ==
    /\ DOMAIN root = Stage /\ DOMAIN builds = Stage /\ DOMAIN proc = Process
    /\ \A s \in Stage : root[s] = None \/ DOMAIN root[s] = File
    /\ \A s \in Stage : \A b \in builds[s] : DOMAIN b.tree = File
    /\ commands \in 0..MaxCommands /\ edits \in 0..MaxEdits

=============================================================================
