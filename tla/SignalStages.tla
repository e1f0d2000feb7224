---------------------------- MODULE SignalStages ----------------------------
(***************************************************************************)
(* The five signal artifacts - dataset, analytics, detection, impact and   *)
(* evidence - as what their exporters write and their validators compare.  *)
(*                                                                         *)
(* An artifact directory is a record of its files: the tables, the         *)
(* resolved configuration, manifest.json and the _SUCCESS marker.  A       *)
(* SHA-256 digest is the content it is the digest of, so "the digests are  *)
(* equal" is "the contents are equal".  The tables a builder computes are  *)
(* a function of its configuration and of what it read, and are named by   *)
(* both; sizes, row counts, schemas, keys, counts and time bounds recorded *)
(* in a manifest describe those tables and are compared with them, as the  *)
(* digest of the tables is.                                                *)
(***************************************************************************)
EXTENDS Naturals, FiniteSets

CONSTANTS
    None,              \* no artifact at a path
    CoveredWindows,    \* the windows that hold an impact configuration's horizon
    Undetected         \* the detection tables whose benchmark has scenarios, all missed

(* What is named by a --<x>-dir option, and the files of one directory.    *)
Stage == {"dataset", "analytics", "detection", "impact", "evidence"}
File == {"manifest", "tables", "config", "marker"}

-----------------------------------------------------------------------------
(* What the builders compute.                                              *)

Simulated(config) == [stage |-> "dataset", config |-> config]

Analysed(tables, config) ==
    [stage |-> "analytics", config |-> config, of |-> tables]

Scored(tables, config) ==
    [stage |-> "detection", config |-> config, of |-> tables]

Measured(tables, config) ==
    [stage |-> "impact", config |-> config, of |-> tables]

(* Every source artifact is an evidence record whose payload is the whole  *)
(* manifest that was loaded.                                               *)
Assembled(tables, records, config) ==
    [stage |-> "evidence", config |-> config, of |-> tables, records |-> records]

-----------------------------------------------------------------------------
(* The manifests, from the artifacts a builder loaded and the digests it   *)
(* took of their manifests: functions on the sources it was given.         *)

DatasetManifest(config, runtime) ==
    [config |-> config, runtime |-> runtime, tables |-> Simulated(config)]

AnalyticsManifest(config, loaded, hash) ==
    [config |-> config, source |-> hash, simulation |-> loaded.manifest.config,
     tables |-> Analysed(loaded.tables, config)]

DetectionManifest(config, loaded, hash) ==
    [config |-> config, source |-> hash, analytics |-> loaded.manifest.config,
     window |-> loaded.manifest.simulation.window,
     tables |-> Scored(loaded.tables, config)]

ImpactManifest(config, loaded, hash) ==
    [config |-> config, source |-> hash, simulation |-> loaded.manifest.config,
     tables |-> Measured(loaded.tables, config)]

EvidenceManifest(config, loaded, hash) ==
    [config |-> config, hash |-> hash, simulation |-> loaded["dataset"].manifest.config,
     tables |-> Assembled(loaded["dataset"].tables,
                          {loaded[s].manifest : s \in DOMAIN loaded \ {"dataset"}}, config)]

(* A defect for the runs: marked like the later stages. *)
DigestMarkedTree(manifest) ==
    [manifest |-> manifest, tables |-> manifest.tables,
     config |-> manifest.config, marker |-> manifest]

(* The marker of a dataset holds the digest of its configuration, that of  *)
(* every later stage the digest of its manifest.                           *)
DatasetTree(manifest) ==
    [manifest |-> manifest, tables |-> manifest.tables,
     config |-> manifest.config, marker |-> manifest.config]

SealedTree(manifest) ==
    [manifest |-> manifest, tables |-> manifest.tables,
     config |-> manifest.config, marker |-> manifest]

(* export_<stage>: what is written into the staging directory that the      *)
(* publisher then exchanges for the standing one.                          *)
ExportDataset(config, runtime) == DatasetTree(DatasetManifest(config, runtime))

ExportAnalytics(config, loaded, hash) ==
    SealedTree(AnalyticsManifest(config, loaded["dataset"], hash["dataset"]))

ExportDetection(config, loaded, hash) ==
    SealedTree(DetectionManifest(config, loaded["analytics"], hash["analytics"]))

ExportImpact(config, loaded, hash) ==
    SealedTree(ImpactManifest(config, loaded["dataset"], hash["dataset"]))

ExportEvidence(config, loaded, hash) ==
    SealedTree(EvidenceManifest(config, loaded, hash))

-----------------------------------------------------------------------------
(* The validators.  `given` maps the stages whose directories were         *)
(* supplied to what stands there.                                          *)

MatchesManifest(tree) ==
    /\ tree.tables = tree.manifest.tables
    /\ tree.config = tree.manifest.config

(* A defect for the runs: any marker will do. *)
Described(tree) == tree # None /\ MatchesManifest(tree)

Sealed(tree) ==
    /\ tree # None
    /\ tree.marker = tree.manifest
    /\ MatchesManifest(tree)

DatasetValid(tree) ==
    /\ tree # None
    /\ tree.marker = tree.manifest.config
    /\ MatchesManifest(tree)

AnalyticsValid(tree, given) ==
    /\ Sealed(tree)
    /\ "dataset" \in DOMAIN given =>
          /\ DatasetValid(given["dataset"])
          /\ given["dataset"].manifest.config = tree.manifest.simulation
          /\ given["dataset"].manifest = tree.manifest.source

(* A benchmark is summarised by its mean delay among others, which is null *)
(* if no scenario was detected; the validator takes no null.               *)
Summarised(tree) == tree.tables \notin Undetected

DetectionValid(tree, given) ==
    /\ Sealed(tree)
    /\ Summarised(tree)
    /\ "analytics" \in DOMAIN given =>
          LET source == given["analytics"] IN
          /\ source # None
          /\ source.manifest = tree.manifest.source
          /\ source.manifest.config = tree.manifest.analytics
          /\ source.manifest.simulation.window = tree.manifest.window

(* build_impact, on the dataset that stands while its validator holds it,  *)
(* does not raise and computes these tables.                               *)
ImpactRebuilt(dataset, config, tables) ==
    /\ DatasetValid(dataset)
    /\ dataset.manifest.config.window \in CoveredWindows
    /\ tables = Measured(dataset.tables, config)

(* A defect for the runs: the source is compared by its digest, and nothing rebuilt. *)
ImpactHashed(tree, given) ==
    /\ Sealed(tree)
    /\ "dataset" \in DOMAIN given =>
          /\ given["dataset"] # None
          /\ given["dataset"].manifest = tree.manifest.source

ImpactValid(tree, given) ==
    /\ Sealed(tree)
    /\ "dataset" \in DOMAIN given =>
          /\ given["dataset"] # None
          /\ given["dataset"].manifest = tree.manifest.source
          /\ ImpactRebuilt(given["dataset"], tree.config, tree.tables)

(* validate_<stage>_directory of a source, as a builder or an operator     *)
(* calls it with the directories in `given`.                               *)
SourceValid(stage, tree, given) ==
    CASE stage = "dataset" -> DatasetValid(tree)
      [] stage = "analytics" -> AnalyticsValid(tree, given)
      [] stage = "detection" -> DetectionValid(tree, given)
      [] stage = "impact" -> ImpactValid(tree, given)

(* The sources _source_artifact_evidence validates a source against.       *)
CheckedAgainst(stage) ==
    CASE stage \in {"analytics", "impact"} -> {"dataset"}
      [] stage = "detection" -> {"analytics"}
      [] OTHER -> {}

Only(given, stages) == [s \in DOMAIN given \cap stages |-> given[s]]

(* build_evidence, on the sources that stand while its validator holds     *)
(* them, does not raise and computes these tables.                         *)
EvidenceRebuilt(given, config, tables) ==
    /\ "detection" \in DOMAIN given => "analytics" \in DOMAIN given
    /\ \A s \in DOMAIN given : SourceValid(s, given[s], Only(given, CheckedAgainst(s)))
    /\ tables = Assembled(given["dataset"].tables,
                          {given[s].manifest : s \in DOMAIN given \ {"dataset"}}, config)

EvidenceValid(tree, given) ==
    /\ Sealed(tree)
    /\ "detection" \in DOMAIN tree.manifest.hash => "analytics" \in DOMAIN tree.manifest.hash
    /\ "detection" \in DOMAIN given => "analytics" \in DOMAIN given
    /\ \A s \in DOMAIN tree.manifest.hash :
          /\ s \in DOMAIN given
          /\ given[s] # None
          /\ given[s].manifest = tree.manifest.hash[s]
    /\ "dataset" \in DOMAIN given => EvidenceRebuilt(given, tree.config, tree.tables)

=============================================================================
