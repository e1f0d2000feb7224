------------------------------ MODULE Detector ------------------------------
(***************************************************************************)
(* One `detection build`: build_detection of detection/engine.py, its      *)
(* export and the checks validate_detection_directory makes of the result. *)
(*                                                                         *)
(* The engine scores each series row by row against a history it builds as *)
(* it goes, carries two CUSUM sums and a sequential likelihood from row to *)
(* row, adjusts the p-values of each period over all series, applies the   *)
(* alert policy, groups alerts into events and measures itself against the *)
(* perturbations it injected.  Every stage reads what earlier ones wrote.  *)
(*                                                                         *)
(* Values are integers and every baseline has the configured minimum scale *)
(* (its MAD is below it); medians, residuals and standard scores are kept  *)
(* doubled, so that the median of an even history is an integer.  The      *)
(* p-value of a row is data.  p-values are multiples of 6 so that the      *)
(* adjusted values of at most three series are integers.  The monitored    *)
(* metric is a count, as the benchmark perturbs it.                        *)
(***************************************************************************)
EXTENDS Sums, SequencesExt, FiniteSetsExt

CONSTANTS Config,      \* the resolved configuration, a record
          Series,      \* 1..n, in the order the engine scores them
          Periods,     \* the number of periods of the time grain
          Feed,        \* Feed[s][p]: the rows analytics may hold there
          Benchmarks,  \* the lists of benchmark scenarios a build may have
          Absent,      \* no row of the series in a period
          None

VARIABLES stage,       \* where build_detection is
          benchmark,   \* the scenarios of this build
          rows,        \* per series, its detector observations so far
          carried,     \* per series, its history, CUSUM and sequential state
          groups,      \* per series, the alerts grouped so far
          events, results, summary,
          artifact     \* what export_detection published

vars == <<stage, benchmark, rows, carried, groups, events, results, summary, artifact>>

(* What the validators of DetectionConfig and BaselineWindow demand.       *)
ConfigAssumption ==
    /\ Config.lookback >= 4 /\ Config.minimumHistory \in 3..Config.lookback
    /\ Config.minimumSeasonal \in 2..Config.lookback
    /\ Config.seasonal >= 1 /\ Config.minimumScale > 0
    /\ Config.drift \in Nat \ {0} /\ Config.cusumThreshold \in Nat \ {0}
    /\ Config.minimumSupport \in 1..4 /\ Config.minimumSample >= 1

ASSUME ConfigAssumption

Divides(k, n) == \E j \in 0..n : n = k * j

(* What analytics may hold; p-values and their level are counted in a unit  *)
(* small enough that every adjusted value is an integer.                   *)
FeedAssumption ==
    /\ IsFiniteSet(Series) /\ Series \subseteq Nat /\ Periods \in Nat
    /\ Config.alpha \in Nat /\ None \notin Int
    /\ \A s \in Series, t \in 1..Periods : \A row \in Feed[s][t] \ {Absent} :
          /\ DOMAIN row = {"value", "quality", "sample", "p"}
          /\ row.value \in Nat \cup {None}
          /\ row.p \in Nat /\ \A k \in 1..Cardinality(Series) : Divides(k, row.p)

ASSUME FeedAssumption

(* BenchmarkScenario and the identifiers of DetectionConfig.               *)
BenchmarkAssumption ==
    \A scs \in Benchmarks :
        /\ None \notin scs
        /\ \A sc \in scs : /\ sc.start \in Int /\ sc.duration \in Nat \ {0}
                           /\ sc.magnitude \in Int /\ sc.drift \in BOOLEAN
                           /\ sc.id # None
        /\ \A a, b \in scs : a.id = b.id => a = b

ASSUME BenchmarkAssumption

Absolute(i) == IF i < 0 THEN -i ELSE i

(* The last n points of a history.                                         *)
Latest(history, n) ==
    {h \in history : Cardinality({x \in history : x.period >= h.period}) <= n}
-----------------------------------------------------------------------------
(* The benchmark: which scenario a row belongs to and what it becomes.     *)

Window(sc) == sc.start .. (sc.start + sc.duration - 1)

Overlapping(scs) == \E a, b \in scs :
    /\ a # b /\ a.series = b.series
    /\ Window(a) \cap Window(b) # {}

(* A scenario that matches fewer rows than it has periods.                 *)
Unmatched(sc) == sc.series \notin Series \/ ~(Window(sc) \subseteq 1..Periods)

ScenarioOf(s, p) ==
    LET mine == {sc \in benchmark : sc.series = s /\ p \in Window(sc)}
    IN  IF mine = {} THEN None ELSE CHOOSE sc \in mine : TRUE

Perturb(value, sc, p) ==
    LET share == IF sc.drift THEN p - sc.start + 1 ELSE sc.duration
    IN  Max({0, (value * (100 * sc.duration + sc.magnitude * share))
                  \div (100 * sc.duration)})

(* The count of a perturbed row is also its sample size.                   *)
Injected(row, sc, p) ==
    IF sc = None THEN row
    ELSE LET v == Perturb(row.value, sc, p)
         IN  [row EXCEPT !.value = v, !.sample = v]
-----------------------------------------------------------------------------
(* Scoring one row of one series.                                          *)

FreshState == [history |-> {},
               cusum |-> [up |-> 0, down |-> 0, upStart |-> 0, downStart |-> 0,
                          above |-> FALSE],
               sequential |-> [up |-> 0, down |-> 0, above |-> FALSE]]

(* The k-th smallest value of some points.                                 *)
Smallest(points, k) ==
    Min({h.value : h \in {x \in points :
            Cardinality({y \in points : y.value <= x.value}) >= k}})

TwiceMedian(points) ==
    LET n == Cardinality(points)
    IN  Smallest(points, (n + 1) \div 2) + Smallest(points, n \div 2 + 1)

SeasonMatches(now, then) ==
    now - then >= Config.seasonal /\ (now - then) % Config.seasonal = 0

Seasonal(now, recent) ==
    {h \in recent : SeasonMatches(now, h.period)}

Baseline(now, recent) ==
    LET same == Seasonal(now, recent)
    IN  IF Cardinality(same) >= Config.minimumSeasonal THEN same ELSE recent

(* A defect for the runs: the start of a sum is never moved.               *)
UpdateCusumFrozen(st, z, now) ==
    LET up == Max({0, st.up + z - Config.drift})
        down == Max({0, st.down - z - Config.drift})
        above == Max({up, down}) >= Config.cusumThreshold
    IN  [up |-> up, down |-> down, above |-> above,
         upStart |-> IF st.upStart = 0 THEN now ELSE st.upStart,
         downStart |-> IF st.downStart = 0 THEN now ELSE st.downStart]

UpdateCusum(st, z, now) ==
    LET up == Max({0, st.up + z - Config.drift})
        down == Max({0, st.down - z - Config.drift})
        above == Max({up, down}) >= Config.cusumThreshold
    IN  [up |-> up, down |-> down, above |-> above,
         upStart |-> IF st.up <= 0 THEN now ELSE st.upStart,
         downStart |-> IF st.down <= 0 THEN now ELSE st.downStart]

(* The likelihood is kept doubled, in the units of z squared.              *)
UpdateSequential(st, z) ==
    LET up == Max({0, st.up + 2 * Config.shift * z - Config.shift * Config.shift})
        down == Max({0, st.down - 2 * Config.shift * z - Config.shift * Config.shift})
    IN  [up |-> up, down |-> down,
         above |-> Max({up, down}) >= Config.sequentialThreshold]

Direction(residual) ==
    IF residual = None THEN "flat"
    ELSE IF residual > 0 THEN "increase"
    ELSE IF residual < 0 THEN "decrease" ELSE "flat"

(* A defect for the runs: the sample size is not asked for.                *)
EligibleUnsampled(row, recent) ==
    /\ row.value # None
    /\ row.quality \in {"ok", "insufficient_data"}
    /\ Cardinality(recent) >= Config.minimumHistory

Eligible(row, recent) ==
    /\ row.value # None
    /\ row.quality \in {"ok", "insufficient_data"}
    /\ row.sample >= Config.minimumSample
    /\ Cardinality(recent) >= Config.minimumHistory

(* An observation with nothing decided of it yet.                          *)
Observation(s, now, row, sc, st) ==
    LET recent   == Latest(st.history, Config.lookback)
        base     == Baseline(now, recent)
        scored   == row.value # None /\ base # {}
        expected == TwiceMedian(base)
        z        == 2 * row.value - expected
        live     == Eligible(row, recent) /\ scored
        cusum    == UpdateCusum(st.cusum, z, now)
        llr      == UpdateSequential(st.sequential, z)
        side     == IF cusum.up >= cusum.down THEN cusum.upStart
                                              ELSE cusum.downStart
    IN  [series |-> s, start |-> now, scenario |-> IF sc = None THEN None ELSE sc.id,
         last |-> IF recent = {} THEN None
                  ELSE Max({h.period : h \in recent}),
         expected |-> IF scored THEN expected ELSE None,
         z |-> IF scored THEN z ELSE None,
         direction |-> Direction(IF scored THEN z ELSE None),
         historyGate |-> Cardinality(recent) >= Config.minimumHistory,
         sampleGate |-> row.sample >= Config.minimumSample,
         eligible |-> Eligible(row, recent),
         p |-> IF live THEN row.p ELSE None,
         q |-> None,
         cusum |-> IF live THEN Max({cusum.up, cusum.down}) ELSE 0,
         changed |-> live /\ cusum.above /\ ~st.cusum.above,
         changeStart |-> IF live /\ cusum.above THEN side ELSE None,
         llr |-> IF live THEN Max({llr.up, llr.down}) ELSE 0,
         effectGate |-> FALSE, supports |-> {}, anomaly |-> FALSE,
         score |-> 0, severity |-> "none"]

Carry(now, row, st) ==
    LET recent   == Latest(st.history, Config.lookback)
        base     == Baseline(now, recent)
        live     == Eligible(row, recent) /\ base # {}
        z        == 2 * row.value - TwiceMedian(base)
    IN  [history |-> IF row.value # None /\ row.quality # "invalid"
                     THEN st.history \cup {[period |-> now, value |-> row.value]}
                     ELSE st.history,
         cusum |-> IF live THEN UpdateCusum(st.cusum, z, now) ELSE st.cusum,
         sequential |-> IF live THEN UpdateSequential(st.sequential, z)
                                ELSE st.sequential]
-----------------------------------------------------------------------------
(* The adjusted p-values of one period: benjamini_hochberg of the rows     *)
(* that have one, a running minimum from the largest rank down.            *)

Rows == UNION {Range(rows[s]) : s \in Series}
Family(p) == {r \in Rows : r.start = p /\ r.eligible /\ r.p # None}

Rank(family, r) ==
    Cardinality({x \in family : x.p < r.p \/ (x.p = r.p /\ x.series <= r.series)})

(* A defect for the runs: the running minimum is left out.                 *)
AdjustedAlone(family, r) == (r.p * Cardinality(family)) \div Rank(family, r)

Adjusted(family, r) ==
    Min({(x.p * Cardinality(family)) \div Rank(family, x) :
            x \in {y \in family : Rank(family, y) >= Rank(family, r)}})

WithQ(r) == IF r \in Family(r.start)
            THEN [r EXCEPT !.q = Adjusted(Family(r.start), r)] ELSE r
-----------------------------------------------------------------------------
(* The alert policy.                                                       *)

HasRelative(r) ==
    r.expected # None /\ Absolute(r.expected) > 2 * Config.minimumScale

Effect(r) ==
    \/ /\ HasRelative(r)
       /\ 100 * Absolute(r.z) >= Config.minimumRelative * Absolute(r.expected)
    \/ /\ Config.minimumAbsolute > 0
       /\ r.z # None /\ Absolute(r.z) >= 2 * Config.minimumAbsolute

Supports(r) ==
    {n \in {"robust", "fdr", "cusum", "sequential"} :
        CASE n = "robust" -> r.z # None /\ Absolute(r.z) >= Config.zThreshold
          [] n = "fdr" -> r.q # None /\ r.q <= Config.alpha
          [] n = "cusum" -> r.cusum >= Config.cusumThreshold
          [] n = "sequential" -> r.llr >= Config.sequentialThreshold}

Part(weight, amount, full) == (weight * Min({amount, full})) \div full

(* evidence_score in hundredths; what a q-value and a relative change add  *)
(* to it is all or nothing.                                                *)
EvidenceScore(r) ==
    LET z == IF r.z = None THEN 0 ELSE Absolute(r.z)
    IN  Part(25, z, 2 * Config.zThreshold)
        + (IF r.q = None THEN 0 ELSE IF r.q <= Config.alpha THEN 25 ELSE 0)
        + Part(20, r.cusum, Config.cusumThreshold)
        + Part(15, r.llr, Config.sequentialThreshold)
        + (IF HasRelative(r) /\ Effect(r) THEN 15 ELSE 0)

Severity(score, support) ==
    IF score >= 85 /\ support >= 3 THEN "critical"
    ELSE IF score >= 65 /\ support >= 2 THEN "high"
    ELSE IF score >= 40 THEN "medium" ELSE "low"

Decided(r) ==
    LET s == Supports(r)
        anomaly == /\ r.eligible /\ "fdr" \in s /\ Effect(r)
                   /\ Cardinality(s) >= Config.minimumSupport
    IN  [r EXCEPT !.supports = s, !.effectGate = Effect(r), !.anomaly = anomaly,
                  !.score = EvidenceScore(r),
                  !.severity = IF anomaly
                               THEN Severity(EvidenceScore(r), Cardinality(s))
                               ELSE "none"]
-----------------------------------------------------------------------------
(* Events: the alerts of a series, split wherever a period is missing.     *)

(* A defect for the runs: the alert that opens a new group joins the old.  *)
JoinLate(gs, r) ==
    IF gs = <<>> \/ r.start > Last(Last(gs)).start + 2
    THEN Append(gs, <<r>>)
    ELSE [gs EXCEPT ![Len(gs)] = Append(@, r)]

Join(gs, r) ==
    IF gs = <<>> \/ r.start > Last(Last(gs)).start + 1
    THEN Append(gs, <<r>>)
    ELSE [gs EXCEPT ![Len(gs)] = Append(@, r)]

Anomalies == {r \in Rows : r.anomaly}

(* The alerts of a series are grouped in time order.                       *)
Ungrouped(s) == {r \in Anomalies :
    r.series = s /\ (groups[s] = <<>> \/ r.start > Last(Last(groups[s])).start)}

Peak(group) == CHOOSE i \in DOMAIN group :
    /\ \A j \in DOMAIN group : group[j].score <= group[i].score
    /\ \A j \in 1 .. (i - 1) : group[j].score < group[i].score

Event(group) ==
    [series |-> group[1].series, start |-> group[1].start,
     end |-> Last(group).start + 1, detected |-> group[1].start + 1,
     peak |-> group[Peak(group)].start, count |-> Len(group),
     direction |-> group[Peak(group)].direction,
     scenarios |-> {group[i].scenario : i \in DOMAIN group} \ {None}]

(* max() of the relative changes of a group that has none raises.          *)
Unmeasurable(group) == \A i \in DOMAIN group : ~HasRelative(group[i])

AllGroups == UNION {Range(groups[s]) : s \in Series}
Changes == {r \in Rows : r.changed}
-----------------------------------------------------------------------------
(* The benchmark results and their summary.                                *)

(* A defect for the runs: alerts outside the window count for it.          *)
AlertsAnywhere(sc) == {r \in Anomalies : r.series = sc.series}
Alerts(sc) == {r \in Anomalies : r.scenario = sc.id}

Target(sc) == {r \in Rows : r.scenario = sc.id}

(* The earliest event of the series that overlaps the window, if any.      *)
Near(sc) == {e \in events : /\ e.series = sc.series
                            /\ e.start < sc.start + sc.duration
                            /\ e.end > sc.start}

Matched(sc) == {e \in Near(sc) : \A x \in Near(sc) : e.start <= x.start}

Result(sc) ==
    LET alerts == Alerts(sc)
        first  == Min({r.start : r \in alerts})
    IN  [scenario |-> sc.id, detected |-> alerts # {},
         first |-> IF alerts = {} THEN None ELSE first,
         delay |-> IF alerts = {} THEN None ELSE first - sc.start,
         directed |-> \E r \in alerts : r.direction = sc.direction,
         hits |-> Cardinality(alerts),
         misses |-> Cardinality(Target(sc)) - Cardinality(alerts),
         event |-> IF alerts = {} THEN {} ELSE Matched(sc)]

(* A mean is a set of at most one pair, of a sum and what it is divided by. *)
NoMean == {}

Summary(rs) ==
    LET found == {r \in rs : r.detected}
    IN  [scenarios |-> Cardinality(rs), detected |-> Cardinality(found),
         hits |-> SumOfCounts([r \in rs |-> r.hits]),
         misses |-> SumOfCounts([r \in rs |-> r.misses]),
         falseAlarms |-> Cardinality({r \in Anomalies : r.scenario = None}),
         meanDelay |-> IF found = {} THEN NoMean
                       ELSE {<<SumOfCounts([r \in found |-> r.delay]),
                               Cardinality(found)>>}]

(* The engine's own quality checks, any failure of which ends the build.   *)
QualityHolds ==
    /\ \A r \in Rows : r.last # None => r.last < r.start
    /\ \A r \in Anomalies : /\ r.eligible /\ r.q # None
                            /\ r.supports # {} /\ r.severity # "none"
    /\ \A e \in events : /\ e.start < e.end /\ e.count > 0
                         /\ e.peak \in e.start .. (e.end - 1)
                         /\ e.detected >= e.start
    /\ \A r \in results : /\ r.misses >= 0
                          /\ r.detected <=> r.first # None
-----------------------------------------------------------------------------
Init ==
    /\ stage = "inject"
    /\ benchmark \in Benchmarks
    /\ rows = [s \in Series |-> <<>>]
    /\ carried = [s \in Series |-> [state |-> FreshState, next |-> 1]]
    /\ groups = [s \in Series |-> <<>>]
    /\ events = {} /\ results = {} /\ summary = None /\ artifact = None

Refuse == stage' = "refused" /\ UNCHANGED <<rows, carried, groups, events, results,
                                            summary, artifact, benchmark>>

(* _apply_benchmark_scenarios refuses scenarios that overlap or find no    *)
(* rows to perturb.                                                        *)
Injectable == ~Overlapping(benchmark) /\ \A sc \in benchmark : ~Unmatched(sc)

InjectRefused == stage = "inject" /\ ~Injectable /\ Refuse

Inject ==
    /\ stage = "inject" /\ Injectable
    /\ stage' = "score"
    /\ UNCHANGED <<benchmark, rows, carried, groups, events, results, summary, artifact>>

(* The series are scored one after another, each in time order.            *)
Turn(s) == /\ stage = "score" /\ carried[s].next <= Periods
           /\ \A t \in Series : t < s => carried[t].next > Periods

(* A row is drawn when it is scored; as the table is only read, this is    *)
(* having drawn the whole of it before.                                    *)
ScoreRow(s) ==
    LET p == carried[s].next
        sc == ScenarioOf(s, p)
        st == carried[s].state
    IN  /\ Turn(s)
        /\ \E source \in Feed[s][p] \ {Absent} :
             /\ sc # None => source.value # None
             /\ LET row == Injected(source, sc, p)
                IN  /\ rows' = [rows EXCEPT ![s] = Append(@, Observation(s, p, row, sc, st))]
                    /\ carried' = [carried EXCEPT ![s] = [state |-> Carry(p, row, st),
                                                          next |-> p + 1]]
        /\ UNCHANGED <<stage, benchmark, groups, events, results, summary, artifact>>

SkipPeriod(s) ==
    /\ Turn(s)
    /\ Absent \in Feed[s][carried[s].next]
    /\ ScenarioOf(s, carried[s].next) = None
    /\ carried' = [carried EXCEPT ![s].next = @ + 1]
    /\ UNCHANGED <<stage, benchmark, rows, groups, events, results, summary, artifact>>

(* A scenario that misses a row, or one whose row has no value.            *)
TargetRefused(s) ==
    /\ Turn(s)
    /\ ScenarioOf(s, carried[s].next) # None
    /\ \E source \in Feed[s][carried[s].next] :
          source # Absent => source.value = None
    /\ Refuse

ApplyFdr ==
    /\ stage = "score" /\ \A s \in Series : carried[s].next > Periods
    /\ rows' = [s \in Series |-> [i \in DOMAIN rows[s] |-> WithQ(rows[s][i])]]
    /\ stage' = "decide"
    /\ UNCHANGED <<benchmark, carried, groups, events, results, summary, artifact>>

FinalizeAlerts ==
    /\ stage = "decide"
    /\ rows' = [s \in Series |-> [i \in DOMAIN rows[s] |-> Decided(rows[s][i])]]
    /\ stage' = "events"
    /\ UNCHANGED <<benchmark, carried, groups, events, results, summary, artifact>>

(* One pass of the loop over the alerts, series by series.                 *)
GroupAlert(s) ==
    /\ stage = "events" /\ \A t \in Series : t < s => Ungrouped(t) = {}
    /\ \E r \in Ungrouped(s) :
         /\ \A x \in Ungrouped(s) : r.start <= x.start
         /\ groups' = [groups EXCEPT ![s] = Join(@, r)]
    /\ UNCHANGED <<stage, benchmark, rows, carried, events, results, summary, artifact>>

Grouped == stage = "events" /\ \A s \in Series : Ungrouped(s) = {}

BuildEvents ==
    /\ Grouped /\ \A g \in AllGroups : ~Unmeasurable(g)
    /\ events' = {Event(g) : g \in AllGroups}
    /\ stage' = "evaluate"
    /\ UNCHANGED <<benchmark, rows, carried, groups, results, summary, artifact>>

BuildEventsRaises ==
    Grouped /\ (\E g \in AllGroups : Unmeasurable(g)) /\ Refuse

EvaluateBenchmark ==
    /\ stage = "evaluate"
    /\ results' = {Result(sc) : sc \in benchmark}
    /\ summary' = IF benchmark = {} THEN None
                  ELSE Summary({Result(sc) : sc \in benchmark})
    /\ stage' = "quality"
    /\ UNCHANGED <<benchmark, rows, carried, groups, events, artifact>>

(* The quality gate of build_detection, then export_detection.             *)
Export ==
    /\ stage = "quality"
    /\ IF QualityHolds
       THEN /\ stage' = "published"
            /\ artifact' = [anomalies |-> Cardinality(Anomalies),
                            events |-> Cardinality(events),
                            changes |-> Cardinality(Changes),
                            scenarios |-> Cardinality(benchmark),
                            meanDelay |-> IF summary = None THEN NoMean
                                          ELSE summary.meanDelay]
            /\ UNCHANGED <<benchmark, rows, carried, groups, events, results, summary>>
       ELSE Refuse

Next ==
    \/ Inject \/ InjectRefused
    \/ \E s \in Series : ScoreRow(s) \/ SkipPeriod(s) \/ TargetRefused(s)
                         \/ GroupAlert(s)
    \/ ApplyFdr \/ FinalizeAlerts \/ BuildEvents \/ BuildEventsRaises
    \/ EvaluateBenchmark \/ Export

Spec == Init /\ [][Next]_vars
-----------------------------------------------------------------------------
(* validate_detection_directory, on the tables as they were written: it    *)
(* decides every alert again, with the gates the engine only stored, and   *)
(* compares the summary of the manifest with the table.                    *)

Explained(r) ==
    /\ r.supports = Supports(r) /\ r.effectGate = Effect(r)
    /\ r.anomaly <=> /\ r.eligible /\ r.historyGate /\ r.sampleGate
                     /\ Effect(r) /\ "fdr" \in Supports(r)
                     /\ Cardinality(Supports(r)) >= Config.minimumSupport

BenchmarkAgrees ==
    IF summary = None THEN artifact.meanDelay = NoMean
    ELSE /\ artifact.meanDelay # NoMean /\ summary.meanDelay # NoMean
         /\ artifact.meanDelay = summary.meanDelay

Validates ==
    /\ artifact.anomalies = Cardinality(Anomalies)
    /\ artifact.events = Cardinality(events)
    /\ artifact.changes = Cardinality(Changes)
    /\ artifact.scenarios = Cardinality(benchmark)
    /\ QualityHolds
    /\ \A r \in Rows : Explained(r)
    /\ BenchmarkAgrees
-----------------------------------------------------------------------------
(* What the build publishes is what the validator of the same package      *)
(* accepts: detection/io.py:1 calls these artifacts self-validating.       *)
PublishedValidates == stage = "published" => Validates

(* The same, but for a benchmark none of whose scenarios was detected,     *)
(* which has no mean delay to compare.                                     *)
PublishedValidatesIfDetected ==
    stage = "published" /\ (summary # None => summary.detected > 0) => Validates

(* The rows of a series that moved its CUSUM sums, and what every row      *)
(* moved one of them by.                                                   *)
Live(s) == {i \in DOMAIN rows[s] : rows[s][i].p # None}

Steps(s, sign) ==
    [i \in DOMAIN rows[s] |-> IF rows[s][i].p = None THEN 0
                              ELSE sign * rows[s][i].z - Config.drift]

(* The sum since row i, the largest of these and the latest row to reach it. *)
Since(steps, i) == Total(steps) - RunningSum(steps)[i - 1]
Best(steps, live) == Max({0} \cup {Since(steps, i) : i \in live})
StartOfBest(steps, live) == Max({i \in live : Since(steps, i) = Best(steps, live)})

(* A recursively kept CUSUM score (_update_cusum) is the largest sum over  *)
(* any run of rows that ends here, on either side; a change point is       *)
(* reported exactly where the score rises past the threshold, moves in the *)
(* direction the row does, and starts at the latest run that attains it.   *)
ChangePointsAreCrossings ==
    stage = "score" =>
    \A s \in Series : LET live == Live(s) IN
        live # {} =>
          LET n      == Max(live)
              r      == rows[s][n]
              up     == Best(Steps(s, 1), live)
              down   == Best(Steps(s, -1), live)
              sign   == IF up >= down THEN 1 ELSE -1
              before == IF live = {n} THEN 0 ELSE rows[s][Max(live \ {n})].cusum
          IN  /\ r.cusum = Max({up, down})
              /\ r.changed <=> /\ r.cusum >= Config.cusumThreshold
                               /\ before < Config.cusumThreshold
              /\ r.changed =>
                    /\ r.changeStart = rows[s][StartOfBest(Steps(s, sign), live)].start
                    /\ r.direction = IF sign = 1 THEN "increase" ELSE "decrease"

(* The significant rows of a period are the ones the step-up rule of       *)
(* Benjamini and Hochberg rejects: all up to the largest rank k whose      *)
(* p-value is at most k/m of the level, whatever lies in between.          *)
SignificanceIsStepUp ==
    stage = "decide" =>
    \A p \in 1..Periods : LET f == Family(p) IN
        LET ks == {k \in 1..Cardinality(f) :
                      \E r \in f : /\ Rank(f, r) = k
                                   /\ r.p * Cardinality(f) <= k * Config.alpha}
            rejected == IF ks = {} THEN {} ELSE {r \in f : Rank(f, r) <= Max(ks)}
        IN  {r \in f : r.q <= Config.alpha} = rejected

(* Every alert lies in exactly one event of its series, an event holds     *)
(* nothing but alerts, and two events are apart by a period without one.   *)
EventsPartitionAlerts ==
    stage \in {"evaluate", "quality", "published"} =>
    /\ \A r \in Anomalies : Cardinality({e \in events :
           e.series = r.series /\ r.start \in e.start .. (e.end - 1)}) = 1
    /\ \A e \in events :
           /\ e.count = e.end - e.start
           /\ \A p \in e.start .. (e.end - 1) :
                 \E r \in Anomalies : r.series = e.series /\ r.start = p
    /\ \A d, e \in events :
           d # e /\ d.series = e.series => d.end < e.start \/ e.end < d.start

(* The benchmark accounts for every alert and every injected point once;   *)
(* a detected scenario has an event, and it holds the first detection.     *)
BenchmarkAccounts ==
    summary # None =>
    /\ summary.hits + summary.falseAlarms = Cardinality(Anomalies)
    /\ \A sc \in benchmark : \E r \in results :
          /\ r.scenario = sc.id /\ r.hits + r.misses = sc.duration
          /\ r.detected => /\ r.delay \in 0 .. (sc.duration - 1)
                           /\ \E e \in events : /\ r.event = {e}
                                               /\ r.first \in e.start .. (e.end - 1)
=============================================================================
