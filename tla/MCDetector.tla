----------------------------- MODULE MCDetector -----------------------------
(***************************************************************************)
(* Detector on two series of six periods: three that can only fill the     *)
(* history and three that may be alerts.  The second series is quiet but   *)
(* for its last two periods, where it competes in the family of p-values.  *)
(***************************************************************************)
EXTENDS Detector

MCConfig == [lookback |-> 4, minimumHistory |-> 3, seasonal |-> 2,
             minimumSeasonal |-> 2, minimumScale |-> 4, drift |-> 4,
             cusumThreshold |-> 14, shift |-> 2, sequentialThreshold |-> 70,
             zThreshold |-> 12, alpha |-> 30, minimumSupport |-> 2,
             minimumRelative |-> 20, minimumAbsolute |-> 5, minimumSample |-> 10]

Row(v, q, n, p) == [value |-> v, quality |-> q, sample |-> n, p |-> p]

Quiet   == Row(20, "ok", 20, 300)
High    == Row(30, "ok", 30, 6)
Edge    == Row(30, "insufficient_data", 30, 30)
Low     == Row(10, "ok", 10, 24)
Few     == Row(30, "ok", 5, 6)
Unknown == Row(None, "undefined", 0, 6)
Broken  == Row(40, "invalid", 40, 6)
Zero    == Row(0, "ok", 10, 300)

Periods6 == 6
MCSeries == 1..2

MCFeed ==
    [s \in MCSeries |-> [p \in 1..Periods6 |->
        CASE s = 1 /\ p = 1 -> {Quiet, Zero, Absent}
          [] s = 1 /\ p = 2 -> {Quiet, Zero, Broken}
          [] s = 1 /\ p = 3 -> {Quiet, Zero, Unknown}
          [] s = 1 /\ p = 4 -> {Quiet, High, Low}
          [] s = 1 /\ p = 5 -> {Quiet, High, Edge, Few, Absent}
          [] s = 1 /\ p = 6 -> {Quiet, High, Low, Edge, Unknown}
          [] s = 2 /\ p <= 4 -> {Quiet}
          [] s = 2 /\ p > 4  -> {Quiet, High, Edge}]]

Scenario(id, start, n, m, d, dir) ==
    [id |-> id, series |-> 1, start |-> start, duration |-> n,
     magnitude |-> m, drift |-> d, direction |-> dir]

MCBenchmarks ==
    { {},
      {Scenario("rise", 4, 3, 60, TRUE, "increase")},
      {Scenario("beyond", 6, 2, 60, FALSE, "increase")},
      {Scenario("fall", 5, 2, -60, FALSE, "decrease")},
      {Scenario("rise", 4, 3, 60, TRUE, "increase"),
       Scenario("fall", 5, 2, -60, FALSE, "decrease")} }
=============================================================================
