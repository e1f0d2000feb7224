-------------------------- MODULE MCSignalPipeline --------------------------
(* Two processes; two simulations of one window that the impact horizon     *)
(* fits, and one of a window it does not.  The benchmark of the detection   *)
(* built of the second one detects nothing.                                 *)
EXTENDS SignalPipeline

CONSTANTS p1, p2, r1

MCSimulations == {[seed |-> 1, window |-> 1], [seed |-> 2, window |-> 1],
                  [seed |-> 1, window |-> 2]}
MCStageConfig == [s \in Stage |-> [stage |-> s]]
MCUndetected ==
    {Scored(Analysed(Simulated([seed |-> 2, window |-> 1]), MCStageConfig["analytics"]),
            MCStageConfig["detection"])}
MCSymmetry == Permutations(Process)
=============================================================================
