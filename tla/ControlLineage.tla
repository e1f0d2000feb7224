--------------------------- MODULE ControlLineage ---------------------------
(***************************************************************************)
(* What the control-state store promises its callers, with no processes,   *)
(* locks, files or faults: one register that is bound once and then        *)
(* consumes a plan and a token nonce per step, never one of them twice     *)
(* (state_store.py:89-95).  ControlStore implements it, with the register  *)
(* read off the pointer file.                                              *)
(***************************************************************************)
EXTENDS Naturals

CONSTANTS Plans, Nonces, None

VARIABLE state   \* the control state, or None before the store is bound

Init == state = None

Bind ==
    /\ state = None
    /\ state' = [generation |-> 0, executed |-> {}, consumed |-> {}]

Consume(p, n) ==
    /\ state # None
    /\ p \notin state.executed
    /\ n \notin state.consumed
    /\ state' = [generation |-> state.generation + 1,
                 executed   |-> state.executed \cup {p},
                 consumed   |-> state.consumed \cup {n}]

Next == Bind \/ \E p \in Plans, n \in Nonces : Consume(p, n)

Spec == Init /\ [][Next]_state
=============================================================================
