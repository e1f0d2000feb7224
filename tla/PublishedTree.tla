---------------------------- MODULE PublishedTree ----------------------------
(***************************************************************************)
(* What a publisher promises about the one directory it publishes: a       *)
(* register of complete trees.  A tree is installed in one step, a         *)
(* confirmed one is never lost, and losing power can only bring back a     *)
(* tree from before an unconfirmed installation.                           *)
(***************************************************************************)
CONSTANTS Tree,   \* the complete trees that may be published
          None    \* no directory at all, which is not a tree

VARIABLES tree,    \* what readers find
          past,    \* everything readers have found so far
          barred   \* what no loss of power may bring back

registerVars == <<tree, past, barred>>

RegisterInit == tree = None /\ past = {None} /\ barred = {}

Install(t) == /\ t \notin past
              /\ tree' = t /\ past' = past \cup {t}
              /\ UNCHANGED barred

Confirm == barred' = past \ {tree} /\ UNCHANGED <<tree, past>>

Revert == /\ tree' \in past \ barred
          /\ UNCHANGED <<past, barred>>

RegisterNext == (\E t \in Tree : Install(t)) \/ Confirm \/ Revert

RegisterSpec == RegisterInit /\ [][RegisterNext]_registerVars
=============================================================================
