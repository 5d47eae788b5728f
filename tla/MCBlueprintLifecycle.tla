------------------------ MODULE MCBlueprintLifecycle -------------------------
(***************************************************************************)
(* Instances of BlueprintLifecycle for TLC.                                *)
(***************************************************************************)
EXTENDS BlueprintLifecycle, TLC

\* Nothing tells calls, lines or texts apart but their name.
LifecycleSymmetry ==
    Permutations(Requests) \cup Permutations(Lines) \cup Permutations(Texts)
=============================================================================
