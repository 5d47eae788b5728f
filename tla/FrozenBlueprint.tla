--------------------------- MODULE FrozenBlueprint ---------------------------
(***************************************************************************)
(* What the approval of a blueprint promises to the submissions of an      *)
(* activity: one text is chosen, once, and every submission is assessed    *)
(* with it.  BlueprintLifecycle is shown to behave like this.              *)
(***************************************************************************)
CONSTANTS Texts, Submissions

VARIABLES
    chosen,     \* the approved text: {} before there is one
    used        \* the text a submission is assessed with: {} before it starts

vars == <<chosen, used>>

Init ==
    /\ chosen = {}
    /\ used = [s \in Submissions |-> {}]

Choose(t) ==
    /\ chosen = {}
    /\ chosen' = {t}
    /\ UNCHANGED used

Use(s) ==
    /\ chosen # {}
    /\ used[s] = {}
    /\ used' = [used EXCEPT ![s] = chosen]
    /\ UNCHANGED chosen

Next == (\E t \in Texts : Choose(t)) \/ (\E s \in Submissions : Use(s))

Spec == Init /\ [][Next]_vars
=============================================================================
