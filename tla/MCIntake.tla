------------------------------ MODULE MCIntake -------------------------------
(***************************************************************************)
(* Two requests with two keys on the one slot of an activity.  Two files,  *)
(* one of which the parser refuses, and two media types.                   *)
(***************************************************************************)
EXTENDS Intake, TLC

CONSTANTS a1, s1, essay, notes, text, markdown

MCOwner == s1 :> a1
MCSizeOf == (essay :> 1) @@ (notes :> 1)
MCReadable == {<<essay, text>>, <<essay, markdown>>}
MCPrints ==
    { [op |-> "create", slot |-> s1, type |-> t,
       size |-> 1, claim |-> None] : t \in {text, markdown} }
    \cup
    { [op |-> "complete", slot |-> s1, type |-> text,
       size |-> 1, claim |-> None] }
MCDescriptors ==
    [kind : {"json"}, slot : Slots, key : {NoObjectKey}]
    \cup [kind : {"upload"}, slot : Slots, key : ObjectKeys]
\* Bound: once a second release has deleted a row, only what comes before the
\* first upload is followed, completions and replays of that key included.
StrayBound ==
    \/ stray = {}
    \/ attempts <= 1 /\ \A k \in ObjectKeys : object[k] = NoObject
MCSymmetry == Permutations(Requests) \cup Permutations(Keys)
=============================================================================
