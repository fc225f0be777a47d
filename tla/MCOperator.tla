----------------------------- MODULE MCOperator -----------------------------
(***************************************************************************)
(* Instances of Operator for TLC.  "pinned" is an image with a digest,     *)
(* "tagged" one without.                                                   *)
(***************************************************************************)
EXTENDS Operator

OneReplica == {1}
TwoMessages == {"", "hello"}

Pinned == {"pinned"}
PinnedAndTagged == {"pinned", "tagged"}

OneSpec == {[replicas |-> 1, message |-> ""]}

Scenario(kinds, left, specs, pending) ==
    [kinds |-> kinds, left |-> left, specs |-> specs, refused |-> {},
     pending |-> pending]

\* The resource comes, changes and goes while the operator's calls fail, lose
\* their answers, and the operator restarts.
Lifecycle ==
    Scenario({"create", "update", "delete", "fail", "lose", "restart"},
             3, SpecValues, 1)

\* Other writers change, remove and occupy the children.
OtherWriters ==
    Scenario({"create", "drift", "strip", "remove", "occupy", "unready"},
             3, OneSpec, 1)

\* The resource is deleted and created again under the same name, while the
\* watches are far behind.
Recreation == Scenario({"create", "delete"}, 3, OneSpec, 2)

\* The resource is edited while the watches are far behind.
Edits == Scenario({"create", "update", "fail", "lose"}, 3, SpecValues, 2)

\* The resource is deleted in the foreground.
Foreground == Scenario({"create", "delete in foreground"}, 2, OneSpec, 1)

\* The API server refuses the Service.
Refusal == [Lifecycle EXCEPT !.refused = {"Service"}]

SafetyScenarios == {Lifecycle, OtherWriters, Recreation, Edits, Foreground}

\* One field that drifts is enough: the operator compares them all at once.
LivenessScenarios ==
    {Lifecycle, Refusal,
     [OtherWriters EXCEPT !.kinds = @ \ {"drift", "unready"}],
     [OtherWriters EXCEPT !.kinds = {"create", "drift", "unready"}, !.left = 2]}

\* Created again with another spec.
AnotherSpec == {[Recreation EXCEPT !.specs = SpecValues, !.pending = 1]}

ForegroundDeletion == {Foreground}

Creation == {Scenario({"create"}, 1, OneSpec, 1)}

=============================================================================
