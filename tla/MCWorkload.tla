----------------------------- MODULE MCWorkload -----------------------------
(***************************************************************************)
(* Instances of Workload for TLC.                                          *)
(***************************************************************************)
EXTENDS Workload

TwoReplicas == {1, 2}

\* A lone dollar sign is a character like any other.
Plain == {"", "a$b"}
PlainSpelling == [m \in Plain |-> IF m = "" THEN <<>> ELSE <<"a", "$", "b">>]

OneRelease == {"v1"}

Asks(replicas, message) == [replicas |-> replicas, message |-> message]

Scenario(kinds, specs) ==
    [kinds |-> kinds, left |-> 2, specs |-> specs, refused |-> {},
     pending |-> 1]

\* The resource is created, edited and deleted, its Pod fails, and the
\* operator restarts; or it is scaled, and Pods fail.
Disturbances ==
    {Scenario({"create", "update", "delete", "unready", "restart"},
              {Asks(1, ""), Asks(1, "a$b")}),
     Scenario({"create", "update", "unready"}, {Asks(1, ""), Asks(2, "")})}

=============================================================================
