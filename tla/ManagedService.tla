--------------------------- MODULE ManagedService ---------------------------
(***************************************************************************)
(* The ManagedService resource and the pure functions the operator applies *)
(* to it: the status it reports, the merge patch that writes it, and the   *)
(* children it wants.  Nothing here has state.                             *)
(*                                                                         *)
(* A ManagedService is a record: whether it exists, its UID, its           *)
(* generation, its spec and its status.  A resource that does not exist    *)
(* keeps the UID of its last incarnation, so UIDs only grow.               *)
(***************************************************************************)
EXTENDS Naturals, Sequences

CONSTANTS
    Replicas,         \* replica counts a spec may ask for (the CRD: 1..3)
    Messages,         \* messages a spec may carry; "" is the unset message
    Images,           \* values of the --demo-http-image flag
    ImmutableImages   \* those of them that are pinned by a sha256 digest

ASSUME SpecAssumption ==
    /\ Replicas \subseteq Nat \ {0}
    /\ 1 \in Replicas
    /\ "" \in Messages
    /\ ImmutableImages \subseteq Images

-----------------------------------------------------------------------------
(* Spec: api/v1alpha1 ManagedServiceSpec.  0 stands for a nil Replicas.    *)

SpecValues == [replicas : Replicas \cup {0}, message : Messages]

NoSpec == [replicas |-> 0, message |-> ""]

\* What the CRD's default turns a submitted spec into.
Defaulted(spec) ==
    [spec EXCEPT !.replicas = IF @ = 0 THEN 1 ELSE @]

desiredReplicas(m) ==
    IF m.spec.replicas = 0 THEN 1 ELSE m.spec.replicas

validateImmutableImage(image) == image \in ImmutableImages

-----------------------------------------------------------------------------
(* Status: three conditions, the generation they describe, the ready       *)
(* replicas and the endpoint.                                              *)

ConditionTypes == {"Available", "Progressing", "Degraded"}

ConditionStatuses == {"True", "False"}

FailureReasons ==
    {"TemplateConfigurationInvalid", "DeploymentReconcileFailed",
     "ServiceReconcileFailed"}

ConditionReasons ==
    {"WorkloadAvailable", "WorkloadProgressing", "ReconciliationFailed",
     "ReconciliationSucceeded"} \cup FailureReasons

\* A condition that was never set has status "Absent".
Conditions ==
    [status : ConditionStatuses \cup {"Absent"},
     reason : ConditionReasons \cup {""},
     observedGeneration : Nat]

NoCondition == [status |-> "Absent", reason |-> "", observedGeneration |-> 0]

\* The endpoint is a function of the name, which is fixed: set or not set.
Endpoints == {"", "http://name.namespace.svc.cluster.local"}

Endpoint == "http://name.namespace.svc.cluster.local"

StatusValues ==
    [observedGeneration : Nat,
     readyReplicas : Nat,
     endpoint : Endpoints,
     conditions : [ConditionTypes -> Conditions]]

NoStatus ==
    [observedGeneration |-> 0,
     readyReplicas |-> 0,
     endpoint |-> "",
     conditions |-> [t \in ConditionTypes |-> NoCondition]]

ManagedServices ==
    [exists : BOOLEAN,
     deleting : BOOLEAN,       \* it has a deletionTimestamp
     uid : Nat,
     generation : Nat,
     spec : SpecValues,
     status : StatusValues]

NoManagedService(uid) ==
    [exists |-> FALSE, deleting |-> FALSE, uid |-> uid, generation |-> 0,
     spec |-> NoSpec, status |-> NoStatus]

setManagedServiceCondition(generation, status, reason) ==
    [status |-> status, reason |-> reason, observedGeneration |-> generation]

\* The conditions of a reconciliation that succeeded, from the ready count
\* the Deployment reported.
SucceededConditions(m, ready) ==
    LET set(status, reason) ==
            setManagedServiceCondition(m.generation, status, reason)
    IN IF ready >= desiredReplicas(m)
       THEN [t \in ConditionTypes |->
               CASE t = "Available"   -> set("True", "WorkloadAvailable")
                 [] t = "Progressing" -> set("False", "WorkloadAvailable")
                 [] t = "Degraded"    -> set("False", "ReconciliationSucceeded")]
       ELSE [t \in ConditionTypes |->
               CASE t = "Available"   -> set("False", "WorkloadProgressing")
                 [] t = "Progressing" -> set("True", "WorkloadProgressing")
                 [] t = "Degraded"    -> set("False", "ReconciliationSucceeded")]

updatedStatus(m, ready) ==
    [observedGeneration |-> m.generation,
     readyReplicas |-> ready,
     endpoint |-> Endpoint,
     conditions |-> SucceededConditions(m, ready)]

\* recordDegradedStatus without the reset of Progressing: only the Degraded
\* and Available conditions are written.
DegradedKeepsProgressing(m, reason) ==
    [observedGeneration |-> m.generation,
     readyReplicas |-> 0,
     endpoint |-> "",
     conditions |->
        [m.status.conditions EXCEPT
           !["Available"] = setManagedServiceCondition(
                                m.generation, "False", "ReconciliationFailed"),
           !["Degraded"] = setManagedServiceCondition(
                                m.generation, "True", reason)]]

degradedStatus(m, reason) ==
    [observedGeneration |-> m.generation,
     readyReplicas |-> 0,
     endpoint |-> "",
     conditions |->
        [t \in ConditionTypes |->
           IF t = "Degraded"
           THEN setManagedServiceCondition(m.generation, "True", reason)
           ELSE setManagedServiceCondition(
                    m.generation, "False", "ReconciliationFailed")]]

\* client.MergeFrom(before): the JSON merge patch from before to after,
\* applied to the status the server holds.  A field on which before and after
\* agree is not in the patch.  Conditions are a JSON list: replaced whole.
MergePatch(live, before, after) ==
    LET merge(l, b, a) == IF a = b THEN l ELSE a
    IN [observedGeneration |-> merge(live.observedGeneration,
                                     before.observedGeneration,
                                     after.observedGeneration),
        readyReplicas |-> merge(live.readyReplicas,
                                before.readyReplicas,
                                after.readyReplicas),
        endpoint |-> merge(live.endpoint, before.endpoint, after.endpoint),
        conditions |-> merge(live.conditions, before.conditions,
                             after.conditions)]

\* The condition types whose transition counter observeConditionTransitions
\* increments, with the status label it increments.
observeConditionTransitions(before, after) ==
    {<<t, after[t].status>> :
        t \in {u \in ConditionTypes :
                 /\ after[u].status # "Absent"
                 /\ before[u].status # after[u].status}}

=============================================================================
