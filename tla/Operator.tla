------------------------------ MODULE Operator ------------------------------
(***************************************************************************)
(* The ManagedService operator (internal/controller, cmd/main.go): the     *)
(* watches that enqueue the resource, the work queue, and Reconcile, split *)
(* at every call to the API server so that other writers run in between.   *)
(*                                                                         *)
(* One resource name is modelled, so the work queue is one bit and, with   *)
(* the single worker controller-runtime starts, one reconciliation runs at *)
(* a time.                                                                 *)
(***************************************************************************)
EXTENDS Cluster

CONSTANT
    MaxCount      \* the metrics counters saturate here

ASSUME OperatorAssumption == MaxCount \in Nat

VARIABLES
    queued,           \* the resource waits in the work queue
    step,             \* where Reconcile is
    kind,             \* the child it is working on
    managedService,   \* its copy of the resource, as read from the cache
    ready,            \* ReadyReplicas of the Deployment it holds
    reason,           \* the reason recordDegradedStatus is called with
    demoHTTPImage,    \* the --demo-http-image flag of this process
    reconciliations,        \* managedservice_reconciliations_total
    conditionTransitions    \* managedservice_condition_transitions_total

localVars == <<step, kind, managedService, ready, reason>>
metricsVars == <<reconciliations, conditionTransitions>>
operatorVars == <<queued, localVars, demoHTTPImage, metricsVars>>
vars == <<clusterVars, operatorVars>>

Steps == {"idle", "get", "create", "update", "status", "degraded"}

Outcomes == {"success", "error"}

-----------------------------------------------------------------------------
(* What the children should be.                                            *)

\* The fields that the mutate functions of reconcileDeployment and
\* reconcileService set.
desiredFields(k, m, image) ==
    IF k = "Deployment"
    THEN [replicas |-> desiredReplicas(m), message |-> m.spec.message,
          image |-> image]
    ELSE NoFields

\* The controller reference is not set.
mutateWithoutOwner(k, m, image, c) ==
    [c EXCEPT !.fields = desiredFields(k, m, image), !.selector = TRUE]

\* The fields of a Deployment that exists are left alone.
mutateOnlyNew(k, m, image, c) ==
    [c EXCEPT !.controller = "managedservice", !.owner = m.uid, !.selector = TRUE,
              !.fields = IF @ = NoFields THEN desiredFields(k, m, image) ELSE @]

\* The mutate function applied to a copy of the child.  The controller
\* reference names the resource by its UID.
mutate(k, m, image, c) ==
    [c EXCEPT !.controller = "managedservice", !.owner = m.uid,
              !.fields = desiredFields(k, m, image), !.selector = TRUE]

\* SetControllerReference's check left out.
NothingIsAlreadyOwned(c) == FALSE

\* SetControllerReference refuses a child that another controller owns.  It
\* compares the owner's kind and name: another UID of the same name will do.
AlreadyOwned(c) == c.controller = "other"

\* The kind itself instead of the reason for it.
KindAsReason(k) == k

reasonFailed(k) ==
    IF k = "Deployment" THEN "DeploymentReconcileFailed"
                        ELSE "ServiceReconcileFailed"

-----------------------------------------------------------------------------
(* The metrics.                                                            *)

Inc(n) == IF n < MaxCount THEN n + 1 ELSE n

NoReconciliations == [o \in Outcomes |-> 0]

NoTransitions == [l \in ConditionTypes \X ConditionStatuses |-> 0]

observeReconciliation(outcome) ==
    reconciliations' = [reconciliations EXCEPT ![outcome] = Inc(@)]

CountTransitions(before, after) ==
    conditionTransitions' =
        [l \in ConditionTypes \X ConditionStatuses |->
            IF l \in observeConditionTransitions(before, after)
            THEN Inc(conditionTransitions[l])
            ELSE conditionTransitions[l]]

-----------------------------------------------------------------------------
(* Informers and event handlers: SetupWithManager.                         *)

\* Versions applied to the cache newest first.
DeliverNewestFirst ==
    /\ msWatch # <<>>
    /\ msCache' = msWatch[Len(msWatch)]
    /\ msWatch' = SubSeq(msWatch, 1, Len(msWatch) - 1)
    /\ queued' = TRUE
    /\ UNCHANGED <<ms, childVars, scenario, localVars, demoHTTPImage, metricsVars>>

\* For(&ManagedService{}): every version enqueues the resource.
DeliverManagedService ==
    /\ msWatch # <<>>
    /\ msCache' = Head(msWatch)
    /\ msWatch' = Tail(msWatch)
    /\ queued' = TRUE
    /\ UNCHANGED <<ms, childVars, scenario, localVars, demoHTTPImage, metricsVars>>

\* The handler that looks at the new object only.
NewVersionIsOwned(old, new) == Owned(new)

\* SetupWithManager without Owns(...): events of the children reach nobody.
ChildrenUnwatched(old, new) == FALSE

\* Owns(...): the handler looks at the controller reference of the old and
\* of the new version of a child.
EnqueuesOwner(old, new) == Owned(old) \/ Owned(new)

DeliverChild(k) ==
    /\ childWatch[k] # <<>>
    /\ childCache' = [childCache EXCEPT ![k] = Head(childWatch[k])]
    /\ childWatch' = [childWatch EXCEPT ![k] = Tail(@)]
    /\ queued' = (queued \/ EnqueuesOwner(childCache[k], Head(childWatch[k])))
    /\ UNCHANGED <<msVars, child, current, scenario, localVars, demoHTTPImage,
                   metricsVars>>

-----------------------------------------------------------------------------
(* Reconcile.                                                              *)

ResetLocals ==
    /\ step' = "idle"
    /\ kind' = "Deployment"
    /\ managedService' = NoManagedService(0)
    /\ ready' = 0
    /\ reason' = ""

\* A reconciliation that asks for another one whatever its outcome.
AlwaysRequeues(outcome) == TRUE

\* Reconcile returns no Result of its own: only an error puts the resource
\* back in the queue.
Requeues(outcome) == outcome = "error"

Finish(outcome) ==
    /\ ResetLocals
    /\ queued' = (queued \/ Requeues(outcome))
    /\ observeReconciliation(outcome)

\* recordDegradedStatus is called with this reason.
Fail(r) ==
    /\ step' = "degraded"
    /\ reason' = r
    /\ UNCHANGED <<queued, kind, managedService, ready, demoHTTPImage,
                   metricsVars>>

\* The child is as desired; the Deployment that is held reports r ready
\* replicas.
Proceed(k, r) ==
    /\ IF k = "Deployment"
       THEN step' = "get" /\ kind' = "Service" /\ ready' = r
       ELSE step' = "status" /\ UNCHANGED <<kind, ready>>
    /\ UNCHANGED <<queued, managedService, reason, demoHTTPImage, metricsVars>>

\* A worker takes the resource from the queue and reads it from the cache.
Reconcile ==
    /\ step = "idle" /\ queued
    /\ queued' = FALSE
    /\ \/ /\ ~msCache.exists                     \* NotFound is ignored
          /\ observeReconciliation("success")
          /\ UNCHANGED <<localVars, scenario>>
       \/ /\ msCache.exists
          /\ managedService' = msCache
          /\ IF validateImmutableImage(demoHTTPImage)
             THEN step' = "get" /\ UNCHANGED reason
             ELSE step' = "degraded" /\ reason' = "TemplateConfigurationInvalid"
          /\ UNCHANGED <<kind, ready, reconciliations, scenario>>
    /\ UNCHANGED <<msVars, childVars, demoHTTPImage, conditionTransitions>>

\* Any other error of that read is returned, and the resource requeued.
ReconcileFailsToRead ==
    /\ step = "idle" /\ queued
    /\ Disrupt("fail") /\ observeReconciliation("error")
    /\ UNCHANGED <<msVars, childVars, queued, localVars, demoHTTPImage,
                   conditionTransitions>>

\* controllerutil.CreateOrUpdate up to its call to the server: the read from
\* the cache, the mutate function, and the comparison of its result with
\* what was read.
CreateOrUpdate(k) ==
    /\ step = "get" /\ kind = k
    /\ LET c == childCache[k]
       IN \/ /\ ~c.exists
             /\ step' = "create"
             /\ UNCHANGED <<current, queued, kind, managedService, ready,
                            reason, demoHTTPImage, metricsVars>>
          \/ /\ c.exists /\ AlreadyOwned(c)
             /\ Fail(reasonFailed(k))
             /\ UNCHANGED current
          \/ /\ c.exists /\ ~AlreadyOwned(c)
             /\ mutate(k, managedService, demoHTTPImage, c) = c
             /\ Proceed(k, c.ready)
             /\ UNCHANGED current
          \/ /\ c.exists /\ ~AlreadyOwned(c)
             /\ mutate(k, managedService, demoHTTPImage, c) # c
             /\ step' = "update"
             /\ current' = [current EXCEPT ![k] = childWatch[k] = <<>>]
             /\ UNCHANGED <<queued, kind, managedService, ready, reason,
                            demoHTTPImage, metricsVars>>
    /\ UNCHANGED <<msVars, child, childWatch, childCache, scenario>>

\* The server takes no second object of a name, and none that its validation
\* (a Service's name), a quota or an admission rule refuses.
AcceptsCreate(k) == ~child[k].exists /\ k \notin scenario.refused

\* The call to the server.  It may be refused, it may fail without effect,
\* and it may take effect although its answer is lost.
CreateChild(k) ==
    /\ step = "create" /\ kind = k
    /\ LET new == mutate(k, managedService, demoHTTPImage,
                         [NoChild EXCEPT !.exists = TRUE])
       IN \/ /\ AcceptsCreate(k)
             /\ WriteChild(k, new)
             /\ Proceed(k, 0)
             /\ UNCHANGED scenario
          \/ /\ ~AcceptsCreate(k)          \* AlreadyExists, Invalid, Forbidden
             /\ Fail(reasonFailed(k))
             /\ UNCHANGED <<child, childWatch, current, scenario>>
          \/ /\ Disrupt("fail")
             /\ Fail(reasonFailed(k))
             /\ UNCHANGED <<child, childWatch, current>>
          \/ /\ AcceptsCreate(k) /\ Disrupt("lose")
             /\ WriteChild(k, new)
             /\ Fail(reasonFailed(k))
    /\ UNCHANGED <<msVars, childCache>>

\* The server accepts an update of the live version only, and no change of a
\* Deployment's selector.
AcceptsUpdate(k) ==
    /\ child[k].exists /\ current[k]
    /\ k = "Deployment" => child[k].selector

UpdateChild(k) ==
    /\ step = "update" /\ kind = k
    /\ LET new == mutate(k, managedService, demoHTTPImage, child[k])
       IN \/ /\ AcceptsUpdate(k)
             /\ WriteChild(k, new)
             /\ Proceed(k, child[k].ready)
             /\ UNCHANGED scenario
          \/ /\ ~AcceptsUpdate(k)          \* Conflict, NotFound or Invalid
             /\ current' = [current EXCEPT ![k] = FALSE]
             /\ Fail(reasonFailed(k))
             /\ UNCHANGED <<child, childWatch, scenario>>
          \/ /\ Disrupt("fail")
             /\ current' = [current EXCEPT ![k] = FALSE]
             /\ Fail(reasonFailed(k))
             /\ UNCHANGED <<child, childWatch>>
          \/ /\ AcceptsUpdate(k) /\ Disrupt("lose")
             /\ WriteChild(k, new)
             /\ Fail(reasonFailed(k))
    /\ UNCHANGED <<msVars, childCache>>

-----------------------------------------------------------------------------
(* The status.                                                             *)

\* The observed generation is taken from the live object at the time of the
\* write instead of from the copy the status was computed from.
ApplyWithLiveGeneration(after) ==
    LET merged == [MergePatch(ms.status, managedService.status, after)
                     EXCEPT !.observedGeneration = ms.generation]
    IN IF merged = ms.status
       THEN UNCHANGED <<ms, msWatch>>
       ELSE WriteManagedService([ms EXCEPT !.status = merged])

\* The patch reaches the server: it carries no resourceVersion and no UID,
\* and applies to whatever has the name.  One that changes nothing is not a
\* write, but a condition whose status moved carries a new
\* lastTransitionTime, which makes it one unless the second is the same.
ApplyStatusPatch(after) ==
    LET before == managedService.status
        merged == MergePatch(ms.status, before, after)
        stamped == observeConditionTransitions(before.conditions,
                                               after.conditions) # {}
    IN \/ merged = ms.status /\ UNCHANGED <<ms, msWatch>>
       \/ /\ merged # ms.status \/ stamped
          /\ WriteManagedService([ms EXCEPT !.status = merged])

\* err is whether patchManagedServiceStatus returns an error.  The metrics
\* compare the copy that was read with the server's answer.
patchManagedServiceStatus(after, err) ==
    \/ /\ after = managedService.status /\ ~err
       /\ UNCHANGED <<ms, msWatch, scenario, conditionTransitions>>
    \/ /\ after # managedService.status /\ ms.exists
       /\ ~err /\ ApplyStatusPatch(after)
       /\ CountTransitions(managedService.status.conditions,
                           MergePatch(ms.status, managedService.status,
                                      after).conditions)
       /\ UNCHANGED scenario
    \/ /\ after # managedService.status
       /\ ~ms.exists                             \* NotFound
       /\ err
       /\ UNCHANGED <<ms, msWatch, scenario, conditionTransitions>>
    \/ /\ after # managedService.status /\ Disrupt("fail")
       /\ err
       /\ UNCHANGED <<ms, msWatch, conditionTransitions>>
    \/ /\ after # managedService.status /\ ms.exists
       /\ Disrupt("lose") /\ err
       /\ ApplyStatusPatch(after)
       /\ UNCHANGED conditionTransitions

updateManagedServiceStatus ==
    /\ step = "status"
    /\ \E err \in BOOLEAN :
         /\ patchManagedServiceStatus(updatedStatus(managedService, ready), err)
         /\ Finish(IF err THEN "error" ELSE "success")
    /\ UNCHANGED <<msCache, childVars, demoHTTPImage>>

\* Whether or not the patch succeeds, Reconcile returns the error that
\* brought it here.
recordDegradedStatus ==
    /\ step = "degraded"
    /\ \E err \in BOOLEAN :
         patchManagedServiceStatus(degradedStatus(managedService, reason), err)
    /\ Finish("error")
    /\ UNCHANGED <<msCache, childVars, demoHTTPImage>>

-----------------------------------------------------------------------------
(* The process (cmd/main.go).                                              *)

\* The operator stops anywhere and a new process starts, perhaps with
\* another image.  Its informers list the objects, which enqueues what exists.
Restart(image) ==
    /\ Disrupt("restart")
    /\ demoHTTPImage' = image
    /\ msCache' = ms
    /\ msWatch' = <<>>
    /\ childCache' = child
    /\ childWatch' = [k \in ChildKinds |-> <<>>]
    /\ current' = [k \in ChildKinds |-> FALSE]
    /\ queued' = (ms.exists \/ \E k \in ChildKinds : Owned(child[k]))
    /\ ResetLocals
    /\ reconciliations' = NoReconciliations
    /\ conditionTransitions' = NoTransitions
    /\ UNCHANGED <<ms, child>>

-----------------------------------------------------------------------------
\* A process that has just started, before its informers list anything.
OperatorInit ==
    /\ queued = FALSE /\ step = "idle"
    /\ kind = "Deployment" /\ managedService = NoManagedService(0)
    /\ ready = 0 /\ reason = "" /\ demoHTTPImage \in Images
    /\ reconciliations = NoReconciliations
    /\ conditionTransitions = NoTransitions

Init == ClusterInit /\ OperatorInit

\* A step of the worker.
Work ==
    \/ Reconcile
    \/ ReconcileFailsToRead
    \/ \E k \in ChildKinds :
         CreateOrUpdate(k) \/ CreateChild(k) \/ UpdateChild(k)
    \/ updateManagedServiceStatus
    \/ recordDegradedStatus

Deliver == DeliverManagedService \/ \E k \in ChildKinds : DeliverChild(k)

Environment == ClusterNext /\ UNCHANGED operatorVars

Next ==
    \/ Work
    \/ Deliver
    \/ \E image \in Images : Restart(image)
    \/ Environment

Safety == Init /\ [][Next]_vars

\* The worker and the informers keep running, and so do the Deployment
\* controller and the garbage collector.  Nothing that disrupts is fair.  A
\* resource whose children are gone again and again is removed in the end.
Fairness ==
    /\ WF_vars(Work)
    /\ WF_vars(DeliverManagedService)
    /\ \A k \in ChildKinds :
         /\ WF_vars(DeliverChild(k))
         /\ WF_vars(GarbageCollect(k) /\ UNCHANGED operatorVars)
    /\ WF_vars(Rollout /\ UNCHANGED operatorVars)
    /\ SF_vars(DeletionEnds /\ UNCHANGED operatorVars)

Spec == Safety /\ Fairness

-----------------------------------------------------------------------------
(* Properties.                                                             *)

LocalTypeOK ==
    /\ queued \in BOOLEAN
    /\ step \in Steps
    /\ kind \in ChildKinds
    /\ managedService \in ManagedServices
    /\ ready \in Nat
    /\ reason \in FailureReasons \cup {""}

ProcessTypeOK ==
    /\ demoHTTPImage \in Images
    /\ reconciliations \in [Outcomes -> Nat]
    /\ conditionTransitions \in [ConditionTypes \X ConditionStatuses -> Nat]

\* Every variable has its type: in particular a reconciliation in progress
\* holds a ManagedService, and a failure is recorded with one of the reasons
\* the API declares.
TypeOK ==
    /\ ClusterTypeOK
    /\ LocalTypeOK
    /\ ProcessTypeOK

\* The operator never writes to a Deployment or Service that another
\* controller owns, even when that controller took the name between the
\* operator's cached read and its write (SetControllerReference and the
\* resourceVersion of CreateOrUpdate's Update, together).
ForeignChildUntouched ==
    [][\A k \in ChildKinds :
         (/\ child[k].exists
          /\ child[k].controller = "other"
          /\ child'[k] # child[k])
         => UNCHANGED <<step, kind>>]_vars

\* A child's controller reference never goes back to an older incarnation of
\* the ManagedService, however stale the copy the reconciler works from: the
\* garbage collector would take such a child from under the live resource.
OwnerNeverRegresses ==
    [][\A k \in ChildKinds :
         (Owned(child[k]) /\ Owned(child'[k]))
         => child'[k].owner >= child[k].owner]_vars

\* Once written, exactly one of Available, Progressing and Degraded is true,
\* and the three describe the same generation: overlapping patches computed
\* from stale copies never leave conditions of two different writes.
ConditionsCoherent ==
    LET c == ms.status.conditions
    IN ms.exists =>
         \/ \A t \in ConditionTypes : c[t] = NoCondition
         \/ /\ \A t \in ConditionTypes :
                 c[t].observedGeneration = c["Available"].observedGeneration
            /\ \E t \in ConditionTypes :
                 /\ c[t].status = "True"
                 /\ \A u \in ConditionTypes \ {t} : c[u].status = "False"

\* The live resource gets a new status, which names its generation.
NamesLiveGeneration ==
    /\ ms.exists /\ ms'.exists
    /\ ms'.status # ms.status
    /\ ms'.status.observedGeneration = ms'.generation

\* A status that names the live generation, written for the incarnation that
\* lives, was computed from the spec of that generation
\* (updateManagedServiceStatus, recordDegradedStatus and the unconditional
\* patch they send, which merges with the statuses written since the read).
\* A merge patch leaves the observed generation alone when the copy already
\* has it: in a resource that was created again, what it leaves alone may have
\* been written for the incarnation before, and is excepted.
StatusDescribesItsGeneration ==
    [][(/\ NamesLiveGeneration
        /\ managedService.uid = ms.uid
        /\ \/ ms.uid = 1
           \/ ms'.status.observedGeneration # ms.status.observedGeneration)
       => managedService.spec = ms'.spec]_vars

\* The generation alone tells a current status from an old one, as the build
\* guide says: also when the resource was deleted and created again between
\* the cached read and the patch.
GenerationTellsCurrentStatus ==
    [][NamesLiveGeneration => managedService.spec = ms'.spec]_vars

\* managedservice_condition_transitions_total moves only together with the
\* status of a condition that the server stores
\* (observeConditionTransitions, called after the patch).
CountsOnlyPersistedTransitions ==
    [][\A t \in ConditionTypes, s \in ConditionStatuses :
         conditionTransitions'[<<t, s>>] > conditionTransitions[<<t, s>>]
         => /\ ms'.status.conditions[t].status = s
            /\ ms.status.conditions[t].status # s]_vars

-----------------------------------------------------------------------------
(* Convergence.                                                            *)

\* A child that the operator may not touch, or that the server will not let
\* it create or repair.
Blocked(k) ==
    \/ k \in scenario.refused
    \/ /\ child[k].exists
       /\ \/ AlreadyOwned(child[k])
          \/ k = "Deployment" /\ ~child[k].selector

\* The child of the live resource, as reconcileDeployment and
\* reconcileService would leave it.
Reconciled(k) ==
    /\ child[k].exists /\ mutate(k, ms, demoHTTPImage, child[k]) = child[k]

Converged ==
    IF ~ms.exists
    THEN \A k \in ChildKinds : ~Owned(child[k])
    ELSE IF ~validateImmutableImage(demoHTTPImage)
    THEN ms.status = degradedStatus(ms, "TemplateConfigurationInvalid")
    ELSE IF Blocked("Deployment")
    THEN ms.status = degradedStatus(ms, "DeploymentReconcileFailed")
    ELSE /\ Reconciled("Deployment")
         /\ IF Blocked("Service")
            THEN ms.status = degradedStatus(ms, "ServiceReconcileFailed")
            ELSE /\ Reconciled("Service")
                 /\ ms.status = updatedStatus(ms, child["Deployment"].ready)

\* Once the disruptions end, the children and the status settle on what the
\* spec asks for, from any mixture of stale caches, lost answers, crashes,
\* drift and re-creations that came before.
EventuallyConverged == <>[]Converged

\* A resource that is deleted in the foreground goes: the garbage collector
\* removes its children and then the resource (Reconcile, which does not look at
\* the deletionTimestamp, must not keep them alive).
ForegroundDeletionEnds == ms.deleting ~> ~ms.exists

\* When the resource is gone for good, what the operator made for it goes too,
\* also what a reconciliation that had read the old copy makes afterwards (the
\* controller reference that the mutate functions set).  What another writer
\* made under the name stays.
ChildrenGoWithIt ==
    <>[]~ms.exists =>
      <>[](\A k \in ChildKinds :
             child[k].exists => child[k].fields = DriftedFields)

\* Once the disruptions end, a resource that can be reconciled is not
\* reconciled for ever: every write of a child and every status patch that
\* changes something is an event that causes a reconciliation, and the
\* operator's own writes come to an end (Reconcile's result,
\* CreateOrUpdate's comparison, the statuses computed from what was read).
EventuallyQuiet ==
    <>[](\/ step = "idle" /\ ~queued
         \/ ~validateImmutableImage(demoHTTPImage)
         \/ \E k \in ChildKinds : Blocked(k))

=============================================================================
