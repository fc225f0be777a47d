--------------------------- MODULE HandoverProofs ---------------------------
(***************************************************************************)
(* Two managers that both patch the status, from caches of their own and   *)
(* without a lock between them, leave the conditions of one write.  What   *)
(* either of them holds does not matter, so nothing is said of it.         *)
(***************************************************************************)
EXTENDS Handover, OperatorProofs

\* The resource at the server has the fields of a ManagedService.
Shape(m) ==
    m = [exists |-> m.exists, deleting |-> m.deleting, uid |-> m.uid,
         generation |-> m.generation, spec |-> m.spec, status |-> m.status]

ResourceOK ==
    /\ Shape(ms)
    /\ ms.exists => Coherent(ms.status.conditions)

-----------------------------------------------------------------------------
(* What a step may do to the resource.                                     *)

\* A patch of conditions that belong together, merged into the live status.
Patched ==
    /\ ms.exists
    /\ \E before, after :
         /\ Coherent(after.conditions)
         /\ ms' = [ms EXCEPT !.status = MergePatch(ms.status, before, after)]

\* A client's write, which leaves the status alone, or the resource's end.
ClientWrote ==
    /\ Shape(ms) => Shape(ms')
    /\ ms'.exists => \/ ms'.status = NoStatus
                     \/ Shape(ms) => ms.exists /\ ms'.status = ms.status

LEMMA PatchedOK ==
    ASSUME ResourceOK, Patched
    PROVE  ResourceOK'
<1>1. PICK before, after :
        /\ Coherent(after.conditions)
        /\ ms' = [ms EXCEPT !.status = MergePatch(ms.status, before, after)]
  BY DEF Patched
<1>2. PICK merged : merged = MergePatch(ms.status, before, after)
  OBVIOUS
<1>3. merged.conditions \in {ms.status.conditions, after.conditions}
  BY <1>2 DEF MergePatch
<1>4. Coherent(merged.conditions)
  BY <1>1, <1>3 DEF ResourceOK, Patched
<1>5. ms' = [exists |-> ms.exists, deleting |-> ms.deleting, uid |-> ms.uid,
             generation |-> ms.generation, spec |-> ms.spec,
             status |-> merged]
  BY <1>1, <1>2 DEF ResourceOK, Shape
<1>6. Shape(ms') /\ ms'.status = merged
  BY <1>5 DEF Shape
<1> QED
  BY <1>4, <1>6 DEF ResourceOK

LEMMA ClientWroteOK ==
    ASSUME ResourceOK, ClientWrote
    PROVE  ResourceOK'
<1>1. Coherent(NoStatus.conditions)
  BY WrittenConditionsCoherent
<1> QED
  BY <1>1 DEF ResourceOK, ClientWrote

-----------------------------------------------------------------------------
(* The old manager.                                                        *)

LEMMA OldWorkEffect == Work => ms' = ms \/ Patched
<1>1. ASSUME NEW after, NEW err, patchManagedServiceStatus(after, err),
             Coherent(after.conditions)
      PROVE  ms' = ms \/ Patched
  BY <1>1, PatchEffect DEF Patched, WriteManagedService
<1>2. CASE updateManagedServiceStatus \/ recordDegradedStatus
  BY <1>1, <1>2, WrittenConditionsCoherent
  DEF updateManagedServiceStatus, recordDegradedStatus
<1>3. ASSUME NEW k \in ChildKinds,
             CreateOrUpdate(k) \/ CreateChild(k) \/ UpdateChild(k)
      PROVE  ms' = ms
  BY <1>3 DEF CreateOrUpdate, CreateChild, UpdateChild, msVars
<1>4. CASE Reconcile \/ ReconcileFailsToRead
  BY <1>4 DEF Reconcile, ReconcileFailsToRead, msVars
<1> QED
  BY <1>2, <1>3, <1>4 DEF Work

LEMMA OldOutsideEffect == ClusterNext => ms' = ms \/ ClientWrote
<1>1. ASSUME NEW spec \in SpecValues, ClientCreates(spec) \/ ClientUpdates(spec)
      PROVE  ClientWrote
  <2>1. CASE ClientCreates(spec)
    <3>1. ms' = [exists |-> TRUE, deleting |-> FALSE, uid |-> ms.uid + 1,
                 generation |-> 1, spec |-> Defaulted(spec),
                 status |-> NoStatus]
      BY <2>1 DEF ClientCreates, WriteManagedService
    <3> QED
      BY <3>1 DEF ClientWrote, Shape
  <2>2. CASE ClientUpdates(spec)
    <3>1. /\ ms.exists
          /\ ms' = [ms EXCEPT !.spec = Defaulted(spec),
                              !.generation = ms.generation + 1]
      BY <2>2 DEF ClientUpdates, WriteManagedService
    <3> QED
      BY <3>1 DEF ClientWrote, Shape
  <2> QED
    BY <1>1, <2>1, <2>2
<1>2. CASE ClientDeletesInForeground
  <2>1. /\ ms.exists
        /\ ms' = [ms EXCEPT !.deleting = TRUE, !.generation = ms.generation + 1]
    BY <1>2 DEF ClientDeletesInForeground, WriteManagedService
  <2> QED
    BY <2>1 DEF ClientWrote, Shape
<1>3. CASE ClientDeletes \/ DeletionEnds
  <2>1. ms' = NoManagedService(ms.uid)
    BY <1>3 DEF ClientDeletes, DeletionEnds, WriteManagedService
  <2> QED
    BY <2>1 DEF ClientWrote, Shape, NoManagedService
<1>4. ASSUME NEW k \in ChildKinds,
             \/ ChildDrifts(k)
             \/ OwnerIsStripped(k)
             \/ ChildIsRemoved(k)
             \/ \E controller \in {"none", "other"}, selector \in BOOLEAN :
                  NameIsOccupied(k, controller, selector)
             \/ GarbageCollect(k)
      PROVE  ms' = ms
  BY <1>4 DEF ChildDrifts, OwnerIsStripped, ChildIsRemoved, NameIsOccupied,
              GarbageCollect, msVars
<1>5. CASE PodsBecomeUnready \/ Rollout
  BY <1>5 DEF PodsBecomeUnready, Rollout, msVars
<1> QED
  BY <1>1, <1>2, <1>3, <1>4, <1>5 DEF ClusterNext

-----------------------------------------------------------------------------
(* The new manager: the same code over variables of its own.               *)

\* The new manager computes and merges statuses as the old one does.
LEMMA NewStatuses ==
    /\ \A m, r : Coherent(New!updatedStatus(m, r).conditions)
    /\ \A m, why : Coherent(New!degradedStatus(m, why).conditions)
    /\ \A live, before, after :
         New!MergePatch(live, before, after) = MergePatch(live, before, after)
    /\ New!NoStatus = NoStatus
<1>1. \A m, r : New!updatedStatus(m, r) = updatedStatus(m, r)
  BY DEF New!updatedStatus, updatedStatus, New!SucceededConditions,
         SucceededConditions, New!setManagedServiceCondition,
         setManagedServiceCondition, New!ConditionTypes, ConditionTypes,
         New!desiredReplicas, desiredReplicas, New!Endpoint, Endpoint
<1>2. \A m, why : New!degradedStatus(m, why) = degradedStatus(m, why)
  BY DEF New!degradedStatus, degradedStatus, New!setManagedServiceCondition,
         setManagedServiceCondition, New!ConditionTypes, ConditionTypes
<1>3. \A live, before, after :
        New!MergePatch(live, before, after) = MergePatch(live, before, after)
  BY DEF New!MergePatch, MergePatch
<1>4. New!NoStatus = NoStatus
  BY DEF New!NoStatus, NoStatus, New!ConditionTypes, ConditionTypes,
         New!NoCondition, NoCondition
<1> QED
  BY <1>1, <1>2, <1>3, <1>4, WrittenConditionsCoherent

LEMMA NewWorkEffect == New!Work => ms' = ms \/ Patched
<1>1. ASSUME NEW after, NEW err, New!patchManagedServiceStatus(after, err),
             Coherent(after.conditions)
      PROVE  ms' = ms \/ Patched
  <2>1. \/ ms' = ms
        \/ /\ ms.exists
           /\ ms' = [ms EXCEPT !.status =
                       New!MergePatch(ms.status, newManagedService.status, after)]
    BY <1>1 DEF New!patchManagedServiceStatus, New!ApplyStatusPatch,
                New!WriteManagedService
  <2> QED
    BY <1>1, <2>1, NewStatuses DEF Patched
<1>2. CASE New!updateManagedServiceStatus \/ New!recordDegradedStatus
  BY <1>1, <1>2, NewStatuses
  DEF New!updateManagedServiceStatus, New!recordDegradedStatus
<1>3. ASSUME NEW k \in New!ChildKinds,
             New!CreateOrUpdate(k) \/ New!CreateChild(k) \/ New!UpdateChild(k)
      PROVE  ms' = ms
  BY <1>3 DEF New!CreateOrUpdate, New!CreateChild, New!UpdateChild, New!msVars
<1>4. CASE New!Reconcile \/ New!ReconcileFailsToRead
  BY <1>4 DEF New!Reconcile, New!ReconcileFailsToRead, New!msVars
<1> QED
  BY <1>2, <1>3, <1>4 DEF New!Work

LEMMA NewOutsideEffect == New!ClusterNext => ms' = ms \/ ClientWrote
<1>1. ASSUME NEW spec \in New!SpecValues,
             New!ClientCreates(spec) \/ New!ClientUpdates(spec)
      PROVE  ClientWrote
  <2>1. CASE New!ClientCreates(spec)
    <3>1. ms' = [exists |-> TRUE, deleting |-> FALSE, uid |-> ms.uid + 1,
                 generation |-> 1, spec |-> New!Defaulted(spec),
                 status |-> New!NoStatus]
      BY <2>1 DEF New!ClientCreates, New!WriteManagedService
    <3> QED
      BY <3>1, NewStatuses DEF ClientWrote, Shape
  <2>2. CASE New!ClientUpdates(spec)
    <3>1. /\ ms.exists
          /\ ms' = [ms EXCEPT !.spec = New!Defaulted(spec),
                              !.generation = ms.generation + 1]
      BY <2>2 DEF New!ClientUpdates, New!WriteManagedService
    <3> QED
      BY <3>1 DEF ClientWrote, Shape
  <2> QED
    BY <1>1, <2>1, <2>2
<1>2. CASE New!ClientDeletesInForeground
  <2>1. /\ ms.exists
        /\ ms' = [ms EXCEPT !.deleting = TRUE, !.generation = ms.generation + 1]
    BY <1>2 DEF New!ClientDeletesInForeground, New!WriteManagedService
  <2> QED
    BY <2>1 DEF ClientWrote, Shape
<1>3. CASE New!ClientDeletes \/ New!DeletionEnds
  <2>1. ms' = New!NoManagedService(ms.uid)
    BY <1>3 DEF New!ClientDeletes, New!DeletionEnds, New!WriteManagedService
  <2> QED
    BY <2>1 DEF ClientWrote, Shape, New!NoManagedService
<1>4. ASSUME NEW k \in New!ChildKinds,
             \/ New!ChildDrifts(k)
             \/ New!OwnerIsStripped(k)
             \/ New!ChildIsRemoved(k)
             \/ \E controller \in {"none", "other"}, selector \in BOOLEAN :
                  New!NameIsOccupied(k, controller, selector)
             \/ New!GarbageCollect(k)
      PROVE  ms' = ms
  BY <1>4 DEF New!ChildDrifts, New!OwnerIsStripped, New!ChildIsRemoved,
              New!NameIsOccupied, New!GarbageCollect, New!msVars
<1>5. CASE New!PodsBecomeUnready \/ New!Rollout
  BY <1>5 DEF New!PodsBecomeUnready, New!Rollout, New!msVars
<1> QED
  BY <1>1, <1>2, <1>3, <1>4, <1>5 DEF New!ClusterNext

-----------------------------------------------------------------------------
LEMMA SettledOK ==
    ASSUME NEW spec \in SpecValues, Settled(spec)
    PROVE  ResourceOK
<1> DEFINE new == [exists |-> TRUE, deleting |-> FALSE, uid |-> 1,
                   generation |-> 1, spec |-> Defaulted(spec),
                   status |-> NoStatus]
<1>1. PICK status : status = updatedStatus(new, desiredReplicas(new))
  OBVIOUS
<1>2. Coherent(status.conditions)
  BY <1>1, WrittenConditionsCoherent
<1>3. ms = [new EXCEPT !.status = status]
  BY <1>1 DEF Settled
<1>4. Shape(ms) /\ ms.status = status
  BY <1>3 DEF Shape
<1> QED
  BY <1>2, <1>4 DEF ResourceOK

\* While the lease changes hands both managers reconcile, from caches that
\* differ, and patch the same status; the conditions stored are those of one
\* write all the same: conditions are a list, which a merge patch replaces
\* whole (patchManagedServiceStatus of either process).
THEOREM HandoverKeepsCoherence == HandoverSpec => []ConditionsCoherent
<1>1. HandoverInit => ResourceOK
  BY SettledOK DEF HandoverInit
<1>2. ASSUME ResourceOK, [HandoverNext]_handoverVars PROVE ResourceOK'
  <2>u. ASSUME ms' = ms PROVE ResourceOK'
    BY <1>2, <2>u DEF ResourceOK
  <2>1. CASE OldWorks
    BY <1>2, <2>1, <2>u, OldWorkEffect, PatchedOK DEF OldWorks
  <2>2. CASE NewWorks
    BY <1>2, <2>2, <2>u, NewWorkEffect, PatchedOK DEF NewWorks
  <2>3. CASE Outside(ClusterNext, New!ClusterNext)
    BY <1>2, <2>3, <2>u, OldOutsideEffect, NewOutsideEffect, ClientWroteOK
    DEF Outside
  <2>4. CASE OldDelivers
    BY <2>4, <2>u DEF OldDelivers, Deliver, DeliverManagedService,
                      DeliverChild, msVars
  <2>5. CASE NewDelivers
    BY <2>5, <2>u DEF NewDelivers, New!Deliver, New!DeliverManagedService,
                      New!DeliverChild, New!msVars
  <2>6. CASE TakeLease \/ OldExits
    BY <2>6, <2>u DEF TakeLease, OldExits, vars, clusterVars, msVars
  <2>7. CASE UNCHANGED handoverVars
    BY <2>7, <2>u DEF handoverVars, vars, clusterVars, msVars
  <2> QED
    BY <1>2, <2>1, <2>2, <2>3, <2>4, <2>5, <2>6, <2>7 DEF HandoverNext
<1>3. ResourceOK => ConditionsCoherent
  BY DEF ResourceOK, ConditionsCoherent, Coherent
<1> QED
  BY <1>1, <1>2, <1>3, PTL DEF HandoverSpec, HandoverSafety

=============================================================================
