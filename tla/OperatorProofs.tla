--------------------------- MODULE OperatorProofs ---------------------------
(***************************************************************************)
(* Safety of the operator, for every set of replicas, messages and images, *)
(* every number and mix of disruptions and every lag of the watches.       *)
(***************************************************************************)
EXTENDS Operator, SequenceTheorems, TLAPS

-----------------------------------------------------------------------------
(* The status values the two writers compute and the patch they send.      *)

LEMMA StatusTypes ==
    ASSUME NEW m \in ManagedServices, NEW r \in Nat,
           NEW why \in FailureReasons \cup {""}
    PROVE  /\ updatedStatus(m, r) \in StatusValues
           /\ degradedStatus(m, why) \in StatusValues
<1>1. \A s \in ConditionStatuses, c \in ConditionReasons \cup {""} :
        setManagedServiceCondition(m.generation, s, c) \in Conditions
  BY DEF setManagedServiceCondition, Conditions, ManagedServices
<1>2. SucceededConditions(m, r) \in [ConditionTypes -> Conditions]
  BY <1>1 DEF SucceededConditions, ConditionTypes, ConditionStatuses,
              ConditionReasons
<1>3. degradedStatus(m, why).conditions \in [ConditionTypes -> Conditions]
  BY <1>1 DEF degradedStatus, ConditionTypes, ConditionStatuses,
              ConditionReasons
<1> QED
  BY <1>2, <1>3 DEF updatedStatus, degradedStatus, StatusValues, Endpoints,
                    Endpoint, ManagedServices

LEMMA MergeTypes ==
    ASSUME NEW live \in StatusValues, NEW before \in StatusValues,
           NEW after \in StatusValues
    PROVE  /\ MergePatch(live, before, after) \in StatusValues
           /\ MergePatch(live, before, after).conditions
                \in {live.conditions, after.conditions}
  BY DEF MergePatch, StatusValues

LEMMA EmptyTypes ==
    /\ NoStatus \in StatusValues
    /\ \A u \in Nat : NoManagedService(u) \in ManagedServices
    /\ NoChild \in Children
    /\ DriftedFields \in Fields
    /\ NoReconciliations \in [Outcomes -> Nat]
    /\ NoTransitions \in [ConditionTypes \X ConditionStatuses -> Nat]
<1>1. NoCondition \in Conditions
  BY DEF NoCondition, Conditions
<1>2. NoStatus \in StatusValues
  BY <1>1 DEF NoStatus, StatusValues, Endpoints
<1>3. NoSpec \in SpecValues
  BY SpecAssumption DEF NoSpec, SpecValues
<1>4. \A u \in Nat : NoManagedService(u) \in ManagedServices
  BY <1>2, <1>3 DEF NoManagedService, ManagedServices
<1>5. NoFields \in Fields /\ DriftedFields \in Fields
  BY SpecAssumption DEF NoFields, DriftedFields, Fields
<1>6. NoChild \in Children
  BY <1>5 DEF NoChild, Children
<1> QED
  BY <1>2, <1>4, <1>5, <1>6 DEF NoReconciliations, NoTransitions

\* The mutate function keeps a child a child.
LEMMA MutateType ==
    ASSUME NEW k \in ChildKinds, NEW m \in ManagedServices,
           NEW image \in Images, NEW c \in Children
    PROVE  mutate(k, m, image, c) \in Children
<1>1. desiredFields(k, m, image) \in Fields
  BY SpecAssumption DEF desiredFields, desiredReplicas, Fields, NoFields,
                        ManagedServices, SpecValues
<1> QED
  BY <1>1 DEF mutate, Children, ManagedServices

-----------------------------------------------------------------------------
(* Type correctness.                                                       *)

LEMMA WriteManagedServiceType ==
    ASSUME ClusterTypeOK, NEW m \in ManagedServices, WriteManagedService(m)
    PROVE  ms' \in ManagedServices /\ msWatch' \in Seq(ManagedServices)
  BY DEF ClusterTypeOK, WriteManagedService

LEMMA WriteChildType ==
    ASSUME ClusterTypeOK, NEW k \in ChildKinds, NEW c \in Children,
           WriteChild(k, c)
    PROVE  /\ child' \in [ChildKinds -> Children]
           /\ childWatch' \in [ChildKinds -> Seq(Children)]
           /\ current' \in [ChildKinds -> BOOLEAN]
<1>1. Append(childWatch[k], c) \in Seq(Children)
  BY DEF ClusterTypeOK
<1>2. childWatch' \in [ChildKinds -> Seq(Children)]
  BY <1>1 DEF ClusterTypeOK, WriteChild
<1>3. child' \in [ChildKinds -> Children]
  BY DEF ClusterTypeOK, WriteChild
<1>4. current' \in [ChildKinds -> BOOLEAN]
  BY DEF ClusterTypeOK, WriteChild
<1> QED
  BY <1>2, <1>3, <1>4

LEMMA DisruptType ==
    ASSUME ClusterTypeOK, NEW what, Disrupt(what)
    PROVE  scenario' \in ScenarioValues
<1>1. scenario \in ScenarioValues
  BY DEF ClusterTypeOK
<1>2. scenario.left - 1 \in Nat
  BY <1>1 DEF Disrupt, ScenarioValues
<1>3. scenario' = [scenario EXCEPT !.left = scenario.left - 1]
  BY DEF Disrupt
<1> QED
  BY <1>1, <1>2, <1>3 DEF ScenarioValues

\* What the environment may write: a ManagedService whose UID does not go
\* back and whose status is empty or untouched, or a child whose owner is
\* erased or untouched.
LEMMA EnvironmentEffect ==
    ASSUME TypeOK, Environment
    PROVE  /\ UNCHANGED <<operatorVars, msCache, childCache>>
           /\ scenario' \in ScenarioValues
           /\ \/ /\ UNCHANGED <<child, childWatch, current>>
                 /\ \E m \in ManagedServices :
                      /\ WriteManagedService(m)
                      /\ m.uid >= ms.uid
                      /\ \/ m.status = NoStatus
                         \/ ms.exists /\ m.status = ms.status
              \/ /\ UNCHANGED <<ms, msWatch>>
                 /\ \E k \in ChildKinds, c \in Children :
                      /\ WriteChild(k, c)
                      /\ c.owner \in {0, child[k].owner}
<1> DEFINE MsEffect(m) == /\ WriteManagedService(m)
                          /\ m.uid >= ms.uid
                          /\ \/ m.status = NoStatus
                             \/ ms.exists /\ m.status = ms.status
           ChildEffect(k, c) == /\ WriteChild(k, c)
                                /\ c.owner \in {0, child[k].owner}
<1>t. ClusterTypeOK
  BY DEF TypeOK
<1>m. ms \in ManagedServices /\ scenario \in ScenarioValues
  BY <1>t DEF ClusterTypeOK
<1>0. UNCHANGED operatorVars
  BY DEF Environment
<1>1. SUFFICES /\ UNCHANGED <<msCache, childCache>>
               /\ scenario' \in ScenarioValues
               /\ \/ /\ UNCHANGED <<child, childWatch, current>>
                     /\ \E m \in ManagedServices : MsEffect(m)
                  \/ /\ UNCHANGED <<ms, msWatch>>
                     /\ \E k \in ChildKinds, c \in Children : ChildEffect(k, c)
  BY <1>0
<1>2. ASSUME NEW spec \in SpecValues, ClientCreates(spec) \/ ClientUpdates(spec)
      PROVE  /\ UNCHANGED <<msCache, childVars>>
             /\ scenario' \in ScenarioValues
             /\ \E m \in ManagedServices : MsEffect(m)
  <2>1. Defaulted(spec) \in SpecValues
    BY SpecAssumption DEF Defaulted, SpecValues
  <2>2. ms.uid + 1 \in Nat /\ ms.generation + 1 \in Nat /\ 1 \in Nat
    BY <1>m DEF ManagedServices
  <2>3. NoStatus \in StatusValues
    BY EmptyTypes
  <2>4. CASE ClientCreates(spec)
    <3> DEFINE m == [exists |-> TRUE, deleting |-> FALSE, uid |-> ms.uid + 1,
                     generation |-> 1, spec |-> Defaulted(spec),
                     status |-> NoStatus]
    <3>1. m \in ManagedServices
      BY <2>1, <2>2, <2>3 DEF ManagedServices
    <3>2. m.uid >= ms.uid /\ m.status = NoStatus
      BY <1>m DEF ManagedServices
    <3>3. WriteManagedService(m) /\ UNCHANGED <<msCache, childVars>>
      BY <2>4 DEF ClientCreates
    <3>4. scenario' \in ScenarioValues
      BY <1>t, <2>4, DisruptType DEF ClientCreates
    <3> QED
      BY <3>1, <3>2, <3>3, <3>4
  <2>5. CASE ClientUpdates(spec)
    <3> DEFINE m == [ms EXCEPT !.spec = Defaulted(spec), !.generation = @ + 1]
    <3>1. m \in ManagedServices
      BY <1>m, <2>1, <2>2 DEF ManagedServices
    <3>2. m.uid >= ms.uid /\ m.status = ms.status
      BY <1>m DEF ManagedServices
    <3>3. ms.exists /\ WriteManagedService(m) /\ UNCHANGED <<msCache, childVars>>
      BY <2>5 DEF ClientUpdates
    <3>4. scenario' \in ScenarioValues
      BY <1>t, <2>5, DisruptType DEF ClientUpdates
    <3> QED
      BY <3>1, <3>2, <3>3, <3>4
  <2> QED
    BY <1>2, <2>4, <2>5
<1>3. CASE ClientDeletes \/ DeletionEnds
  <2> DEFINE m == NoManagedService(ms.uid)
  <2>1. m \in ManagedServices
    BY <1>m, EmptyTypes DEF ManagedServices
  <2>2. m.uid >= ms.uid /\ m.status = NoStatus
    BY <1>m DEF ManagedServices, NoManagedService
  <2>3. /\ WriteManagedService(m)
        /\ UNCHANGED <<msCache, childVars>>
        /\ scenario' \in ScenarioValues
    BY <1>3, <1>t, <1>m, DisruptType DEF ClientDeletes, DeletionEnds
  <2>4. MsEffect(m)
    BY <2>2, <2>3
  <2> QED
    BY <2>1, <2>3, <2>4 DEF childVars
<1>f. CASE ClientDeletesInForeground
  <2> DEFINE m == [ms EXCEPT !.deleting = TRUE, !.generation = @ + 1]
  <2>0. ms.generation + 1 \in Nat
    BY <1>m DEF ManagedServices
  <2>1. /\ m \in ManagedServices
        /\ m.uid >= ms.uid
        /\ m.status = ms.status
    <3>1. m \in ManagedServices
      BY <1>m, <2>0 DEF ManagedServices
    <3>2. m.uid >= ms.uid /\ m.status = ms.status
      BY <1>m DEF ManagedServices
    <3> QED
      BY <3>1, <3>2
  <2>2. ms.exists /\ WriteManagedService(m) /\ UNCHANGED <<msCache, childVars>>
    BY <1>f DEF ClientDeletesInForeground
  <2>3. scenario' \in ScenarioValues
    BY <1>t, <1>f, DisruptType DEF ClientDeletesInForeground
  <2> QED
    BY <2>1, <2>2, <2>3 DEF childVars
<1>4. ASSUME NEW k \in ChildKinds,
             \/ ChildDrifts(k)
             \/ OwnerIsStripped(k)
             \/ ChildIsRemoved(k)
             \/ \E controller \in {"none", "other"}, selector \in BOOLEAN :
                  NameIsOccupied(k, controller, selector)
             \/ GarbageCollect(k)
             \/ k = "Deployment" /\ (PodsBecomeUnready \/ Rollout)
      PROVE  /\ UNCHANGED <<msVars, childCache>>
             /\ scenario' \in ScenarioValues
             /\ \E c \in Children : ChildEffect(k, c)
  <2>1. child[k] \in Children
    BY <1>t DEF ClusterTypeOK
  <2>2. CASE ChildDrifts(k)
    <3> DEFINE c == [child[k] EXCEPT !.fields = DriftedFields]
    <3>1. c \in Children /\ c.owner = child[k].owner
      BY <2>1, EmptyTypes DEF Children
    <3> QED
      BY <1>t, <2>2, <3>1, DisruptType DEF ChildDrifts
  <2>3. CASE OwnerIsStripped(k)
    <3> DEFINE c == [child[k] EXCEPT !.controller = "none", !.owner = 0]
    <3>1. c \in Children /\ c.owner = 0
      BY <2>1 DEF Children
    <3> QED
      BY <1>t, <2>3, <3>1, DisruptType DEF OwnerIsStripped
  <2>4. CASE ChildIsRemoved(k) \/ GarbageCollect(k)
    <3>1. NoChild \in Children /\ NoChild.owner = 0
      BY EmptyTypes DEF NoChild
    <3> QED
      BY <1>t, <1>m, <2>4, <3>1, DisruptType DEF ChildIsRemoved, GarbageCollect
  <2>5. CASE \E controller \in {"none", "other"}, selector \in BOOLEAN :
               NameIsOccupied(k, controller, selector)
    <3>1. PICK controller \in {"none", "other"}, selector \in BOOLEAN :
            NameIsOccupied(k, controller, selector)
      BY <2>5
    <3> DEFINE c == [exists |-> TRUE, controller |-> controller, owner |-> 0,
                     fields |-> DriftedFields, selector |-> selector,
                     ready |-> 0]
    <3>2. c \in Children /\ c.owner = 0
      BY <3>1, EmptyTypes DEF Children
    <3> QED
      BY <1>t, <3>1, <3>2, DisruptType DEF NameIsOccupied
  <2>6. CASE k = "Deployment" /\ PodsBecomeUnready
    <3> DEFINE c == [child[k] EXCEPT !.ready = 0]
    <3>1. c \in Children /\ c.owner = child[k].owner
      BY <2>1 DEF Children
    <3> QED
      BY <1>t, <2>6, <3>1, DisruptType DEF PodsBecomeUnready
  <2>7. CASE k = "Deployment" /\ Rollout
    <3> DEFINE c == [child[k] EXCEPT !.ready = child[k].fields.replicas]
    <3>1. c \in Children /\ c.owner = child[k].owner
      BY <2>1 DEF Children, Fields
    <3> QED
      BY <1>m, <2>7, <3>1 DEF Rollout
  <2> QED
    BY <1>4, <2>2, <2>3, <2>4, <2>5, <2>6, <2>7
<1>5. "Deployment" \in ChildKinds
  BY DEF ChildKinds
<1> HIDE DEF MsEffect, ChildEffect
<1> QED
  BY <1>2, <1>3, <1>f, <1>4, <1>5
  DEF Environment, ClusterNext, childVars, msVars

LEMMA EnvironmentType ==
    ASSUME TypeOK, Environment
    PROVE  TypeOK'
<1>t. ClusterTypeOK
  BY DEF TypeOK
<1>1. /\ UNCHANGED <<operatorVars, msCache, childCache>>
      /\ scenario' \in ScenarioValues
      /\ \/ /\ UNCHANGED <<child, childWatch, current>>
            /\ \E m \in ManagedServices : WriteManagedService(m)
         \/ /\ UNCHANGED <<ms, msWatch>>
            /\ \E k \in ChildKinds, c \in Children : WriteChild(k, c)
  BY EnvironmentEffect
<1>2. ms' \in ManagedServices /\ msWatch' \in Seq(ManagedServices)
  BY <1>1, <1>t, WriteManagedServiceType DEF ClusterTypeOK
<1>3. /\ child' \in [ChildKinds -> Children]
      /\ childWatch' \in [ChildKinds -> Seq(Children)]
      /\ current' \in [ChildKinds -> BOOLEAN]
  BY <1>1, <1>t, WriteChildType DEF ClusterTypeOK
<1>4. ClusterTypeOK'
  BY <1>1, <1>2, <1>3, <1>t DEF ClusterTypeOK
<1> QED
  BY <1>1, <1>4 DEF operatorVars, localVars, metricsVars, TypeOK, LocalTypeOK,
                    ProcessTypeOK

LEMMA CountTypes ==
    ASSUME ProcessTypeOK
    PROVE  /\ \A o \in Outcomes :
                observeReconciliation(o) => reconciliations' \in [Outcomes -> Nat]
           /\ \A b, a : CountTransitions(b, a) =>
                conditionTransitions' \in [ConditionTypes \X ConditionStatuses -> Nat]
<1>1. \A n \in Nat : Inc(n) \in Nat
  BY DEF Inc
<1>2. ASSUME NEW o \in Outcomes, observeReconciliation(o)
      PROVE  reconciliations' \in [Outcomes -> Nat]
  <2>1. reconciliations \in [Outcomes -> Nat]
    BY DEF ProcessTypeOK
  <2>2. Inc(reconciliations[o]) \in Nat
    BY <1>1, <2>1
  <2> QED
    BY <1>2, <2>1, <2>2 DEF observeReconciliation
<1>3. ASSUME NEW b, NEW a, CountTransitions(b, a)
      PROVE  conditionTransitions' \in [ConditionTypes \X ConditionStatuses -> Nat]
  <2>1. conditionTransitions \in [ConditionTypes \X ConditionStatuses -> Nat]
    BY DEF ProcessTypeOK
  <2> QED
    BY <1>1, <1>3, <2>1 DEF CountTransitions
<1> QED
  BY <1>2, <1>3

\* What a step leaves in the local variables when Reconcile goes on, fails
\* or returns.
LEMMA LocalTypes ==
    ASSUME LocalTypeOK, NEW k \in ChildKinds, NEW r \in Nat, NEW o \in Outcomes
    PROVE  /\ Fail(reasonFailed(k)) => LocalTypeOK'
           /\ Proceed(k, r) => LocalTypeOK'
           /\ Finish(o) => LocalTypeOK'
<1>1. Fail(reasonFailed(k)) => LocalTypeOK'
  BY DEF LocalTypeOK, Fail, reasonFailed, Steps, FailureReasons
<1>2. Proceed(k, r) => LocalTypeOK'
  BY DEF LocalTypeOK, Proceed, Steps, ChildKinds
<1>3. ASSUME Finish(o) PROVE LocalTypeOK'
  <2>1. ResetLocals /\ queued' \in BOOLEAN
    BY <1>3, Zenon DEF Finish, Requeues
  <2>2. step' \in Steps /\ kind' \in ChildKinds /\ ready' \in Nat
    BY <2>1 DEF ResetLocals, Steps, ChildKinds
  <2>3. managedService' \in ManagedServices
    BY <2>1, EmptyTypes DEF ResetLocals
  <2>4. reason' \in FailureReasons \cup {""}
    BY <2>1 DEF ResetLocals
  <2> QED
    BY <2>1, <2>2, <2>3, <2>4 DEF LocalTypeOK
<1> QED
  BY <1>1, <1>2, <1>3

LEMMA DeliverType ==
    ASSUME TypeOK, Deliver
    PROVE  TypeOK'
<1>t. ClusterTypeOK /\ LocalTypeOK /\ ProcessTypeOK
  BY DEF TypeOK
<1>1. CASE DeliverManagedService
  <2>1. Head(msWatch) \in ManagedServices /\ Tail(msWatch) \in Seq(ManagedServices)
    BY <1>1, <1>t DEF DeliverManagedService, ClusterTypeOK
  <2>2. ClusterTypeOK'
    BY <1>1, <1>t, <2>1 DEF DeliverManagedService, ClusterTypeOK, childVars
  <2>3. LocalTypeOK' /\ ProcessTypeOK'
    BY <1>1, <1>t DEF DeliverManagedService, LocalTypeOK, ProcessTypeOK,
                      localVars, metricsVars
  <2> QED
    BY <2>2, <2>3 DEF TypeOK
<1>2. ASSUME NEW k \in ChildKinds, DeliverChild(k)
      PROVE  TypeOK'
  <2>0. childWatch[k] \in Seq(Children) /\ childWatch[k] # <<>>
    BY <1>2, <1>t DEF DeliverChild, ClusterTypeOK
  <2>1. Head(childWatch[k]) \in Children /\ Tail(childWatch[k]) \in Seq(Children)
    BY <2>0
  <2>2. /\ childCache' \in [ChildKinds -> Children]
        /\ childWatch' \in [ChildKinds -> Seq(Children)]
    BY <1>2, <1>t, <2>1 DEF DeliverChild, ClusterTypeOK
  <2>3. ClusterTypeOK'
    BY <1>2, <1>t, <2>2 DEF DeliverChild, ClusterTypeOK, msVars
  <2>4. queued' \in BOOLEAN
    BY <1>2, Zenon DEF DeliverChild
  <2>5. UNCHANGED <<localVars, demoHTTPImage, metricsVars>>
    BY <1>2 DEF DeliverChild
  <2>6. LocalTypeOK' /\ ProcessTypeOK'
    BY <1>t, <2>4, <2>5 DEF LocalTypeOK, ProcessTypeOK, localVars, metricsVars
  <2> QED
    BY <2>3, <2>6 DEF TypeOK
<1> QED
  BY <1>1, <1>2 DEF Deliver

LEMMA RestartType ==
    ASSUME TypeOK, NEW image \in Images, Restart(image)
    PROVE  TypeOK'
<1>t. ClusterTypeOK /\ LocalTypeOK /\ ProcessTypeOK
  BY DEF TypeOK
<1>1. ClusterTypeOK'
  <2>1. scenario' \in ScenarioValues
    BY <1>t, DisruptType DEF Restart
  <2>2. msWatch' \in Seq(ManagedServices)
    BY DEF Restart
  <2>3. childWatch' \in [ChildKinds -> Seq(Children)]
    BY DEF Restart
  <2>4. current' \in [ChildKinds -> BOOLEAN]
    BY DEF Restart
  <2> QED
    BY <1>t, <2>1, <2>2, <2>3, <2>4 DEF Restart, ClusterTypeOK
<1>2. LocalTypeOK'
  <2>1. ResetLocals
    BY DEF Restart
  <2>2. queued' \in BOOLEAN
    BY Zenon DEF Restart
  <2>3. step' \in Steps /\ kind' \in ChildKinds /\ ready' \in Nat
    BY <2>1 DEF ResetLocals, Steps, ChildKinds
  <2>4. managedService' \in ManagedServices
    BY <2>1, EmptyTypes DEF ResetLocals
  <2>5. reason' \in FailureReasons \cup {""}
    BY <2>1 DEF ResetLocals
  <2> QED
    BY <2>2, <2>3, <2>4, <2>5 DEF LocalTypeOK
<1>3. ProcessTypeOK'
  BY EmptyTypes DEF Restart, ProcessTypeOK
<1> QED
  BY <1>1, <1>2, <1>3 DEF TypeOK

\* The steps of CreateOrUpdate.
LEMMA ChildStepType ==
    ASSUME TypeOK, NEW k \in ChildKinds,
           CreateOrUpdate(k) \/ CreateChild(k) \/ UpdateChild(k)
    PROVE  TypeOK'
<1>t. ClusterTypeOK /\ LocalTypeOK /\ ProcessTypeOK
  BY DEF TypeOK
<1>c. child[k] \in Children /\ childCache[k] \in Children
  BY <1>t DEF ClusterTypeOK
<1>r. child[k].ready \in Nat /\ childCache[k].ready \in Nat /\ 0 \in Nat
  BY <1>c DEF Children
<1>m. managedService \in ManagedServices /\ demoHTTPImage \in Images
  BY <1>t DEF LocalTypeOK, ProcessTypeOK
<1>p. ASSUME Fail(reasonFailed(k)) \/ \E r \in Nat : Proceed(k, r)
      PROVE  LocalTypeOK' /\ ProcessTypeOK'
  <2>1. LocalTypeOK'
    BY <1>p, <1>t, LocalTypes DEF Outcomes
  <2>2. ProcessTypeOK'
    BY <1>p, <1>t DEF Fail, Proceed, ProcessTypeOK, metricsVars
  <2> QED
    BY <2>1, <2>2
<1>s. ASSUME step' \in Steps,
             UNCHANGED <<queued, kind, managedService, ready, reason,
                         demoHTTPImage, metricsVars>>
      PROVE  LocalTypeOK' /\ ProcessTypeOK'
  BY <1>s, <1>t DEF LocalTypeOK, ProcessTypeOK, metricsVars
<1>1. CASE CreateOrUpdate(k)
  <2>1. current' \in [ChildKinds -> BOOLEAN]
    BY <1>1, <1>t DEF CreateOrUpdate, ClusterTypeOK
  <2>2. ClusterTypeOK'
    BY <1>1, <1>t, <2>1 DEF CreateOrUpdate, ClusterTypeOK, msVars
  <2>3. LocalTypeOK' /\ ProcessTypeOK'
    BY <1>1, <1>p, <1>s, <1>r DEF CreateOrUpdate, Steps
  <2> QED
    BY <2>2, <2>3 DEF TypeOK
<1>w. ASSUME NEW c \in Children, WriteChild(k, c), scenario' \in ScenarioValues,
             UNCHANGED <<msVars, childCache>>
      PROVE  ClusterTypeOK'
  BY <1>w, <1>t, WriteChildType DEF ClusterTypeOK, msVars
<1>n. ASSUME UNCHANGED <<child, childWatch>>, scenario' \in ScenarioValues,
             current' \in [ChildKinds -> BOOLEAN],
             UNCHANGED <<msVars, childCache>>
      PROVE  ClusterTypeOK'
  BY <1>n, <1>t DEF ClusterTypeOK, msVars
<1>b. scenario \in ScenarioValues /\ current \in [ChildKinds -> BOOLEAN]
  BY <1>t DEF ClusterTypeOK
<1>2. CASE CreateChild(k)
  <2> DEFINE new == mutate(k, managedService, demoHTTPImage,
                           [NoChild EXCEPT !.exists = TRUE])
  <2>1. new \in Children
    <3>1. [NoChild EXCEPT !.exists = TRUE] \in Children
      BY EmptyTypes DEF Children
    <3> QED
      BY <1>m, <3>1, MutateType
  <2> HIDE DEF new
  <2>2. /\ Fail(reasonFailed(k)) \/ Proceed(k, 0)
        /\ scenario' \in ScenarioValues
        /\ \/ WriteChild(k, new)
           \/ UNCHANGED <<child, childWatch, current>>
        /\ UNCHANGED <<msVars, childCache>>
    BY <1>2, <1>b, <1>t, DisruptType DEF CreateChild, new
  <2>3. ClusterTypeOK'
    BY <1>w, <1>n, <1>b, <2>1, <2>2
  <2> QED
    BY <1>p, <1>r, <2>2, <2>3 DEF TypeOK
<1>3. CASE UpdateChild(k)
  <2> DEFINE new == mutate(k, managedService, demoHTTPImage, child[k])
  <2>1. new \in Children
    BY <1>c, <1>m, MutateType
  <2> HIDE DEF new
  <2>2. /\ Fail(reasonFailed(k)) \/ Proceed(k, child[k].ready)
        /\ scenario' \in ScenarioValues
        /\ \/ WriteChild(k, new)
           \/ /\ UNCHANGED <<child, childWatch>>
              /\ current' = [current EXCEPT ![k] = FALSE]
        /\ UNCHANGED <<msVars, childCache>>
    BY <1>3, <1>b, <1>t, DisruptType DEF UpdateChild, new
  <2>3. [current EXCEPT ![k] = FALSE] \in [ChildKinds -> BOOLEAN]
    BY <1>b
  <2>4. ClusterTypeOK'
    BY <1>w, <1>n, <2>1, <2>2, <2>3
  <2> QED
    BY <1>p, <1>r, <2>2, <2>4 DEF TypeOK
<1> QED
  BY <1>1, <1>2, <1>3

LEMMA ReconcileType ==
    ASSUME TypeOK, Reconcile \/ ReconcileFailsToRead
    PROVE  TypeOK'
<1>t. ClusterTypeOK /\ LocalTypeOK /\ ProcessTypeOK
  BY DEF TypeOK
<1>m. msCache \in ManagedServices /\ scenario \in ScenarioValues
  BY <1>t DEF ClusterTypeOK
<1>1. scenario' \in ScenarioValues /\ UNCHANGED <<msVars, childVars>>
  BY <1>m, <1>t, DisruptType DEF Reconcile, ReconcileFailsToRead
<1>2. ClusterTypeOK'
  BY <1>1, <1>t DEF ClusterTypeOK, msVars, childVars
<1>3. ProcessTypeOK'
  BY <1>t, CountTypes
     DEF Reconcile, ReconcileFailsToRead, ProcessTypeOK, Outcomes
<1>4. CASE Reconcile
  <2>1. queued' = FALSE
    BY <1>4 DEF Reconcile
  <2>2. step' \in Steps /\ reason' \in FailureReasons \cup {""}
    BY <1>4, <1>t DEF Reconcile, LocalTypeOK, localVars, Steps, FailureReasons
  <2>3. /\ managedService' \in ManagedServices
        /\ kind' \in ChildKinds
        /\ ready' \in Nat
    BY <1>4, <1>t, <1>m DEF Reconcile, LocalTypeOK, localVars
  <2>4. LocalTypeOK'
    BY <2>1, <2>2, <2>3 DEF LocalTypeOK
  <2> QED
    BY <1>2, <1>3, <2>4 DEF TypeOK
<1>5. CASE ReconcileFailsToRead
  <2>1. LocalTypeOK'
    BY <1>5, <1>t DEF ReconcileFailsToRead, LocalTypeOK, localVars
  <2> QED
    BY <1>2, <1>3, <2>1 DEF TypeOK
<1> QED
  BY <1>4, <1>5

\* The two places that write the status: which status they write.
LEMMA StatusWriters ==
    ASSUME TypeOK, updateManagedServiceStatus \/ recordDegradedStatus
    PROVE  \E after \in {updatedStatus(managedService, ready),
                         degradedStatus(managedService, reason)},
              err \in BOOLEAN :
             /\ after \in StatusValues
             /\ patchManagedServiceStatus(after, err)
<1>1. updatedStatus(managedService, ready) \in StatusValues
  BY StatusTypes DEF TypeOK, LocalTypeOK
<1>2. degradedStatus(managedService, reason) \in StatusValues
  BY StatusTypes DEF TypeOK, LocalTypeOK
<1> QED
  BY <1>1, <1>2 DEF updateManagedServiceStatus, recordDegradedStatus

\* What a patch may do to the resource.
LEMMA PatchEffect ==
    ASSUME NEW after, NEW err, patchManagedServiceStatus(after, err)
    PROVE  \/ UNCHANGED <<ms, msWatch>>
           \/ /\ ms.exists
              /\ WriteManagedService(
                   [ms EXCEPT !.status = MergePatch(ms.status,
                                                    managedService.status,
                                                    after)])
  BY DEF patchManagedServiceStatus, ApplyStatusPatch

LEMMA StatusStepType ==
    ASSUME TypeOK, updateManagedServiceStatus \/ recordDegradedStatus
    PROVE  TypeOK'
<1>t. ClusterTypeOK /\ LocalTypeOK /\ ProcessTypeOK
  BY DEF TypeOK
<1>1. PICK after \in StatusValues, err \in BOOLEAN :
        patchManagedServiceStatus(after, err)
  BY StatusWriters
<1>2. /\ UNCHANGED <<msCache, childVars, demoHTTPImage>>
      /\ \E o \in Outcomes : Finish(o)
  BY DEF updateManagedServiceStatus, recordDegradedStatus, Outcomes
<1>3. scenario' \in ScenarioValues
  <2>1. scenario \in ScenarioValues
    BY <1>t DEF ClusterTypeOK
  <2> QED
    BY <1>1, <1>t, <2>1, DisruptType DEF patchManagedServiceStatus
<1>4. ms' \in ManagedServices /\ msWatch' \in Seq(ManagedServices)
  <2>1. /\ ms \in ManagedServices
        /\ ms.status \in StatusValues
        /\ managedService.status \in StatusValues
        /\ msWatch \in Seq(ManagedServices)
    BY <1>t DEF ClusterTypeOK, LocalTypeOK, ManagedServices
  <2> DEFINE merged == MergePatch(ms.status, managedService.status, after)
  <2>2. merged \in StatusValues
    BY <2>1, MergeTypes
  <2> HIDE DEF merged
  <2>3. [ms EXCEPT !.status = merged] \in ManagedServices
    BY <2>1, <2>2 DEF ManagedServices
  <2>4. \/ UNCHANGED <<ms, msWatch>>
        \/ WriteManagedService([ms EXCEPT !.status = merged])
    BY <1>1, PatchEffect DEF merged
  <2> QED
    BY <1>t, <2>1, <2>3, <2>4, WriteManagedServiceType
<1>5. ClusterTypeOK'
  BY <1>2, <1>3, <1>4, <1>t DEF ClusterTypeOK, childVars
<1>6. LocalTypeOK'
  <2>1. "Deployment" \in ChildKinds /\ 0 \in Nat
    BY DEF ChildKinds
  <2> QED
    BY <1>2, <1>t, <2>1, LocalTypes
<1>7. ProcessTypeOK'
  <2>1. reconciliations' \in [Outcomes -> Nat]
    BY <1>2, <1>t, CountTypes DEF Finish
  <2>2. conditionTransitions' \in [ConditionTypes \X ConditionStatuses -> Nat]
    BY <1>1, <1>t, CountTypes DEF patchManagedServiceStatus, ProcessTypeOK
  <2> QED
    BY <1>2, <1>t, <2>1, <2>2 DEF ProcessTypeOK
<1> QED
  BY <1>5, <1>6, <1>7 DEF TypeOK

\* Every variable of the operator and of the cluster keeps its type in every
\* execution of Reconcile, whatever fails, restarts or interferes.
THEOREM TypeCorrect == Safety => []TypeOK
<1>1. Init => TypeOK
  <2> SUFFICES ASSUME Init PROVE TypeOK
    OBVIOUS
  <2>1. ClusterTypeOK
    <3>1. NoManagedService(0) \in ManagedServices /\ NoChild \in Children
      BY EmptyTypes
    <3>0. <<>> \in Seq(ManagedServices) /\ <<>> \in Seq(Children)
      OBVIOUS
    <3>i. ClusterInit
      BY DEF Init
    <3>2. ms \in ManagedServices /\ msCache \in ManagedServices
      BY <3>1, <3>i DEF ClusterInit
    <3>3. child \in [ChildKinds -> Children]
      BY <3>1, <3>i DEF ClusterInit
    <3>5. childCache \in [ChildKinds -> Children]
      BY <3>1, <3>i DEF ClusterInit
    <3>6. msWatch \in Seq(ManagedServices)
      BY <3>0, <3>i DEF ClusterInit
    <3>7. childWatch \in [ChildKinds -> Seq(Children)]
      BY <3>0, <3>i DEF ClusterInit
    <3>4. current \in [ChildKinds -> BOOLEAN] /\ scenario \in ScenarioValues
      BY ClusterAssumption DEF Init, ClusterInit
    <3> QED
      BY <3>2, <3>3, <3>4, <3>5, <3>6, <3>7 DEF ClusterTypeOK
  <2>2. LocalTypeOK
    BY EmptyTypes DEF Init, OperatorInit, LocalTypeOK, Steps, ChildKinds
  <2>3. ProcessTypeOK
    BY EmptyTypes DEF Init, OperatorInit, ProcessTypeOK
  <2> QED
    BY <2>1, <2>2, <2>3 DEF TypeOK
<1>2. TypeOK /\ [Next]_vars => TypeOK'
  <2> SUFFICES ASSUME TypeOK, [Next]_vars PROVE TypeOK'
    OBVIOUS
  <2>1. CASE Work
    BY <2>1, ReconcileType, ChildStepType, StatusStepType DEF Work
  <2>2. CASE Deliver
    BY <2>2, DeliverType
  <2>3. ASSUME NEW image \in Images, Restart(image) PROVE TypeOK'
    BY <2>3, RestartType
  <2>4. CASE Environment
    BY <2>4, EnvironmentType
  <2>5. CASE UNCHANGED vars
    BY <2>5 DEF vars, clusterVars, msVars, childVars, operatorVars, localVars,
                metricsVars, TypeOK, ClusterTypeOK,
                LocalTypeOK, ProcessTypeOK
  <2> QED
    BY <2>1, <2>2, <2>3, <2>4, <2>5 DEF Next
<1> QED
  BY <1>1, <1>2, PTL DEF Safety

-----------------------------------------------------------------------------
(* Owners.  UIDs only grow along the way a ManagedService takes from the   *)
(* server through the watch and the cache to the reconciler, and no child  *)
(* is owned by a UID the reconciler has not got to yet.                    *)

WatchInOrder ==
    /\ msCache.uid <= ms.uid
    /\ \A i \in 1..Len(msWatch) :
         msCache.uid <= msWatch[i].uid /\ msWatch[i].uid <= ms.uid
    /\ \A i, j \in 1..Len(msWatch) :
         i <= j => msWatch[i].uid <= msWatch[j].uid

OwnersInOrder ==
    /\ managedService.uid <= msCache.uid
    /\ \A k \in ChildKinds : child[k].owner <= msCache.uid
    /\ step # "idle" =>
         \A k \in ChildKinds : child[k].owner <= managedService.uid

LEMMA WriteInOrder ==
    ASSUME ClusterTypeOK, WatchInOrder, NEW m \in ManagedServices,
           WriteManagedService(m), m.uid >= ms.uid, UNCHANGED msCache
    PROVE  WatchInOrder'
<1>1. /\ ms \in ManagedServices
      /\ msCache \in ManagedServices
      /\ msWatch \in Seq(ManagedServices)
  BY DEF ClusterTypeOK
<1>2. /\ ms.uid \in Nat
      /\ msCache.uid \in Nat
      /\ m.uid \in Nat
      /\ \A i \in 1..Len(msWatch) : msWatch[i].uid \in Nat
  <2>1. \A i \in 1..Len(msWatch) : msWatch[i] \in ManagedServices
    BY <1>1
  <2>2. \A x \in ManagedServices : x.uid \in Nat
    BY DEF ManagedServices
  <2> QED
    BY <1>1, <2>1, <2>2
<1>3. /\ ms' = m
      /\ msWatch' = Append(msWatch, m)
      /\ msCache' = msCache
  BY DEF WriteManagedService
<1>4. /\ Len(msWatch') = Len(msWatch) + 1
      /\ Len(msWatch) \in Nat
      /\ msWatch'[Len(msWatch) + 1] = m
      /\ \A i \in 1..Len(msWatch) : msWatch'[i] = msWatch[i]
  BY <1>1, <1>3
<1>5. \A i \in 1..Len(msWatch') : i \in 1..Len(msWatch) \/ i = Len(msWatch) + 1
  BY <1>4
<1>6. msCache'.uid <= ms'.uid
  BY <1>2, <1>3 DEF WatchInOrder
<1>7. \A i \in 1..Len(msWatch') :
        msCache'.uid <= msWatch'[i].uid /\ msWatch'[i].uid <= ms'.uid
  BY <1>2, <1>3, <1>4, <1>5, <1>6 DEF WatchInOrder
<1>8. \A i, j \in 1..Len(msWatch') :
        i <= j => msWatch'[i].uid <= msWatch'[j].uid
  BY <1>2, <1>3, <1>4, <1>5, <1>7 DEF WatchInOrder
<1> QED
  BY <1>6, <1>7, <1>8 DEF WatchInOrder

LEMMA DeliverInOrder ==
    ASSUME ClusterTypeOK, WatchInOrder, DeliverManagedService
    PROVE  WatchInOrder' /\ msCache.uid <= msCache'.uid
<1>1. /\ msWatch \in Seq(ManagedServices)
      /\ msWatch # <<>>
      /\ ms' = ms
      /\ msCache' = Head(msWatch)
      /\ msWatch' = Tail(msWatch)
  BY DEF ClusterTypeOK, DeliverManagedService
<1>2. /\ Len(msWatch) \in Nat \ {0}
      /\ msCache' = msWatch[1]
      /\ Len(msWatch') = Len(msWatch) - 1
      /\ \A i \in 1..Len(msWatch') : msWatch'[i] = msWatch[i + 1]
  BY <1>1
<1>3. 1 \in 1..Len(msWatch) /\ \A i \in 1..Len(msWatch') : i + 1 \in 1..Len(msWatch)
  BY <1>2
<1>4. msCache.uid <= msCache'.uid /\ msCache'.uid <= ms'.uid
  BY <1>1, <1>2, <1>3 DEF WatchInOrder
<1>5. ASSUME NEW i \in 1..Len(msWatch')
      PROVE  msCache'.uid <= msWatch'[i].uid /\ msWatch'[i].uid <= ms'.uid
  <2>1. i + 1 \in 1..Len(msWatch) /\ 1 <= i + 1 /\ msWatch'[i] = msWatch[i + 1]
    BY <1>2, <1>3
  <2> QED
    BY <1>1, <1>2, <1>3, <2>1 DEF WatchInOrder
<1>6. ASSUME NEW i \in 1..Len(msWatch'), NEW j \in 1..Len(msWatch'), i <= j
      PROVE  msWatch'[i].uid <= msWatch'[j].uid
  <2>1. /\ i + 1 \in 1..Len(msWatch) /\ j + 1 \in 1..Len(msWatch)
        /\ i + 1 <= j + 1
        /\ msWatch'[i] = msWatch[i + 1] /\ msWatch'[j] = msWatch[j + 1]
    BY <1>2, <1>3, <1>6
  <2> QED
    BY <2>1 DEF WatchInOrder
<1> QED
  BY <1>4, <1>5, <1>6 DEF WatchInOrder

\* The steps of the worker, by what they do to the server's objects.
LEMMA ChildStepEffect ==
    ASSUME NEW k \in ChildKinds, CreateChild(k) \/ UpdateChild(k)
    PROVE  /\ step \in {"create", "update"}
           /\ kind = k
           /\ step' # "idle"
           /\ managedService' = managedService
           /\ UNCHANGED <<msVars, childCache>>
           /\ \/ UNCHANGED <<child, childWatch>>
              \/ \E c :
                   /\ WriteChild(k, mutate(k, managedService, demoHTTPImage, c))
                   /\ \/ ~child[k].exists /\ c = [NoChild EXCEPT !.exists = TRUE]
                      \/ step = "update" /\ current[k] /\ c = child[k]
  BY DEF CreateChild, UpdateChild, AcceptsCreate, AcceptsUpdate, Fail, Proceed,
         reasonFailed

LEMMA OwnersInductive ==
    ASSUME TypeOK, WatchInOrder, OwnersInOrder, [Next]_vars
    PROVE  WatchInOrder' /\ OwnersInOrder'
<1>t. ClusterTypeOK /\ LocalTypeOK
  BY DEF TypeOK
<1>n. /\ ms \in ManagedServices /\ ms.uid \in Nat
      /\ msCache \in ManagedServices /\ msCache.uid \in Nat
      /\ managedService.uid \in Nat
      /\ \A k \in ChildKinds : child[k] \in Children /\ child[k].owner \in Nat
  BY <1>t DEF ClusterTypeOK, LocalTypeOK, ManagedServices, Children
<1>w. ASSUME UNCHANGED <<ms, msWatch, msCache>> PROVE WatchInOrder'
  BY <1>w DEF WatchInOrder
<1>1. CASE Reconcile \/ ReconcileFailsToRead
  <2>1. /\ UNCHANGED <<msVars, childVars>>
        /\ \/ managedService' = msCache
           \/ managedService' = managedService /\ step' = step
    BY <1>1 DEF Reconcile, ReconcileFailsToRead, localVars
  <2>2. OwnersInOrder'
    BY <1>n, <2>1 DEF OwnersInOrder, msVars, childVars
  <2> QED
    BY <1>w, <2>1, <2>2 DEF msVars
<1>2. ASSUME NEW k \in ChildKinds, CreateOrUpdate(k)
      PROVE  WatchInOrder' /\ OwnersInOrder'
  <2>1. step # "idle" /\ UNCHANGED <<msVars, child, managedService>>
    BY <1>2 DEF CreateOrUpdate, Fail, Proceed
  <2> QED
    BY <1>w, <2>1 DEF OwnersInOrder, msVars
<1>3. ASSUME NEW k \in ChildKinds, CreateChild(k) \/ UpdateChild(k)
      PROVE  WatchInOrder' /\ OwnersInOrder'
  <2>1. /\ step # "idle"
        /\ UNCHANGED <<msVars, managedService>>
        /\ \/ UNCHANGED child
           \/ \E c : WriteChild(k, mutate(k, managedService, demoHTTPImage, c))
                     /\ c \in Children
    <3>1. [NoChild EXCEPT !.exists = TRUE] \in Children
      BY EmptyTypes DEF Children
    <3> QED
      BY <1>3, <1>n, <3>1, ChildStepEffect
  <2>2. \A c \in Children :
          mutate(k, managedService, demoHTTPImage, c).owner = managedService.uid
    BY DEF mutate, Children
  <2>3. \A j \in ChildKinds :
          child'[j] = child[j] \/ child'[j].owner = managedService.uid
    BY <1>t, <2>1, <2>2 DEF WriteChild, ClusterTypeOK
  <2>4. OwnersInOrder'
    BY <1>n, <2>1, <2>3 DEF OwnersInOrder, msVars
  <2> QED
    BY <1>w, <2>1, <2>4 DEF msVars
<1>4. CASE updateManagedServiceStatus \/ recordDegradedStatus
  <2>1. /\ UNCHANGED <<msCache, childVars>>
        /\ step' = "idle"
        /\ managedService' = NoManagedService(0)
    BY <1>4 DEF updateManagedServiceStatus, recordDegradedStatus, Finish,
                ResetLocals
  <2>2. OwnersInOrder'
    BY <1>n, <2>1 DEF OwnersInOrder, NoManagedService, childVars
  <2>3. PICK after \in StatusValues, err \in BOOLEAN :
          patchManagedServiceStatus(after, err)
    BY <1>4, StatusWriters
  <2> DEFINE m == [ms EXCEPT !.status = MergePatch(ms.status,
                                                   managedService.status,
                                                   after)]
  <2>4. m \in ManagedServices /\ m.uid = ms.uid
    <3>1. ms.status \in StatusValues /\ managedService.status \in StatusValues
      BY <1>n, <1>t DEF ManagedServices, LocalTypeOK
    <3>2. MergePatch(ms.status, managedService.status, after) \in StatusValues
      BY <3>1, MergeTypes
    <3> QED
      BY <1>n, <3>2 DEF ManagedServices
  <2>5. UNCHANGED <<ms, msWatch>> \/ WriteManagedService(m)
    BY <2>3, PatchEffect
  <2> HIDE DEF m
  <2>6. WatchInOrder'
    BY <1>n, <1>t, <1>w, <2>1, <2>4, <2>5, WriteInOrder
  <2> QED
    BY <2>2, <2>6
<1>5. CASE DeliverManagedService
  <2>1. /\ WatchInOrder'
        /\ msCache.uid <= msCache'.uid
        /\ UNCHANGED <<childVars, localVars>>
    BY <1>5, <1>t, DeliverInOrder DEF DeliverManagedService
  <2>2. msCache'.uid \in Nat
    BY DeliverType, <1>5 DEF Deliver, TypeOK, ClusterTypeOK, ManagedServices
  <2>3. OwnersInOrder'
    BY <1>n, <2>1, <2>2 DEF OwnersInOrder, childVars, localVars
  <2> QED
    BY <2>1, <2>3
<1>6. ASSUME NEW k \in ChildKinds, DeliverChild(k)
      PROVE  WatchInOrder' /\ OwnersInOrder'
  <2>1. UNCHANGED <<msVars, child, localVars>>
    BY <1>6 DEF DeliverChild
  <2> QED
    BY <1>w, <2>1 DEF OwnersInOrder, msVars, localVars
<1>7. ASSUME NEW image \in Images, Restart(image)
      PROVE  WatchInOrder' /\ OwnersInOrder'
  <2>1. /\ ms' = ms /\ msCache' = ms /\ msWatch' = <<>> /\ child' = child
        /\ step' = "idle" /\ managedService' = NoManagedService(0)
    BY <1>7 DEF Restart, ResetLocals
  <2>2. WatchInOrder'
    BY <1>n, <2>1 DEF WatchInOrder
  <2>3. OwnersInOrder'
    BY <1>n, <2>1 DEF OwnersInOrder, WatchInOrder, NoManagedService
  <2> QED
    BY <2>2, <2>3
<1>8. CASE Environment
  <2>1. UNCHANGED <<operatorVars, msCache>>
    BY <1>8, EnvironmentEffect
  <2>2. CASE /\ UNCHANGED <<child, childWatch, current>>
             /\ \E m \in ManagedServices :
                  WriteManagedService(m) /\ m.uid >= ms.uid
    <3>1. WatchInOrder'
      BY <1>t, <2>1, <2>2, WriteInOrder
    <3>2. OwnersInOrder'
      BY <2>1, <2>2 DEF OwnersInOrder, operatorVars, localVars, metricsVars
    <3> QED
      BY <3>1, <3>2
  <2>3. CASE /\ UNCHANGED <<ms, msWatch>>
             /\ \E k \in ChildKinds, c \in Children :
                  WriteChild(k, c) /\ c.owner \in {0, child[k].owner}
    <3>1. \A j \in ChildKinds : child'[j].owner \in {0, child[j].owner}
      BY <1>t, <2>3 DEF WriteChild, ClusterTypeOK
    <3>2. OwnersInOrder'
      BY <1>n, <2>1, <3>1 DEF OwnersInOrder, operatorVars, localVars,
                              metricsVars
    <3> QED
      BY <1>w, <2>1, <2>3, <3>2
  <2> QED
    BY <1>8, <2>2, <2>3, EnvironmentEffect
<1>9. CASE UNCHANGED vars
  BY <1>9 DEF vars, clusterVars, msVars, childVars, operatorVars, localVars,
              metricsVars, WatchInOrder, OwnersInOrder
<1> QED
  BY <1>1, <1>2, <1>3, <1>4, <1>5, <1>6, <1>7, <1>8, <1>9
     DEF Next, Work, Deliver

LEMMA OwnersInvariant == Safety => [](WatchInOrder /\ OwnersInOrder)
<1>1. Init => WatchInOrder /\ OwnersInOrder
  <2> SUFFICES ASSUME Init PROVE WatchInOrder /\ OwnersInOrder
    OBVIOUS
  <2>1. /\ ms.uid = 0 /\ msCache.uid = 0 /\ managedService.uid = 0
        /\ msWatch = <<>>
        /\ step = "idle"
    BY DEF Init, ClusterInit, OperatorInit, NoManagedService
  <2>2. \A k \in ChildKinds : child[k].owner = 0
    BY DEF Init, ClusterInit, NoChild
  <2>3. WatchInOrder
    BY <2>1 DEF WatchInOrder
  <2>4. OwnersInOrder
    BY <2>1, <2>2 DEF OwnersInOrder
  <2> QED
    BY <2>3, <2>4
<1> QED
  BY <1>1, OwnersInductive, TypeCorrect, PTL DEF Safety

\* Whatever the reconciler's copy is stale by, SetControllerReference never
\* hands a child back to an older incarnation of the ManagedService.
THEOREM OwnerNeverGoesBack == Safety => OwnerNeverRegresses
<1> DEFINE Kept == \A k \in ChildKinds :
                     (Owned(child[k]) /\ Owned(child'[k]))
                     => child'[k].owner >= child[k].owner
<1>1. ASSUME TypeOK, OwnersInOrder, [Next]_vars PROVE Kept
  <2>t. ClusterTypeOK /\ LocalTypeOK
    BY <1>1 DEF TypeOK
  <2>n. /\ managedService.uid \in Nat
        /\ \A k \in ChildKinds : child[k] \in Children /\ child[k].owner \in Nat
    BY <2>t DEF ClusterTypeOK, LocalTypeOK, ManagedServices, Children
  <2>u. ASSUME child' = child PROVE Kept
    BY <2>u, <2>n
  <2>1. CASE Reconcile \/ ReconcileFailsToRead \/ updateManagedServiceStatus
             \/ recordDegradedStatus \/ DeliverManagedService
    BY <2>1, <2>u DEF Reconcile, ReconcileFailsToRead, recordDegradedStatus,
                      updateManagedServiceStatus, DeliverManagedService,
                      childVars
  <2>2. ASSUME NEW k \in ChildKinds, CreateOrUpdate(k) \/ DeliverChild(k)
        PROVE  Kept
    BY <2>2, <2>u DEF CreateOrUpdate, DeliverChild
  <2>3. ASSUME NEW k \in ChildKinds, CreateChild(k) \/ UpdateChild(k)
        PROVE  Kept
    <3>1. [NoChild EXCEPT !.exists = TRUE] \in Children
      BY EmptyTypes DEF Children
    <3>2. /\ step # "idle"
          /\ \/ UNCHANGED child
             \/ \E c \in Children :
                  WriteChild(k, mutate(k, managedService, demoHTTPImage, c))
      BY <2>3, <2>n, <3>1, ChildStepEffect
    <3>3. \A c \in Children :
            mutate(k, managedService, demoHTTPImage, c).owner
              = managedService.uid
      BY DEF mutate, Children
    <3>4. \A j \in ChildKinds :
            child'[j] = child[j] \/ child'[j].owner = managedService.uid
      BY <2>t, <3>2, <3>3 DEF WriteChild, ClusterTypeOK
    <3> QED
      BY <1>1, <2>n, <3>2, <3>4 DEF OwnersInOrder
  <2>4. ASSUME NEW image \in Images, Restart(image) PROVE Kept
    BY <2>4, <2>u DEF Restart
  <2>5. CASE Environment
    <3>0. ClusterNext
      BY <2>5 DEF Environment
    <3>w. ASSUME NEW k \in ChildKinds, NEW c, WriteChild(k, c),
                 ~Owned(child[k]) \/ ~Owned(c) \/ c.owner = child[k].owner
          PROVE  Kept
      <4>1. \A j \in ChildKinds : child'[j] = IF j = k THEN c ELSE child[j]
        BY <2>t, <3>w DEF WriteChild, ClusterTypeOK
      <4> QED
        BY <2>n, <3>w, <4>1
    <3>1. ASSUME NEW spec \in SpecValues,
                 ClientCreates(spec) \/ ClientUpdates(spec)
          PROVE  Kept
      BY <2>u, <3>1 DEF ClientCreates, ClientUpdates, childVars
    <3>2. CASE ClientDeletes \/ ClientDeletesInForeground \/ DeletionEnds
      BY <2>u, <3>2
      DEF ClientDeletes, ClientDeletesInForeground, DeletionEnds, childVars
    <3>3. ASSUME NEW k \in ChildKinds, ChildDrifts(k) PROVE Kept
      BY <2>n, <3>3, <3>w DEF ChildDrifts, Children
    <3>4. ASSUME NEW k \in ChildKinds, OwnerIsStripped(k) PROVE Kept
      <4>1. ~Owned([child[k] EXCEPT !.controller = "none", !.owner = 0])
        BY <2>n DEF Owned, Children
      <4> QED
        BY <3>4, <3>w, <4>1 DEF OwnerIsStripped
    <3>5. ASSUME NEW k \in ChildKinds, ChildIsRemoved(k) \/ GarbageCollect(k)
          PROVE  Kept
      <4>1. ~Owned(NoChild)
        BY DEF Owned, NoChild
      <4> QED
        BY <3>5, <3>w, <4>1 DEF ChildIsRemoved, GarbageCollect
    <3>6. ASSUME NEW k \in ChildKinds, NEW controller, NEW selector,
                 NameIsOccupied(k, controller, selector)
          PROVE  Kept
      <4>1. ~Owned(child[k])
        BY <3>6 DEF NameIsOccupied, Owned
      <4> QED
        BY <3>6, <3>w, <4>1 DEF NameIsOccupied
    <3>7. CASE PodsBecomeUnready \/ Rollout
      <4>1. "Deployment" \in ChildKinds
        BY DEF ChildKinds
      <4> QED
        BY <2>n, <3>7, <3>w, <4>1 DEF PodsBecomeUnready, Rollout, Children
    <3> QED
      BY <3>0, <3>1, <3>2, <3>3, <3>4, <3>5, <3>6, <3>7 DEF ClusterNext
  <2>6. CASE UNCHANGED vars
    BY <2>6, <2>u DEF vars, clusterVars, msVars, childVars
  <2> QED
    BY <1>1, <2>1, <2>2, <2>3, <2>4, <2>5, <2>6 DEF Next, Work, Deliver
<1> QED
  BY <1>1, TypeCorrect, OwnersInvariant, PTL DEF Safety, OwnerNeverRegresses

-----------------------------------------------------------------------------
(* Foreign children.  The cache is the live child when nothing is under    *)
(* way to it, so an update that the server accepts was decided on the live *)
(* child.                                                                  *)

ChildCacheInOrder ==
    \A k \in ChildKinds :
      IF childWatch[k] = <<>>
      THEN childCache[k] = child[k]
      ELSE childWatch[k][Len(childWatch[k])] = child[k]

UpdatesItsOwn ==
    (step = "update" /\ current[kind]) => ~AlreadyOwned(child[kind])

LEMMA ChildWriteInOrder ==
    ASSUME ClusterTypeOK, ChildCacheInOrder, NEW k \in ChildKinds, NEW c,
           WriteChild(k, c), UNCHANGED childCache
    PROVE  ChildCacheInOrder'
<1>1. childWatch[k] \in Seq(Children)
  BY DEF ClusterTypeOK
<1>2. /\ Append(childWatch[k], c) # <<>>
      /\ Append(childWatch[k], c)[Len(Append(childWatch[k], c))] = c
  BY <1>1
<1>3. /\ child'[k] = c
      /\ childWatch'[k] = Append(childWatch[k], c)
      /\ \A j \in ChildKinds \ {k} :
           child'[j] = child[j] /\ childWatch'[j] = childWatch[j]
  BY DEF WriteChild, ClusterTypeOK
<1> QED
  BY <1>2, <1>3 DEF ChildCacheInOrder

LEMMA ChildDeliverInOrder ==
    ASSUME ClusterTypeOK, ChildCacheInOrder, NEW k \in ChildKinds,
           DeliverChild(k)
    PROVE  ChildCacheInOrder'
<1>1. /\ childWatch[k] \in Seq(Children)
      /\ childWatch[k] # <<>>
      /\ child' = child
      /\ childCache'[k] = Head(childWatch[k])
      /\ childWatch'[k] = Tail(childWatch[k])
      /\ \A j \in ChildKinds \ {k} :
           childCache'[j] = childCache[j] /\ childWatch'[j] = childWatch[j]
  BY DEF DeliverChild, ClusterTypeOK
<1>2. childWatch[k][Len(childWatch[k])] = child[k]
  BY <1>1 DEF ChildCacheInOrder
<1>3. CASE Tail(childWatch[k]) = <<>>
  <2>1. Len(Tail(childWatch[k])) = Len(childWatch[k]) - 1
    BY <1>1
  <2>2. Len(Tail(childWatch[k])) = 0
    <3>1. Len(<<>>) = 0
      OBVIOUS
    <3> QED
      BY <1>3, <3>1, Zenon
  <2>3. Len(childWatch[k]) = 1
    <3>1. Len(childWatch[k]) \in Nat
      BY <1>1
    <3> QED
      BY <2>1, <2>2, <3>1
  <2>4. Head(childWatch[k]) = childWatch[k][Len(childWatch[k])]
    BY <1>1, <2>3
  <2> QED
    BY <1>1, <1>2, <1>3, <2>4 DEF ChildCacheInOrder
<1>4. CASE Tail(childWatch[k]) # <<>>
  <2>1. Tail(childWatch[k])[Len(Tail(childWatch[k]))]
          = childWatch[k][Len(childWatch[k])]
    BY <1>1, <1>4
  <2> QED
    BY <1>1, <1>2, <1>4, <2>1 DEF ChildCacheInOrder
<1> QED
  BY <1>3, <1>4

LEMMA ForeignInductive ==
    ASSUME TypeOK, ChildCacheInOrder, UpdatesItsOwn, [Next]_vars
    PROVE  ChildCacheInOrder' /\ UpdatesItsOwn'
<1>t. ClusterTypeOK /\ LocalTypeOK
  BY DEF TypeOK
<1>u. ASSUME UNCHANGED <<child, childWatch, childCache>>
      PROVE  ChildCacheInOrder'
  BY <1>u DEF ChildCacheInOrder
<1>n. ASSUME step' # "update" PROVE UpdatesItsOwn'
  BY <1>n DEF UpdatesItsOwn
<1>1. CASE Reconcile \/ updateManagedServiceStatus \/ recordDegradedStatus
  <2>1. UNCHANGED childVars
    BY <1>1 DEF Reconcile, updateManagedServiceStatus, recordDegradedStatus
  <2>2. step' # "update"
    BY <1>1 DEF Reconcile, updateManagedServiceStatus, recordDegradedStatus,
                Finish, ResetLocals, localVars
  <2> QED
    BY <1>u, <1>n, <2>1, <2>2 DEF childVars
<1>2. CASE ReconcileFailsToRead \/ DeliverManagedService
  <2>1. UNCHANGED <<childVars, localVars>>
    BY <1>2 DEF ReconcileFailsToRead, DeliverManagedService
  <2> QED
    BY <1>u, <2>1 DEF UpdatesItsOwn, childVars, localVars
<1>3. ASSUME NEW k \in ChildKinds, CreateOrUpdate(k)
      PROVE  ChildCacheInOrder' /\ UpdatesItsOwn'
  <2>1. UNCHANGED <<child, childWatch, childCache>>
    BY <1>3 DEF CreateOrUpdate
  <2>2. CASE step' # "update"
    BY <1>u, <1>n, <2>1, <2>2
  <2>3. CASE step' = "update"
    <3>1. /\ kind' = k
          /\ ~AlreadyOwned(childCache[k])
          /\ current'[k] = (childWatch[k] = <<>>)
      BY <1>3, <1>t, <2>3 DEF CreateOrUpdate, Fail, Proceed, ClusterTypeOK
    <3>2. UpdatesItsOwn'
      BY <2>1, <3>1 DEF UpdatesItsOwn, ChildCacheInOrder
    <3> QED
      BY <1>u, <2>1, <3>2
  <2> QED
    BY <2>2, <2>3
<1>4. ASSUME NEW k \in ChildKinds, CreateChild(k) \/ UpdateChild(k)
      PROVE  ChildCacheInOrder' /\ UpdatesItsOwn'
  <2>1. step' # "update"
    BY <1>4 DEF CreateChild, UpdateChild, Fail, Proceed
  <2>2. ChildCacheInOrder'
    BY <1>4, <1>t, <1>u, ChildStepEffect, ChildWriteInOrder
  <2> QED
    BY <1>n, <2>1, <2>2
<1>5. ASSUME NEW k \in ChildKinds, DeliverChild(k)
      PROVE  ChildCacheInOrder' /\ UpdatesItsOwn'
  <2>1. UNCHANGED <<child, current, localVars>>
    BY <1>5 DEF DeliverChild
  <2> QED
    BY <1>5, <1>t, <2>1, ChildDeliverInOrder DEF UpdatesItsOwn, localVars
<1>6. ASSUME NEW image \in Images, Restart(image)
      PROVE  ChildCacheInOrder' /\ UpdatesItsOwn'
  <2>1. step' = "idle" /\ child' = child /\ childCache' = child
        /\ childWatch' = [k \in ChildKinds |-> <<>>]
    BY <1>6 DEF Restart, ResetLocals
  <2> QED
    BY <1>n, <2>1 DEF ChildCacheInOrder
<1>7. CASE Environment
  <2>1. UNCHANGED <<step, kind, childCache>>
    BY <1>7, EnvironmentEffect DEF operatorVars, localVars, metricsVars
  <2>2. CASE UNCHANGED <<child, childWatch, current>>
    BY <1>u, <2>1, <2>2 DEF UpdatesItsOwn
  <2>3. ASSUME NEW k \in ChildKinds, NEW c \in Children, WriteChild(k, c)
        PROVE  ChildCacheInOrder' /\ UpdatesItsOwn'
    <3>0. /\ current \in [ChildKinds -> BOOLEAN]
          /\ current' = [current EXCEPT ![k] = FALSE]
          /\ child \in [ChildKinds -> Children]
          /\ child' = [child EXCEPT ![k] = c]
      BY <1>t, <2>3 DEF WriteChild, ClusterTypeOK
    <3>1. /\ ~current'[k]
          /\ \A j \in ChildKinds \ {k} :
               child'[j] = child[j] /\ current'[j] = current[j]
      BY <3>0
    <3>2. UpdatesItsOwn'
      BY <1>t, <2>1, <3>1 DEF UpdatesItsOwn, LocalTypeOK
    <3> QED
      BY <1>t, <2>1, <2>3, <3>2, ChildWriteInOrder
  <2> QED
    BY <1>7, <2>2, <2>3, EnvironmentEffect
<1>8. CASE UNCHANGED vars
  BY <1>8 DEF vars, clusterVars, msVars, childVars, operatorVars, localVars,
              metricsVars, ChildCacheInOrder, UpdatesItsOwn
<1> QED
  BY <1>1, <1>2, <1>3, <1>4, <1>5, <1>6, <1>7, <1>8
     DEF Next, Work, Deliver

LEMMA ForeignInvariant == Safety => [](ChildCacheInOrder /\ UpdatesItsOwn)
<1>1. Init => ChildCacheInOrder /\ UpdatesItsOwn
  BY DEF Init, ClusterInit, OperatorInit, ChildCacheInOrder, UpdatesItsOwn
<1> QED
  BY <1>1, ForeignInductive, TypeCorrect, PTL DEF Safety

\* An object that another controller owns is out of the operator's reach,
\* even when it took the name after the operator read its cache: what guards
\* it is SetControllerReference together with the resourceVersion of the
\* update.
THEOREM ForeignChildrenSafe == Safety => ForeignChildUntouched
<1> DEFINE Untouched == \A k \in ChildKinds :
                          (/\ child[k].exists
                           /\ child[k].controller = "other"
                           /\ child'[k] # child[k])
                          => UNCHANGED <<step, kind>>
<1>1. ASSUME TypeOK, UpdatesItsOwn, [Next]_vars PROVE Untouched
  <2>t. ClusterTypeOK
    BY <1>1 DEF TypeOK
  <2>1. CASE \/ Reconcile
             \/ ReconcileFailsToRead
             \/ updateManagedServiceStatus
             \/ recordDegradedStatus
             \/ DeliverManagedService
             \/ \E k \in ChildKinds : CreateOrUpdate(k) \/ DeliverChild(k)
             \/ \E image \in Images : Restart(image)
             \/ UNCHANGED vars
    <3>1. child' = child
      BY <2>1 DEF Reconcile, ReconcileFailsToRead, updateManagedServiceStatus,
                  recordDegradedStatus, DeliverManagedService, CreateOrUpdate,
                  DeliverChild, Restart, childVars, vars, clusterVars, msVars
    <3> QED
      BY <3>1
  <2>2. ASSUME NEW k \in ChildKinds, CreateChild(k) \/ UpdateChild(k)
        PROVE  Untouched
    <3>1. \A j \in ChildKinds \ {k} : child'[j] = child[j]
      BY <2>2, <2>t, ChildStepEffect DEF WriteChild, ClusterTypeOK
    <3>2. \/ child' = child
          \/ ~child[k].exists
          \/ step = "update" /\ kind = k /\ current[k]
      BY <2>2, ChildStepEffect
    <3>3. (step = "update" /\ kind = k /\ current[k])
            => child[k].controller # "other"
      BY <1>1 DEF UpdatesItsOwn, AlreadyOwned
    <3> QED
      BY <3>1, <3>2, <3>3
  <2>3. CASE Environment
    BY <2>3 DEF Environment, operatorVars, localVars, metricsVars
  <2> QED
    BY <1>1, <2>1, <2>2, <2>3 DEF Next, Work, Deliver
<1> QED
  BY <1>1, TypeCorrect, ForeignInvariant, PTL DEF Safety, ForeignChildUntouched

-----------------------------------------------------------------------------
(* Conditions.                                                             *)

\* Conditions that one write of the operator could have left.
Coherent(c) ==
    \/ \A t \in ConditionTypes : c[t] = NoCondition
    \/ /\ \A t \in ConditionTypes :
            c[t].observedGeneration = c["Available"].observedGeneration
       /\ \E t \in ConditionTypes :
            /\ c[t].status = "True"
            /\ \A u \in ConditionTypes \ {t} : c[u].status = "False"

LEMMA WrittenConditionsCoherent ==
    ASSUME NEW m, NEW r, NEW why
    PROVE  /\ Coherent(updatedStatus(m, r).conditions)
           /\ Coherent(degradedStatus(m, why).conditions)
           /\ Coherent(NoStatus.conditions)
<1>1. Coherent(SucceededConditions(m, r))
  BY DEF Coherent, SucceededConditions, setManagedServiceCondition,
         ConditionTypes
<1>2. Coherent(degradedStatus(m, why).conditions)
  BY DEF Coherent, degradedStatus, setManagedServiceCondition, ConditionTypes
<1>3. Coherent(NoStatus.conditions)
  BY DEF Coherent, NoStatus
<1> QED
  BY <1>1, <1>2, <1>3 DEF updatedStatus

\* Patches that carry no resourceVersion, computed from stale copies, lost
\* and sent again, never leave conditions of two different writes.
THEOREM ConditionsStayCoherent == Safety => []ConditionsCoherent
<1> DEFINE Inv == ms.exists => Coherent(ms.status.conditions)
<1>1. ConditionsCoherent <=> Inv
  BY DEF ConditionsCoherent, Coherent
<1>2. Init => Inv
  <2>1. Init => ms = NoManagedService(0)
    BY DEF Init, ClusterInit
  <2>2. ~NoManagedService(0).exists
    BY DEF NoManagedService
  <2> QED
    BY <2>1, <2>2
<1>3. ASSUME TypeOK, Inv, [Next]_vars PROVE Inv'
  <2>t. ClusterTypeOK /\ LocalTypeOK
    BY <1>3 DEF TypeOK
  <2>m. /\ ms \in ManagedServices
        /\ ms.status \in StatusValues
        /\ managedService.status \in StatusValues
    BY <2>t DEF ClusterTypeOK, LocalTypeOK, ManagedServices
  <2>1. CASE ms' = ms
    BY <1>3, <2>1
  <2>2. CASE updateManagedServiceStatus \/ recordDegradedStatus
    <3>1. PICK after \in {updatedStatus(managedService, ready),
                          degradedStatus(managedService, reason)},
               err \in BOOLEAN :
            after \in StatusValues /\ patchManagedServiceStatus(after, err)
      BY <1>3, <2>2, StatusWriters
    <3> DEFINE merged == MergePatch(ms.status, managedService.status, after)
    <3>2. Coherent(after.conditions)
      BY <3>1, WrittenConditionsCoherent
    <3>3. merged.conditions \in {ms.status.conditions, after.conditions}
      BY <2>m, <3>1, MergeTypes
    <3>4. \/ ms' = ms
          \/ ms.exists /\ ms' = [ms EXCEPT !.status = merged]
      BY <3>1, PatchEffect DEF WriteManagedService
    <3> HIDE DEF merged
    <3>5. ASSUME ms.exists, ms' = [ms EXCEPT !.status = merged] PROVE Inv'
      <4>1. ms'.status.conditions = merged.conditions
        BY <2>m, <3>5 DEF ManagedServices
      <4> QED
        BY <1>3, <3>2, <3>3, <3>5, <4>1
    <3> QED
      BY <2>1, <3>4, <3>5
  <2>3. CASE Environment
    <3>1. \/ ms' = ms
          \/ \E m \in ManagedServices :
               /\ ms' = m
               /\ m.status = NoStatus \/ (ms.exists /\ m.status = ms.status)
      BY <1>3, <2>3, EnvironmentEffect DEF WriteManagedService
    <3> QED
      BY <1>3, <3>1, WrittenConditionsCoherent
  <2>4. ASSUME NEW k \in ChildKinds,
               \/ CreateOrUpdate(k) \/ CreateChild(k)
               \/ UpdateChild(k) \/ DeliverChild(k)
        PROVE  ms' = ms
    BY <2>4 DEF CreateOrUpdate, CreateChild, UpdateChild, DeliverChild, msVars
  <2>5. CASE Reconcile \/ ReconcileFailsToRead \/ DeliverManagedService
    BY <2>1, <2>5 DEF Reconcile, ReconcileFailsToRead, DeliverManagedService,
                      msVars
  <2>6. ASSUME NEW image \in Images, Restart(image) PROVE ms' = ms
    BY <2>6 DEF Restart
  <2>7. CASE UNCHANGED vars
    BY <2>1, <2>7 DEF vars, clusterVars, msVars, childVars
  <2> QED
    BY <1>3, <2>1, <2>2, <2>3, <2>4, <2>5, <2>6, <2>7 DEF Next, Work, Deliver
<1> HIDE DEF Inv
<1> QED
  BY <1>1, <1>2, <1>3, TypeCorrect, PTL DEF Safety

=============================================================================
