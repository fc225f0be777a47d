---------------------------- MODULE StatusProofs ----------------------------
(***************************************************************************)
(* What a status that the operator writes describes.  The versions of the  *)
(* ManagedService keep their order on the way from the server through the  *)
(* watch and the cache to the reconciler, and the generation that a        *)
(* resource reports as observed is one that the reconciler has read.       *)
(***************************************************************************)
EXTENDS OperatorProofs

-----------------------------------------------------------------------------
(* The order of versions.                                                  *)

\* b is the version a or a later one.  Within an incarnation the generation
\* does not go back, and names one spec; what is deleted does not return.
Precedes(a, b) ==
    \/ a.uid < b.uid
    \/ /\ a.uid = b.uid
       /\ b.exists => /\ a.exists
                      /\ a.generation <= b.generation
                      /\ a.generation = b.generation => a.spec = b.spec

\* The first incarnation has the UID 1.
Numbered(m) == m.uid = 0 => ~m.exists /\ m.generation = 0

VersionsInOrder ==
    /\ Precedes(msCache, ms)
    /\ step # "idle" => Precedes(managedService, msCache)
    /\ \A i \in 1..Len(msWatch) :
         Precedes(msCache, msWatch[i]) /\ Precedes(msWatch[i], ms)
    /\ \A i, j \in 1..Len(msWatch) :
         i <= j => Precedes(msWatch[i], msWatch[j])

VersionsNumbered ==
    /\ Numbered(ms) /\ Numbered(msCache) /\ Numbered(managedService)
    /\ \A i \in 1..Len(msWatch) : Numbered(msWatch[i])

\* The first incarnation reports no generation that was not read from the
\* cache, and none that is ahead of the copy being reconciled.
ObservedWasRead ==
    (ms.exists /\ ms.uid = 1) =>
      /\ ms.status.observedGeneration <= msCache.generation
      /\ step # "idle" =>
           ms.status.observedGeneration <= managedService.generation

StatusInv == VersionsInOrder /\ VersionsNumbered /\ ObservedWasRead

LEMMA PrecedesOrder ==
    /\ \A a \in ManagedServices : Precedes(a, a)
    /\ \A a, b, c \in ManagedServices :
         Precedes(a, b) /\ Precedes(b, c) => Precedes(a, c)
<1>1. \A a \in ManagedServices : a.uid \in Nat /\ a.generation \in Nat
  BY DEF ManagedServices
<1>2. \A a \in ManagedServices : Precedes(a, a)
  BY <1>1 DEF Precedes
<1>3. ASSUME NEW a \in ManagedServices, NEW b \in ManagedServices,
             NEW c \in ManagedServices, Precedes(a, b), Precedes(b, c)
      PROVE  Precedes(a, c)
  BY <1>1, <1>3 DEF Precedes
<1> QED
  BY <1>2, <1>3

\* In one incarnation that exists, an earlier version has no later generation.
LEMMA PrecedesGeneration ==
    ASSUME NEW a \in ManagedServices, NEW b \in ManagedServices,
           NEW c \in ManagedServices, Precedes(a, b), Precedes(b, c),
           c.exists, c.uid = 1, Numbered(a)
    PROVE  a.generation <= b.generation
  BY DEF Precedes, Numbered, ManagedServices

\* What the environment does to the ManagedService: it writes a later
\* version, and changes no status.
LEMMA EnvironmentVersions ==
    ASSUME TypeOK, Environment
    PROVE  /\ UNCHANGED <<msCache, managedService, step>>
           /\ \/ UNCHANGED <<ms, msWatch>>
              \/ \E m \in ManagedServices :
                   /\ WriteManagedService(m)
                   /\ Precedes(ms, m)
                   /\ Numbered(ms) => Numbered(m)
                   /\ \/ ~m.exists
                      \/ ~ms.exists /\ m.status = NoStatus
                      \/ ms.exists /\ m.uid = ms.uid /\ m.status = ms.status
<1> DEFINE Later(m) == /\ Precedes(ms, m)
                       /\ Numbered(ms) => Numbered(m)
                       /\ \/ ~m.exists
                          \/ ~ms.exists /\ m.status = NoStatus
                          \/ ms.exists /\ m.uid = ms.uid /\ m.status = ms.status
<1>m. ms \in ManagedServices /\ ms.uid \in Nat /\ ms.generation \in Nat
  BY DEF TypeOK, ClusterTypeOK, ManagedServices
<1>0. UNCHANGED <<msCache, managedService, step>>
  BY EnvironmentEffect DEF operatorVars, localVars, metricsVars
<1>1. UNCHANGED <<ms, msWatch>> \/ \E m \in ManagedServices : WriteManagedService(m)
  BY EnvironmentEffect
<1>2. UNCHANGED <<ms, msWatch>> \/ Later(ms')
  <2>1. ASSUME NEW spec \in SpecValues, ClientCreates(spec) PROVE Later(ms')
    <3>1. /\ ~ms.exists
          /\ ms' = [exists |-> TRUE, deleting |-> FALSE, uid |-> ms.uid + 1,
                    generation |-> 1, spec |-> Defaulted(spec),
                    status |-> NoStatus]
      BY <2>1 DEF ClientCreates, WriteManagedService
    <3>2. ms'.uid = ms.uid + 1 /\ ms'.status = NoStatus
      BY <3>1
    <3> QED
      BY <1>m, <3>1, <3>2 DEF Precedes, Numbered
  <2>2. ASSUME NEW spec \in SpecValues, ClientUpdates(spec) PROVE Later(ms')
    <3>1. /\ ms.exists
          /\ ms' = [ms EXCEPT !.spec = Defaulted(spec), !.generation = @ + 1]
      BY <2>2 DEF ClientUpdates, WriteManagedService
    <3>2. /\ ms'.uid = ms.uid /\ ms'.status = ms.status
          /\ ms'.generation = ms.generation + 1
      BY <1>m, <3>1 DEF ManagedServices
    <3> QED
      BY <1>m, <3>1, <3>2 DEF Precedes, Numbered
  <2>3. CASE ClientDeletesInForeground
    <3>1. ms.exists /\ ms' = [ms EXCEPT !.deleting = TRUE, !.generation = @ + 1]
      BY <2>3 DEF ClientDeletesInForeground, WriteManagedService
    <3>2. /\ ms'.uid = ms.uid /\ ms'.status = ms.status
          /\ ms'.generation = ms.generation + 1
      BY <1>m, <3>1 DEF ManagedServices
    <3> QED
      BY <1>m, <3>1, <3>2 DEF Precedes, Numbered
  <2>4. CASE ClientDeletes \/ DeletionEnds
    <3>1. ms' = NoManagedService(ms.uid)
      BY <2>4 DEF ClientDeletes, DeletionEnds, WriteManagedService
    <3> QED
      BY <1>m, <3>1 DEF Precedes, Numbered, NoManagedService
  <2>5. ASSUME NEW k \in ChildKinds,
               \/ ChildDrifts(k)
               \/ OwnerIsStripped(k)
               \/ ChildIsRemoved(k)
               \/ \E controller \in {"none", "other"}, selector \in BOOLEAN :
                    NameIsOccupied(k, controller, selector)
               \/ GarbageCollect(k)
        PROVE  UNCHANGED <<ms, msWatch>>
    BY <2>5 DEF ChildDrifts, OwnerIsStripped, ChildIsRemoved, NameIsOccupied,
                GarbageCollect, msVars
  <2>6. CASE PodsBecomeUnready \/ Rollout
    BY <2>6 DEF PodsBecomeUnready, Rollout, msVars
  <2> HIDE DEF Later
  <2> QED
    BY <2>1, <2>2, <2>3, <2>4, <2>5, <2>6 DEF Environment, ClusterNext
<1>3. ASSUME NEW m \in ManagedServices, WriteManagedService(m) PROVE ms' = m
  BY <1>3 DEF WriteManagedService
<1> QED
  BY <1>0, <1>1, <1>2, <1>3

-----------------------------------------------------------------------------
(* Each step keeps the order.                                              *)

LEMMA WriteKeepsVersions ==
    ASSUME ClusterTypeOK, LocalTypeOK, VersionsInOrder, VersionsNumbered,
           NEW m \in ManagedServices, WriteManagedService(m), Precedes(ms, m),
           Numbered(m), UNCHANGED msCache,
           \/ step' = "idle" /\ Numbered(managedService')
           \/ UNCHANGED <<step, managedService>>
    PROVE  VersionsInOrder' /\ VersionsNumbered'
<1>1. /\ ms \in ManagedServices
      /\ msCache \in ManagedServices
      /\ msWatch \in Seq(ManagedServices)
      /\ \A i \in 1..Len(msWatch) : msWatch[i] \in ManagedServices
  BY DEF ClusterTypeOK
<1>2. /\ ms' = m
      /\ msWatch' = Append(msWatch, m)
      /\ msCache' = msCache
  BY DEF WriteManagedService
<1>3. /\ Len(msWatch') = Len(msWatch) + 1
      /\ Len(msWatch) \in Nat
      /\ msWatch'[Len(msWatch) + 1] = m
      /\ \A i \in 1..Len(msWatch) : msWatch'[i] = msWatch[i]
  BY <1>1, <1>2
<1>4. \A i \in 1..Len(msWatch') : i \in 1..Len(msWatch) \/ i = Len(msWatch) + 1
  BY <1>3
<1>5. Precedes(msCache, m) /\ Precedes(m, m)
  BY <1>1, PrecedesOrder DEF VersionsInOrder
<1>6. \A i \in 1..Len(msWatch) : Precedes(msWatch[i], m)
  BY <1>1, PrecedesOrder DEF VersionsInOrder
<1>7. \A i \in 1..Len(msWatch') :
        Precedes(msCache, msWatch'[i]) /\ Precedes(msWatch'[i], m)
  BY <1>3, <1>4, <1>5, <1>6 DEF VersionsInOrder
<1>8. ASSUME NEW i \in 1..Len(msWatch'), NEW j \in 1..Len(msWatch'), i <= j
      PROVE  Precedes(msWatch'[i], msWatch'[j])
  <2>1. CASE j = Len(msWatch) + 1
    BY <1>3, <1>7, <2>1
  <2>2. CASE j \in 1..Len(msWatch)
    <3>1. i \in 1..Len(msWatch)
      BY <1>3, <1>4, <1>8, <2>2
    <3> QED
      BY <1>3, <1>8, <2>2, <3>1 DEF VersionsInOrder
  <2> QED
    BY <1>4, <2>1, <2>2
<1>9. step' # "idle" => Precedes(managedService', msCache')
  BY <1>2 DEF VersionsInOrder
<1>10. VersionsInOrder'
  BY <1>2, <1>5, <1>7, <1>8, <1>9 DEF VersionsInOrder
<1>11. VersionsNumbered'
  BY <1>2, <1>3, <1>4 DEF VersionsNumbered
<1> QED
  BY <1>10, <1>11

LEMMA DeliverKeepsVersions ==
    ASSUME ClusterTypeOK, LocalTypeOK, StatusInv, DeliverManagedService
    PROVE  StatusInv'
<1>1. /\ msWatch \in Seq(ManagedServices)
      /\ msWatch # <<>>
      /\ ms' = ms
      /\ msCache' = Head(msWatch)
      /\ msWatch' = Tail(msWatch)
      /\ UNCHANGED <<step, managedService>>
  BY DEF ClusterTypeOK, DeliverManagedService, localVars
<1>2. /\ Len(msWatch) \in Nat \ {0}
      /\ msCache' = msWatch[1]
      /\ Len(msWatch') = Len(msWatch) - 1
      /\ \A i \in 1..Len(msWatch') : msWatch'[i] = msWatch[i + 1]
  BY <1>1
<1>3. 1 \in 1..Len(msWatch) /\ \A i \in 1..Len(msWatch') : i + 1 \in 1..Len(msWatch)
  BY <1>2
<1>4. /\ ms \in ManagedServices
      /\ msCache \in ManagedServices
      /\ managedService \in ManagedServices
      /\ msWatch[1] \in ManagedServices
  <2>1. msWatch[1] \in ManagedServices
    BY <1>1, <1>3
  <2> QED
    BY <2>1 DEF ClusterTypeOK, LocalTypeOK
<1>5. Precedes(msCache, msWatch[1]) /\ Precedes(msWatch[1], ms)
  BY <1>3 DEF StatusInv, VersionsInOrder
<1>6. ASSUME NEW i \in 1..Len(msWatch')
      PROVE  /\ Precedes(msWatch[1], msWatch'[i]) /\ Precedes(msWatch'[i], ms)
             /\ Numbered(msWatch'[i])
  <2>1. i + 1 \in 1..Len(msWatch) /\ 1 <= i + 1 /\ msWatch'[i] = msWatch[i + 1]
    BY <1>2, <1>3
  <2> QED
    BY <1>3, <2>1 DEF StatusInv, VersionsInOrder, VersionsNumbered
<1>7. ASSUME NEW i \in 1..Len(msWatch'), NEW j \in 1..Len(msWatch'), i <= j
      PROVE  Precedes(msWatch'[i], msWatch'[j])
  <2>1. /\ i + 1 \in 1..Len(msWatch) /\ j + 1 \in 1..Len(msWatch)
        /\ i + 1 <= j + 1
        /\ msWatch'[i] = msWatch[i + 1] /\ msWatch'[j] = msWatch[j + 1]
    BY <1>2, <1>3, <1>7
  <2> QED
    BY <2>1 DEF StatusInv, VersionsInOrder
<1>8. step # "idle" => Precedes(managedService, msWatch[1])
  BY <1>4, <1>5, PrecedesOrder DEF StatusInv, VersionsInOrder
<1>9. VersionsInOrder'
  BY <1>1, <1>2, <1>5, <1>6, <1>7, <1>8 DEF VersionsInOrder
<1>10. VersionsNumbered'
  BY <1>1, <1>2, <1>3, <1>6 DEF StatusInv, VersionsNumbered
<1>11. ObservedWasRead'
  <2> SUFFICES ASSUME ms.exists, ms.uid = 1
               PROVE  ms.status.observedGeneration <= msWatch[1].generation
    BY <1>1, <1>2 DEF ObservedWasRead, StatusInv
  <2>1. msCache.generation <= msWatch[1].generation
    BY <1>4, <1>5, PrecedesGeneration DEF StatusInv, VersionsNumbered
  <2>2. ms.status.observedGeneration <= msCache.generation
    BY DEF StatusInv, ObservedWasRead
  <2>3. /\ ms.status.observedGeneration \in Nat
        /\ msCache.generation \in Nat
        /\ msWatch[1].generation \in Nat
    BY <1>4 DEF ManagedServices, StatusValues
  <2> QED
    BY <2>1, <2>2, <2>3
<1> QED
  BY <1>9, <1>10, <1>11 DEF StatusInv

\* The status that a patch leaves: the generation it observed is that of the
\* copy or, if the patch does not carry it, the one that was there.
LEMMA PatchObserves ==
    ASSUME TypeOK, updateManagedServiceStatus \/ recordDegradedStatus
    PROVE  /\ step # "idle"
           /\ step' = "idle" /\ managedService' = NoManagedService(0)
           /\ msCache' = msCache
           /\ \/ UNCHANGED <<ms, msWatch>>
              \/ /\ ms.exists
                 /\ \E m \in ManagedServices :
                      /\ WriteManagedService(m)
                      /\ m.exists /\ m.uid = ms.uid
                      /\ m.generation = ms.generation /\ m.spec = ms.spec
                      /\ \/ m.status.observedGeneration = managedService.generation
                         \/ m.status.observedGeneration
                              = ms.status.observedGeneration
<1>m. /\ ms \in ManagedServices
      /\ ms.status \in StatusValues
      /\ managedService.status \in StatusValues
  BY DEF TypeOK, ClusterTypeOK, LocalTypeOK, ManagedServices
<1>1. /\ step # "idle"
      /\ step' = "idle" /\ managedService' = NoManagedService(0)
      /\ msCache' = msCache
  BY DEF updateManagedServiceStatus, recordDegradedStatus, Finish, ResetLocals
<1>2. PICK after \in {updatedStatus(managedService, ready),
                      degradedStatus(managedService, reason)},
           err \in BOOLEAN :
        after \in StatusValues /\ patchManagedServiceStatus(after, err)
  BY StatusWriters
<1> DEFINE merged == MergePatch(ms.status, managedService.status, after)
           m == [ms EXCEPT !.status = merged]
<1>3. UNCHANGED <<ms, msWatch>> \/ (ms.exists /\ WriteManagedService(m))
  BY <1>2, PatchEffect
<1>4. after.observedGeneration = managedService.generation
  <2>1. /\ updatedStatus(managedService, ready).observedGeneration
             = managedService.generation
        /\ degradedStatus(managedService, reason).observedGeneration
             = managedService.generation
    BY DEF updatedStatus, degradedStatus
  <2> QED
    BY <1>2, <2>1
<1>5. \/ merged.observedGeneration = managedService.generation
      \/ merged.observedGeneration = ms.status.observedGeneration
  BY <1>4 DEF MergePatch
<1>6. merged \in StatusValues
  BY <1>m, <1>2, MergeTypes
<1> HIDE DEF merged
<1>7. /\ m \in ManagedServices
      /\ m.exists = ms.exists /\ m.uid = ms.uid
      /\ m.generation = ms.generation /\ m.spec = ms.spec
      /\ m.status = merged
  BY <1>m, <1>6 DEF ManagedServices
<1> HIDE DEF m
<1> QED
  BY <1>1, <1>3, <1>5, <1>7

LEMMA StatusInductive ==
    ASSUME TypeOK, StatusInv, [Next]_vars
    PROVE  StatusInv'
<1>t. ClusterTypeOK /\ LocalTypeOK
  BY DEF TypeOK
<1>m. /\ ms \in ManagedServices
      /\ msCache \in ManagedServices
      /\ managedService \in ManagedServices
  BY <1>t DEF ClusterTypeOK, LocalTypeOK
<1>n. /\ ms.status.observedGeneration \in Nat
      /\ ms.generation \in Nat /\ msCache.generation \in Nat
      /\ managedService.generation \in Nat
  BY <1>m DEF ManagedServices, StatusValues
<1>i. VersionsInOrder /\ VersionsNumbered /\ ObservedWasRead
  BY DEF StatusInv
<1>z. Numbered(NoManagedService(0))
  BY DEF Numbered, NoManagedService
<1>u. ASSUME UNCHANGED <<ms, msWatch, msCache, managedService>>,
             step' = step \/ (step # "idle" /\ step' # "idle")
      PROVE  StatusInv'
  BY <1>i, <1>u
     DEF StatusInv, VersionsInOrder, VersionsNumbered, ObservedWasRead
<1>e. ASSUME UNCHANGED <<ms, msWatch, msCache>>, step' = "idle",
             Numbered(managedService')
      PROVE  StatusInv'
  BY <1>i, <1>e
     DEF StatusInv, VersionsInOrder, VersionsNumbered, ObservedWasRead
<1>1. CASE Reconcile \/ ReconcileFailsToRead
  <2>1. /\ UNCHANGED msVars
        /\ \/ managedService' = msCache
           \/ managedService' = managedService /\ step' = step
    BY <1>1 DEF Reconcile, ReconcileFailsToRead, localVars
  <2>2. CASE managedService' = msCache
    <3>1. Precedes(msCache, msCache)
      BY <1>m, PrecedesOrder
    <3> QED
      BY <1>i, <2>1, <2>2, <3>1
      DEF StatusInv, VersionsInOrder, VersionsNumbered, ObservedWasRead, msVars
  <2> QED
    BY <1>u, <2>1, <2>2 DEF msVars
<1>2. ASSUME NEW k \in ChildKinds,
             CreateOrUpdate(k) \/ CreateChild(k) \/ UpdateChild(k)
      PROVE  StatusInv'
  <2>1. /\ step # "idle" /\ step' # "idle"
        /\ UNCHANGED <<msVars, managedService>>
    BY <1>2, ChildStepEffect DEF CreateOrUpdate, Fail, Proceed
  <2> QED
    BY <1>u, <2>1 DEF msVars
<1>3. CASE updateManagedServiceStatus \/ recordDegradedStatus
  <2>1. /\ step # "idle"
        /\ step' = "idle" /\ managedService' = NoManagedService(0)
        /\ msCache' = msCache
    BY <1>3, PatchObserves
  <2>2. CASE UNCHANGED <<ms, msWatch>>
    BY <1>e, <1>z, <2>1, <2>2
  <2>3. ASSUME NEW m \in ManagedServices, ms.exists, WriteManagedService(m),
               m.exists, m.uid = ms.uid, m.generation = ms.generation,
               m.spec = ms.spec,
               \/ m.status.observedGeneration = managedService.generation
               \/ m.status.observedGeneration = ms.status.observedGeneration
        PROVE  StatusInv'
    <3>1. Precedes(ms, m) /\ Numbered(m)
      BY <1>i, <1>n, <2>3 DEF Precedes, Numbered, VersionsNumbered
    <3>2. VersionsInOrder' /\ VersionsNumbered'
      BY <1>t, <1>i, <1>z, <2>1, <2>3, <3>1, WriteKeepsVersions
    <3>3. ObservedWasRead'
      <4> SUFFICES ASSUME ms.uid = 1
                   PROVE  m.status.observedGeneration <= msCache.generation
        BY <2>1, <2>3 DEF ObservedWasRead, WriteManagedService
      <4>1. Precedes(managedService, msCache) /\ Precedes(msCache, ms)
        BY <1>i, <2>1 DEF VersionsInOrder
      <4>2. managedService.generation <= msCache.generation
        BY <1>i, <1>m, <2>3, <4>1, PrecedesGeneration DEF VersionsNumbered
      <4>3. ms.status.observedGeneration <= msCache.generation
        BY <1>i, <2>3 DEF ObservedWasRead
      <4> QED
        BY <2>3, <4>2, <4>3
    <3> QED
      BY <3>2, <3>3 DEF StatusInv
  <2> QED
    BY <1>3, <2>2, <2>3, PatchObserves
<1>4. CASE DeliverManagedService
  BY <1>4, <1>t, DeliverKeepsVersions
<1>5. ASSUME NEW k \in ChildKinds, DeliverChild(k) PROVE StatusInv'
  BY <1>5, <1>u DEF DeliverChild, msVars, localVars
<1>6. ASSUME NEW image \in Images, Restart(image) PROVE StatusInv'
  <2>1. /\ ms' = ms /\ msCache' = ms /\ msWatch' = <<>>
        /\ step' = "idle" /\ managedService' = NoManagedService(0)
    BY <1>6 DEF Restart, ResetLocals
  <2>2. VersionsInOrder'
    BY <1>m, <2>1, PrecedesOrder DEF VersionsInOrder
  <2>3. VersionsNumbered'
    BY <1>i, <1>z, <2>1 DEF VersionsNumbered
  <2>4. ObservedWasRead'
    <3> SUFFICES ASSUME ms.exists, ms.uid = 1
                 PROVE  ms.status.observedGeneration <= ms.generation
      BY <2>1 DEF ObservedWasRead
    <3>1. Precedes(msCache, ms) /\ Precedes(ms, ms)
      BY <1>i, <1>m, PrecedesOrder DEF VersionsInOrder
    <3>2. msCache.generation <= ms.generation
      BY <1>i, <1>m, <3>1, PrecedesGeneration DEF VersionsNumbered
    <3>3. ms.status.observedGeneration <= msCache.generation
      BY <1>i DEF ObservedWasRead
    <3> QED
      BY <1>n, <3>2, <3>3
  <2> QED
    BY <2>2, <2>3, <2>4 DEF StatusInv
<1>7. CASE Environment
  <2>1. UNCHANGED <<msCache, managedService, step>>
    BY <1>7, EnvironmentVersions
  <2>2. ASSUME NEW m \in ManagedServices, WriteManagedService(m),
               Precedes(ms, m), Numbered(ms) => Numbered(m),
               \/ ~m.exists
               \/ ~ms.exists /\ m.status = NoStatus
               \/ ms.exists /\ m.uid = ms.uid /\ m.status = ms.status
        PROVE  StatusInv'
    <3>1. VersionsInOrder' /\ VersionsNumbered'
      BY <1>t, <1>i, <2>1, <2>2, WriteKeepsVersions DEF VersionsNumbered
    <3>2. ms' = m
      BY <2>2 DEF WriteManagedService
    <3>3. NoStatus.observedGeneration = 0
      BY DEF NoStatus
    <3>4. ObservedWasRead'
      BY <1>i, <1>n, <2>1, <2>2, <3>2, <3>3 DEF ObservedWasRead
    <3> QED
      BY <3>1, <3>4 DEF StatusInv
  <2> QED
    BY <1>7, <1>u, <2>1, <2>2, EnvironmentVersions
<1>8. CASE UNCHANGED vars
  BY <1>8, <1>u DEF vars, clusterVars, msVars, operatorVars, localVars
<1> QED
  BY <1>1, <1>2, <1>3, <1>4, <1>5, <1>6, <1>7, <1>8 DEF Next, Work, Deliver

LEMMA StatusInvariant == Safety => []StatusInv
<1>1. Init => StatusInv
  <2> SUFFICES ASSUME Init PROVE StatusInv
    OBVIOUS
  <2>1. /\ ms = NoManagedService(0) /\ msCache = NoManagedService(0)
        /\ managedService = NoManagedService(0)
        /\ msWatch = <<>> /\ step = "idle"
    BY DEF Init, ClusterInit, OperatorInit
  <2>2. NoManagedService(0) \in ManagedServices
    BY EmptyTypes
  <2>3. VersionsInOrder
    BY <2>1, <2>2, PrecedesOrder DEF VersionsInOrder
  <2>4. VersionsNumbered /\ ObservedWasRead
    BY <2>1 DEF VersionsNumbered, Numbered, ObservedWasRead, NoManagedService
  <2> QED
    BY <2>3, <2>4 DEF StatusInv
<1> QED
  BY <1>1, StatusInductive, TypeCorrect, PTL DEF Safety

-----------------------------------------------------------------------------
\* Whatever the copy a reconciliation started from, the status it writes for
\* the incarnation that lives claims to describe the live generation only if
\* it was computed from the spec of that generation (the patch that
\* patchManagedServiceStatus sends without a resourceVersion).
THEOREM StatusTruthful == Safety => StatusDescribesItsGeneration
<1> DEFINE Truthful ==
             (/\ NamesLiveGeneration
              /\ managedService.uid = ms.uid
              /\ \/ ms.uid = 1
                 \/ ms'.status.observedGeneration # ms.status.observedGeneration)
             => managedService.spec = ms'.spec
<1>1. ASSUME TypeOK, StatusInv, [Next]_vars PROVE Truthful
  <2>u. ASSUME ms' = ms PROVE Truthful
    BY <2>u DEF NamesLiveGeneration
  <2>1. CASE updateManagedServiceStatus \/ recordDegradedStatus
    <3>1. step # "idle"
      BY <1>1, <2>1, PatchObserves
    <3>2. ASSUME NEW m \in ManagedServices, WriteManagedService(m), ms.exists,
                 m.generation = ms.generation, m.spec = ms.spec,
                 \/ m.status.observedGeneration = managedService.generation
                 \/ m.status.observedGeneration = ms.status.observedGeneration
          PROVE  Truthful
      <4> SUFFICES ASSUME m.status.observedGeneration = ms.generation,
                          managedService.uid = ms.uid,
                          \/ ms.uid = 1
                          \/ m.status.observedGeneration
                               # ms.status.observedGeneration
                   PROVE  managedService.spec = ms.spec
        BY <3>2 DEF NamesLiveGeneration, WriteManagedService
      <4>1. /\ ms \in ManagedServices
            /\ msCache \in ManagedServices
            /\ managedService \in ManagedServices
        BY <1>1 DEF TypeOK, ClusterTypeOK, LocalTypeOK
      <4>2. Precedes(managedService, ms)
        <5>1. Precedes(managedService, msCache) /\ Precedes(msCache, ms)
          BY <1>1, <3>1 DEF StatusInv, VersionsInOrder
        <5> QED
          BY <4>1, <5>1, PrecedesOrder
      <4>3. /\ managedService.generation <= ms.generation
            /\ managedService.generation = ms.generation
                 => managedService.spec = ms.spec
        BY <3>2, <4>1, <4>2 DEF Precedes, ManagedServices
      <4>4. ms.generation <= managedService.generation
        <5>1. CASE m.status.observedGeneration = managedService.generation
          BY <4>1, <5>1 DEF ManagedServices
        <5>2. CASE m.status.observedGeneration # managedService.generation
          <6>1. ms.uid = 1 /\ ms.status.observedGeneration = ms.generation
            BY <3>2, <5>2
          <6> QED
            BY <1>1, <3>1, <3>2, <6>1 DEF StatusInv, ObservedWasRead
        <5> QED
          BY <5>1, <5>2
      <4> QED
        BY <4>1, <4>3, <4>4 DEF ManagedServices
    <3> QED
      BY <1>1, <2>1, <2>u, <3>2, PatchObserves
  <2>2. CASE Environment
    <3>1. \/ ms' = ms
          \/ \E m \in ManagedServices :
               /\ WriteManagedService(m)
               /\ \/ ~m.exists
                  \/ ~ms.exists
                  \/ m.status = ms.status
      BY <1>1, <2>2, EnvironmentVersions
    <3> QED
      BY <2>u, <3>1 DEF NamesLiveGeneration, WriteManagedService
  <2>3. ASSUME NEW k \in ChildKinds,
               \/ CreateOrUpdate(k) \/ CreateChild(k)
               \/ UpdateChild(k) \/ DeliverChild(k)
        PROVE  ms' = ms
    BY <2>3 DEF CreateOrUpdate, CreateChild, UpdateChild, DeliverChild, msVars
  <2>4. CASE Reconcile \/ ReconcileFailsToRead \/ DeliverManagedService
    BY <2>u, <2>4 DEF Reconcile, ReconcileFailsToRead, DeliverManagedService,
                      msVars
  <2>5. ASSUME NEW image \in Images, Restart(image) PROVE ms' = ms
    BY <2>5 DEF Restart
  <2>6. CASE UNCHANGED vars
    BY <2>u, <2>6 DEF vars, clusterVars, msVars
  <2> HIDE DEF Truthful
  <2> QED
    BY <1>1, <2>u, <2>1, <2>2, <2>3, <2>4, <2>5, <2>6 DEF Next, Work, Deliver
<1> QED
  BY <1>1, TypeCorrect, StatusInvariant, PTL
  DEF Safety, StatusDescribesItsGeneration

=============================================================================
