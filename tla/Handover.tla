------------------------------ MODULE Handover ------------------------------
(***************************************************************************)
(* A change of leader (cmd/main.go, --leader-elect): an old manager and a  *)
(* new one, perhaps of another release, with informers, queue and          *)
(* reconciliation of their own, over one API server.                       *)
(*                                                                         *)
(* The lease does not fence: the new manager starts its controllers when   *)
(* the lease has run out, the old one stops when it notices that it could  *)
(* not renew it, and the API server takes the calls of both.  The lease    *)
(* itself is client-go's; only its order of events is modelled.            *)
(*                                                                         *)
(* The variables of Operator are the old manager's, those below the new    *)
(* one's; ms, child and scenario are shared.                               *)
(***************************************************************************)
EXTENDS Operator

CONSTANTS
    OldImage,     \* --demo-http-image of the old manager
    NewImage,     \* and of the new one
    MaxOverlap    \* steps of the old one's worker after its lease ran out

ASSUME HandoverAssumption ==
    /\ {OldImage, NewImage} \subseteq Images /\ MaxOverlap \in Nat

VARIABLES
    leader,       \* whose controllers run: "old", "both" or "new"
    overlap,      \* such steps so far
    newMsWatch, newMsCache, newChildWatch, newChildCache, newCurrent,
    newQueued, newStep, newKind, newManagedService, newReady, newReason,
    newDemoHTTPImage, newReconciliations, newConditionTransitions

New == INSTANCE Operator WITH
         msWatch <- newMsWatch, msCache <- newMsCache,
         childWatch <- newChildWatch, childCache <- newChildCache,
         current <- newCurrent, queued <- newQueued, step <- newStep,
         kind <- newKind, managedService <- newManagedService,
         ready <- newReady, reason <- newReason,
         demoHTTPImage <- newDemoHTTPImage,
         reconciliations <- newReconciliations,
         conditionTransitions <- newConditionTransitions

oldWatches == <<msWatch, childWatch, current>>
newWatches == <<newMsWatch, newChildWatch, newCurrent>>
oldOwn == <<msCache, childCache, operatorVars>>
newLocals == <<newStep, newKind, newManagedService, newReady, newReason>>
newMetrics == <<newReconciliations, newConditionTransitions>>
newOperatorVars == <<newQueued, newLocals, newDemoHTTPImage, newMetrics>>
newOwn == <<newMsCache, newChildCache, newOperatorVars>>
handoverVars == <<vars, leader, overlap, newWatches, newOwn>>

-----------------------------------------------------------------------------
(* What one manager writes is delivered to the other's watches too, and    *)
(* makes the other's copy of a child an old one.                           *)

Followed(watch, written, version) ==
    IF written THEN Append(watch, version) ELSE watch

MsWritten == Len(msWatch') > Len(msWatch)
ChildWritten(k) == Len(childWatch'[k]) > Len(childWatch[k])

NewFollows ==
    IF leader = "old"
    THEN UNCHANGED newWatches
    ELSE /\ newMsWatch' = Followed(newMsWatch, MsWritten, ms')
         /\ newChildWatch' = [k \in ChildKinds |->
               Followed(newChildWatch[k], ChildWritten(k), child'[k])]
         /\ newCurrent' = [k \in ChildKinds |->
               newCurrent[k] /\ ~ChildWritten(k)]
         /\ Len(newMsWatch') <= scenario.pending
         /\ \A k \in ChildKinds : Len(newChildWatch'[k]) <= scenario.pending

NewMsWritten == Len(newMsWatch') > Len(newMsWatch)
NewChildWritten(k) == Len(newChildWatch'[k]) > Len(newChildWatch[k])

OldFollows ==
    IF leader = "new"
    THEN UNCHANGED oldWatches
    ELSE /\ msWatch' = Followed(msWatch, NewMsWritten, ms')
         /\ childWatch' = [k \in ChildKinds |->
               Followed(childWatch[k], NewChildWritten(k), child'[k])]
         /\ current' = [k \in ChildKinds |->
               current[k] /\ ~NewChildWritten(k)]
         /\ Len(msWatch') <= scenario.pending
         /\ \A k \in ChildKinds : Len(childWatch'[k]) <= scenario.pending

-----------------------------------------------------------------------------
OldDelivers ==
    /\ leader # "new" /\ Deliver
    /\ UNCHANGED <<leader, overlap, newWatches, newOwn>>

OldWorks ==
    /\ leader # "new" /\ overlap < MaxOverlap
    /\ Work /\ NewFollows
    /\ overlap' = IF leader = "both" THEN overlap + 1 ELSE overlap
    /\ UNCHANGED <<leader, newOwn>>

NewDelivers ==
    /\ leader # "old" /\ New!Deliver
    /\ UNCHANGED <<leader, overlap, oldWatches, oldOwn>>

NewWorks ==
    /\ leader # "old" /\ New!Work
    /\ OldFollows
    /\ UNCHANGED <<leader, overlap, oldOwn>>

\* Clients and Kubernetes' controllers.
Outside(kubernetes, newKubernetes) ==
    \/ /\ leader = "old" /\ kubernetes
       /\ UNCHANGED <<leader, overlap, operatorVars, newWatches, newOwn>>
    \/ /\ leader # "old" /\ newKubernetes
       /\ OldFollows
       /\ UNCHANGED <<leader, overlap, oldOwn, newOperatorVars>>

\* The lease runs out and the new manager takes it: its controllers start from
\* what its informers have listed, which enqueues what exists.
TakeLease ==
    /\ leader = "old"
    /\ leader' = "both"
    /\ newMsCache' = ms
    /\ newChildCache' = child
    /\ newQueued' = (ms.exists \/ \E k \in ChildKinds : Owned(child[k]))
    /\ UNCHANGED <<vars, overlap, newWatches, newLocals, newDemoHTTPImage,
                   newMetrics>>

\* The old manager cannot renew its lease: Start returns an error, and the
\* process exits in the middle of whatever it does.
OldExits ==
    /\ leader = "both"
    /\ leader' = "new"
    /\ overlap' = 0
    /\ msWatch' = <<>>
    /\ msCache' = NoManagedService(0)
    /\ childWatch' = [k \in ChildKinds |-> <<>>]
    /\ childCache' = [k \in ChildKinds |-> NoChild]
    /\ current' = [k \in ChildKinds |-> FALSE]
    /\ queued' = FALSE
    /\ ResetLocals
    /\ UNCHANGED <<ms, child, scenario, demoHTTPImage, metricsVars, newWatches,
                   newOwn>>

\* A resource that the old manager has settled: its children as desired, its
\* status up to date, all of it in the caches and nothing in the queue.
Settled(spec) ==
    LET new == [exists |-> TRUE, deleting |-> FALSE, uid |-> 1,
                generation |-> 1, spec |-> Defaulted(spec), status |-> NoStatus]
        made(k) == mutate(k, new, OldImage, [NoChild EXCEPT !.exists = TRUE])
    IN /\ ms = [new EXCEPT !.status = updatedStatus(new, desiredReplicas(new))]
       /\ child = [k \in ChildKinds |->
            IF k = "Deployment"
            THEN [made(k) EXCEPT !.ready = desiredReplicas(new)]
            ELSE made(k)]

HandoverInit ==
    /\ \E spec \in SpecValues : Settled(spec)
    /\ msWatch = <<>> /\ newMsWatch = <<>>
    /\ msCache = ms /\ newMsCache = NoManagedService(0)
    /\ childWatch = [k \in ChildKinds |-> <<>>] /\ newChildWatch = childWatch
    /\ childCache = child /\ newChildCache = [k \in ChildKinds |-> NoChild]
    /\ current = [k \in ChildKinds |-> FALSE] /\ newCurrent = current
    /\ scenario \in Scenarios /\ OperatorInit /\ New!OperatorInit
    /\ demoHTTPImage = OldImage /\ newDemoHTTPImage = NewImage
    /\ leader = "old" /\ overlap = 0

HandoverNext ==
    \/ OldDelivers
    \/ OldWorks
    \/ NewDelivers
    \/ NewWorks
    \/ Outside(ClusterNext, New!ClusterNext)
    \/ TakeLease
    \/ OldExits

HandoverSafety == HandoverInit /\ [][HandoverNext]_handoverVars

\* Both managers run while they lead, the old one notices in the end, and the
\* controllers of Kubernetes keep running.  The lease may never change hands.
HandoverFairness ==
    /\ WF_handoverVars(OldDelivers)
    /\ WF_handoverVars(OldWorks)
    /\ WF_handoverVars(NewDelivers)
    /\ WF_handoverVars(NewWorks)
    /\ WF_handoverVars(OldExits)
    /\ WF_handoverVars(Outside(Rollout, New!Rollout))
    /\ \A k \in ChildKinds :
         WF_handoverVars(Outside(GarbageCollect(k), New!GarbageCollect(k)))

HandoverSpec == HandoverSafety /\ HandoverFairness

-----------------------------------------------------------------------------
(* Properties.                                                             *)

\* Whoever leads in the end, children and status settle on what its image and
\* the spec ask for, although both managers wrote them from caches of their own
\* and the old one stopped anywhere (Reconcile, CreateOrUpdate and the status
\* patch, which nothing serialises across processes).
HandoverConverges ==
    <>[](/\ leader # "both"
         /\ leader = "old" => Converged
         /\ leader = "new" => New!Converged)

=============================================================================
