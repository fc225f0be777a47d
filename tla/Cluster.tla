------------------------------ MODULE Cluster -------------------------------
(***************************************************************************)
(* What the operator sees of Kubernetes: the API server's copy of one      *)
(* ManagedService and of the Deployment and the Service of the same name,  *)
(* the watches that deliver their versions to the operator's informer      *)
(* caches, and everything that other programs do to these objects.         *)
(*                                                                         *)
(* None of this is code of the repository.  It is modelled from how the    *)
(* operator uses it: reads go to the cache, writes go to the server, an    *)
(* update carries the resourceVersion that was read, a status patch does   *)
(* not, and every write is delivered, in order, to the cache.              *)
(*                                                                         *)
(* resourceVersions are not numbered.  The operator holds at most one copy *)
(* of each child, and only asks whether that copy is still the live one:   *)
(* current[k] says so.                                                     *)
(***************************************************************************)
EXTENDS ManagedService

CONSTANTS
    Scenarios         \* what may happen outside: Init takes one of them

ChildKinds == {"Deployment", "Service"}

DisruptionKinds ==
    {"create", "update",                      \* of the ManagedService
     "delete", "delete in foreground",
     "drift", "strip", "remove", "occupy",    \* of a child
     "unready",                               \* of the pods
     "fail", "lose", "restart"}               \* of the operator and its calls

\* The kinds of outside events, how many of them are still to come, the specs
\* that clients send, the children that the API server will not create, and
\* the number of versions that a watch may be behind.
ScenarioValues ==
    [kinds : SUBSET DisruptionKinds, left : Nat, specs : SUBSET SpecValues,
     refused : SUBSET ChildKinds, pending : Nat]

ASSUME ClusterAssumption ==
    Scenarios \subseteq ScenarioValues

VARIABLES
    ms,           \* the ManagedService at the API server
    msWatch,      \* its versions not yet delivered to the operator
    msCache,      \* the operator's informer cache of it
    child,        \* the two children at the API server
    childWatch,
    childCache,
    current,      \* the copy the reconciler read of a child is the live one
    scenario      \* what may still happen outside

msVars == <<ms, msWatch, msCache>>
childVars == <<child, childWatch, childCache, current>>
clusterVars == <<msVars, childVars, scenario>>

-----------------------------------------------------------------------------
(* Children.  Both kinds have the same shape: the controller reference,    *)
(* the fields the operator sets, whether the selector is the operator's    *)
(* (immutable in a Deployment), and the ready replicas.                    *)

Fields ==
    [replicas : Nat, message : Messages \cup {"drifted"},
     image : Images \cup {""}]

NoFields == [replicas |-> 0, message |-> "", image |-> ""]

DriftedFields == [replicas |-> 0, message |-> "drifted", image |-> ""]

Children ==
    [exists : BOOLEAN, controller : {"none", "managedservice", "other"},
     owner : Nat, fields : Fields, selector : BOOLEAN, ready : Nat]

NoChild ==
    [exists |-> FALSE, controller |-> "none", owner |-> 0,
     fields |-> NoFields, selector |-> TRUE, ready |-> 0]

\* Controlled by a ManagedService of this name, of whatever UID.
Owned(c) == c.exists /\ c.controller = "managedservice"

-----------------------------------------------------------------------------
(* Writes accepted by the API server.  A write waits while the object's    *)
(* watch is as many versions behind as the scenario lets it be.            *)

WriteManagedService(m) ==
    /\ Len(msWatch) < scenario.pending
    /\ ms' = m
    /\ msWatch' = Append(msWatch, m)

WriteChild(k, c) ==
    /\ Len(childWatch[k]) < scenario.pending
    /\ child' = [child EXCEPT ![k] = c]
    /\ childWatch' = [childWatch EXCEPT ![k] = Append(@, c)]
    /\ current' = [current EXCEPT ![k] = FALSE]

Disrupt(kind) ==
    /\ kind \in scenario.kinds /\ scenario.left > 0
    /\ scenario' = [scenario EXCEPT !.left = @ - 1]

-----------------------------------------------------------------------------
(* Clients of the ManagedService: the control-plane API and kubectl.       *)

ClientCreates(spec) ==
    /\ Disrupt("create") /\ spec \in scenario.specs
    /\ ~ms.exists
    /\ WriteManagedService([exists |-> TRUE, deleting |-> FALSE,
                            uid |-> ms.uid + 1, generation |-> 1,
                            spec |-> Defaulted(spec), status |-> NoStatus])
    /\ UNCHANGED <<msCache, childVars>>

\* An update of the spec bumps the generation and leaves the status alone.
ClientUpdates(spec) ==
    /\ Disrupt("update") /\ spec \in scenario.specs
    /\ ms.exists /\ Defaulted(spec) # ms.spec
    /\ WriteManagedService([ms EXCEPT !.spec = Defaulted(spec),
                                      !.generation = @ + 1])
    /\ UNCHANGED <<msCache, childVars>>

\* In the background, which is the default: the resource goes at once.
ClientDeletes ==
    /\ Disrupt("delete") /\ ms.exists
    /\ WriteManagedService(NoManagedService(ms.uid))
    /\ UNCHANGED <<msCache, childVars>>

\* In the foreground: the resource stays, marked, until its children are gone.
ClientDeletesInForeground ==
    /\ Disrupt("delete in foreground") /\ ms.exists
    /\ ~ms.deleting
    /\ WriteManagedService([ms EXCEPT !.deleting = TRUE, !.generation = @ + 1])
    /\ UNCHANGED <<msCache, childVars>>

-----------------------------------------------------------------------------
(* Other writers of the children.                                          *)

ChildDrifts(k) ==
    /\ Disrupt("drift") /\ child[k].exists
    /\ WriteChild(k, [child[k] EXCEPT !.fields = DriftedFields])
    /\ UNCHANGED <<msVars, childCache>>

OwnerIsStripped(k) ==
    /\ Disrupt("strip")
    /\ Owned(child[k])
    /\ WriteChild(k, [child[k] EXCEPT !.controller = "none", !.owner = 0])
    /\ UNCHANGED <<msVars, childCache>>

ChildIsRemoved(k) ==
    /\ Disrupt("remove") /\ child[k].exists
    /\ WriteChild(k, NoChild)
    /\ UNCHANGED <<msVars, childCache>>

\* Somebody else creates an object of that name first.
NameIsOccupied(k, controller, selector) ==
    /\ Disrupt("occupy") /\ ~child[k].exists
    /\ k \notin scenario.refused
    /\ k = "Service" => selector
    /\ WriteChild(k, [exists |-> TRUE, controller |-> controller, owner |-> 0,
                      fields |-> DriftedFields, selector |-> selector,
                      ready |-> 0])
    /\ UNCHANGED <<msVars, childCache>>

PodsBecomeUnready ==
    /\ Disrupt("unready") /\ child["Deployment"].ready > 0
    /\ WriteChild("Deployment", [child["Deployment"] EXCEPT !.ready = 0])
    /\ UNCHANGED <<msVars, childCache>>

-----------------------------------------------------------------------------
(* Kubernetes' own controllers.                                            *)

\* The Deployment controller brings the pods up.
Rollout ==
    /\ child["Deployment"].exists
    /\ child["Deployment"].ready # child["Deployment"].fields.replicas
    /\ WriteChild("Deployment",
                  [child["Deployment"] EXCEPT !.ready = child["Deployment"].fields.replicas])
    /\ UNCHANGED <<msVars, childCache, scenario>>

\* The garbage collector removes a child whose owner's UID is gone, or is
\* being deleted in the foreground.
GarbageCollect(k) ==
    /\ Owned(child[k])
    /\ ~(ms.exists /\ ms.uid = child[k].owner) \/ ms.deleting
    /\ WriteChild(k, NoChild)
    /\ UNCHANGED <<msVars, childCache, scenario>>

\* It removes the resource itself once nothing that it owns is left: the
\* controller references block its deletion.
DeletionEnds ==
    /\ ms.deleting
    /\ \A k \in ChildKinds : ~(Owned(child[k]) /\ child[k].owner = ms.uid)
    /\ WriteManagedService(NoManagedService(ms.uid))
    /\ UNCHANGED <<msCache, childVars, scenario>>

ClusterNext ==
    \/ \E spec \in SpecValues : ClientCreates(spec) \/ ClientUpdates(spec)
    \/ ClientDeletes
    \/ ClientDeletesInForeground
    \/ DeletionEnds
    \/ \E k \in ChildKinds :
         \/ ChildDrifts(k)
         \/ OwnerIsStripped(k)
         \/ ChildIsRemoved(k)
         \/ \E controller \in {"none", "other"}, selector \in BOOLEAN :
              NameIsOccupied(k, controller, selector)
         \/ GarbageCollect(k)
    \/ PodsBecomeUnready
    \/ Rollout

ClusterInit ==
    /\ ms = NoManagedService(0) /\ msWatch = <<>>
    /\ msCache = NoManagedService(0)
    /\ child = [k \in ChildKinds |-> NoChild]
    /\ childWatch = [k \in ChildKinds |-> <<>>]
    /\ childCache = [k \in ChildKinds |-> NoChild]
    /\ current = [k \in ChildKinds |-> FALSE] /\ scenario \in Scenarios

ClusterTypeOK ==
    /\ ms \in ManagedServices
    /\ msWatch \in Seq(ManagedServices)
    /\ msCache \in ManagedServices
    /\ child \in [ChildKinds -> Children]
    /\ childWatch \in [ChildKinds -> Seq(Children)]
    /\ childCache \in [ChildKinds -> Children]
    /\ current \in [ChildKinds -> BOOLEAN]
    /\ scenario \in ScenarioValues

=============================================================================
