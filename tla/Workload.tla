------------------------------ MODULE Workload ------------------------------
(***************************************************************************)
(* What a ManagedService is for: the Pods of the Deployment, demo-http in  *)
(* them, and the Service in front of them, composed with the operator that *)
(* makes both.  Operator's Rollout, which reports all replicas ready at    *)
(* once, is replaced here by the Pods themselves.                          *)
(*                                                                         *)
(* The Deployment controller, the kubelet and the endpoints of a Service   *)
(* are Kubernetes'; the Pod template, the probes, the ports and the        *)
(* handler are the repository's.                                           *)
(***************************************************************************)
EXTENDS Operator, Config, FiniteSetsExt

CONSTANT
    Spelling      \* the characters of each message

\* Of the characters only "$" is special.  Messages that hold "$(", which
\* Kubernetes may take for a reference to another variable, are left out.
ASSUME SpellingAssumption ==
    /\ DOMAIN Spelling = Messages /\ Spelling[""] = <<>>
    /\ \A m \in Messages : Spelling[m] \in Seq({"$", "a", "b"})

VARIABLE pods     \* the Pods of the Deployment

workloadVars == <<vars, pods>>

-----------------------------------------------------------------------------
(* The Pod template and the Service.                                       *)

\* The ports that the container declares, by name.
containerPort ==
    [name \in {"http", "metrics"} |-> IF name = "http" THEN 8080 ELSE 9090]

\* The labels, by their keys, and the selector of Deployment and Service: its
\* values are the resource's own in both.
managedServiceSelector == {"name", "instance"}
managedServiceLabels == managedServiceSelector \cup {"managed-by", "template"}
managedServicePodLabels == managedServiceLabels \cup {"otlp-client"}

\* The environment of the container: PORT is not in it.
EnvOf(fields) ==
    [MESSAGE |-> fields.message, METRICS_PORT |-> 9090, PORT |-> Unset]

managedServiceHTTPProbe(path) == [path |-> path, port |-> "http"]

ReadinessProbe == managedServiceHTTPProbe("/readyz")

\* The target of the Service's port 80, by name.
TargetPort == "http"

\* The kubelet's expansion of a variable's value: "$$" is an escaped "$".
Expand(s) ==
    LET from[i \in 1..(Len(s) + 2)] ==
          IF i > Len(s) THEN <<>>
          ELSE IF s[i] = "$" /\ i < Len(s) /\ s[i + 1] = "$"
               THEN <<"$">> \o from[i + 2]
               ELSE <<s[i]>> \o from[i + 1]
    IN from[1]

-----------------------------------------------------------------------------
(* demo-http, in a Pod with this environment.                              *)

Ports(env) ==
    LET port == ParsePort(env.PORT)
    IN [public |-> port, metrics |-> ParseMetricsPort(env.METRICS_PORT, port)]

Starts(env) == NoPort \notin Range(Ports(env))

DefaultMessage == <<"default">>

\* The message that GET / answers.
NewHandler(message) == IF message = <<>> THEN DefaultMessage ELSE message

Routes == {"/", "/healthz", "/readyz"}

\* An HTTP GET of a path on a port of the Pod.
Answers(env, port, path) ==
    /\ Starts(env) /\ port = Ports(env).public
    /\ path \in Routes

-----------------------------------------------------------------------------
(* The Deployment controller: a rolling update with the default            *)
(* maxUnavailable and maxSurge of 25%, which for three replicas at most is *)
(* 0 and 1.                                                                *)

deployment == child["Deployment"]

Template == [deployment.fields EXCEPT !.replicas = 0]

UpToDate == {p \in pods : p.template = Template}

Ready == {p \in pods : p.ready}

\* Pods take the smallest free number.
FreeNumber == CHOOSE n \in 1..(Cardinality(pods) + 1) :
                /\ n \notin {p.number : p \in pods}
                /\ \A m \in 1..(n - 1) : m \in {p.number : p \in pods}

CreatePod ==
    /\ deployment.exists
    /\ Cardinality(UpToDate) < deployment.fields.replicas
    /\ Cardinality(pods) < deployment.fields.replicas + 1
    /\ pods' = pods \cup
         {[number |-> FreeNumber, template |-> Template, ready |-> FALSE]}
    /\ UNCHANGED vars

\* An outdated or surplus Pod goes when that leaves enough ready ones.
RemovePod(p) ==
    /\ ~deployment.exists
       \/ /\ p \notin UpToDate \/ Cardinality(UpToDate) > deployment.fields.replicas
          /\ p.ready => Cardinality(Ready) > deployment.fields.replicas
    /\ pods' = pods \ {p}
    /\ UNCHANGED vars

\* The kubelet starts demo-http and its readiness probe succeeds.
PodBecomesReady(p) ==
    /\ ~p.ready
    /\ Answers(EnvOf(p.template), containerPort[ReadinessProbe.port],
               ReadinessProbe.path)
    /\ pods' = (pods \ {p}) \cup {[p EXCEPT !.ready = TRUE]}
    /\ UNCHANGED vars

\* The container stops and is started again.
PodFails(p) ==
    /\ Disrupt("unready") /\ p.ready
    /\ pods' = (pods \ {p}) \cup {[p EXCEPT !.ready = FALSE]}
    /\ UNCHANGED <<msVars, childVars, operatorVars>>

\* The Deployment's status follows its Pods.
ReportReady ==
    /\ deployment.exists /\ deployment.ready # Cardinality(Ready)
    /\ WriteChild("Deployment",
                  [deployment EXCEPT !.ready = Cardinality(Ready)])
    /\ UNCHANGED <<msVars, childCache, scenario, operatorVars, pods>>

-----------------------------------------------------------------------------
Clients ==
    /\ \/ \E spec \in SpecValues : ClientCreates(spec) \/ ClientUpdates(spec)
       \/ ClientDeletes
    /\ UNCHANGED <<operatorVars, pods>>

Collect(k) == GarbageCollect(k) /\ UNCHANGED <<operatorVars, pods>>

OperatorStep ==
    /\ Work \/ Deliver \/ \E image \in Images : Restart(image)
    /\ UNCHANGED pods

PodStep ==
    \/ CreatePod
    \/ \E p \in pods : RemovePod(p)
    \/ \E p \in pods : PodBecomesReady(p)
    \/ ReportReady

WorkloadNext ==
    \/ OperatorStep
    \/ Clients
    \/ \E k \in ChildKinds : Collect(k)
    \/ PodStep
    \/ \E p \in pods : PodFails(p)

\* The operator's fairness, and that of Kubernetes' controllers.
WorkloadSpec ==
    /\ Init /\ pods = {}
    /\ [][WorkloadNext]_workloadVars
    /\ WF_workloadVars(Work /\ UNCHANGED pods)
    /\ WF_workloadVars(DeliverManagedService /\ UNCHANGED pods)
    /\ \A k \in ChildKinds :
         /\ WF_workloadVars(DeliverChild(k) /\ UNCHANGED pods)
         /\ WF_workloadVars(Collect(k))
    /\ WF_workloadVars(CreatePod)
    /\ WF_workloadVars(\E p \in pods : RemovePod(p))
    /\ WF_workloadVars(\E p \in pods : PodBecomesReady(p))
    /\ WF_workloadVars(ReportReady)

-----------------------------------------------------------------------------
(* Properties.                                                             *)

\* The message that a request to the endpoint in the status gets from a Pod.
Served(p) == NewHandler(Expand(Spelling[p.template.message]))

\* The Pods behind the Service that answer such a request.
ServingPods ==
    {p \in Ready : /\ child["Service"].exists
                   /\ managedServiceSelector \subseteq managedServicePodLabels
                   /\ Answers(EnvOf(p.template), containerPort[TargetPort], "/")}

Wanted ==
    IF Spelling[ms.spec.message] = <<>> THEN DefaultMessage
                                        ELSE Spelling[ms.spec.message]

\* Once the disruptions end, an existing resource reports Available and as
\* many Pods as it asks for answer at its endpoint, all of them with its
\* message: through the spec, the Pod template, the container's environment,
\* the named ports, the probe and the handler of demo-http.
EventuallyServes ==
    <>[](ms.exists /\ validateImmutableImage(demoHTTPImage) =>
           /\ ms.status.conditions["Available"].status = "True"
           /\ Cardinality(ServingPods) = desiredReplicas(ms)
           /\ \A p \in ServingPods : Served(p) = Wanted)

=============================================================================
