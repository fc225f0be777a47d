----------------------------- MODULE MCProcess ------------------------------
(***************************************************************************)
(* Instances of Process for TLC.  A Tick is 5 seconds: both shutdowns may  *)
(* take 2, the grace period is 6 for control-plane-api and 2 for           *)
(* demo-http.                                                              *)
(***************************************************************************)
EXTENDS Process

ServiceName == [length |-> 9, safe |-> TRUE]

Collector ==
    [length |-> 26, parses |-> TRUE, host |-> TRUE, scheme |-> "http",
     user |-> FALSE, query |-> FALSE, fragment |-> FALSE]

\* control-plane-api as the manifests deploy it, with traces exported.
Deployed ==
    [program |-> "control-plane-api", gracePeriod |-> 6,
     tokenFile |-> <<"x", "x", "\n">>, port |-> 8080, metricsPort |-> 9090,
     kubeconfig |-> TRUE,
     trace |-> [endpoint |-> Collector, serviceName |-> ServiceName]]

\* One variable after the other wrong, or left out.
EnvironmentsOfAPI ==
    {Deployed,
     [Deployed EXCEPT !.tokenFile = <<>>],
     [Deployed EXCEPT !.tokenFile = <<"x", "\n", "x">>],
     [Deployed EXCEPT !.port = Unset, !.metricsPort = Unset],
     [Deployed EXCEPT !.port = NotANumber],
     [Deployed EXCEPT !.port = 65536],
     [Deployed EXCEPT !.metricsPort = 8080],
     [Deployed EXCEPT !.port = 9090, !.metricsPort = Unset],
     [Deployed EXCEPT !.kubeconfig = FALSE],
     [Deployed EXCEPT !.trace.endpoint = NoEndpoint],
     [Deployed EXCEPT !.trace.endpoint.user = TRUE],
     [Deployed EXCEPT !.trace.serviceName.length = 0],
     [Deployed EXCEPT !.trace.serviceName.safe = FALSE]}

\* The same of demo-http, which reads no token and no kubeconfig.
DemoHTTP(e) == [e EXCEPT !.program = "demo-http", !.gracePeriod = 2]

AllEnvironments ==
    EnvironmentsOfAPI \cup {DemoHTTP(e) : e \in EnvironmentsOfAPI}

\* demo-http as the operator's Pod template starts it.
ManagedEnvironment ==
    {DemoHTTP([Deployed EXCEPT !.port = Unset, !.trace.endpoint = NoEndpoint])}

=============================================================================
