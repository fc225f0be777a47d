-------------------------- MODULE ControlPlaneAPI ---------------------------
(***************************************************************************)
(* The control-plane API (internal/controlplaneapi) behind its telemetry   *)
(* middleware (internal/telemetry): concurrent HTTP requests that are      *)
(* authenticated, routed and validated, and that reach Kubernetes through  *)
(* the store.                                                              *)
(*                                                                         *)
(* A request is abstracted to what the handler tells apart: the route its  *)
(* path falls under, its method, whether it carries the token, whether it  *)
(* has a query, the name in it, and its body.                              *)
(***************************************************************************)
EXTENDS Integers, Sequences, FiniteSets, Bags

CONSTANTS
    Clients,        \* requests that are handled at the same time
    Names,          \* names that occur in requests
    ValidNames,     \* those that are DNS-1123 labels
    Loads           \* loads of the server, one of which Init chooses: the
                    \* requests that may be sent as the first, the second ...

\* "item" is a path with a name under the collection, "nested" one with an
\* empty name or with a slash in it; "//api/v1" and "/api/v1//" stand for paths
\* that are not clean, outside and inside of the protected prefix.
Paths == {"/healthz", "/readyz", "/api/v1", "/api/v1/other", "collection",
          "item", "nested", "/other", "//api/v1", "/api/v1//"}

Methods == {"GET", "POST", "DELETE", "PUT", "BREW"}

\* How the JSON body decodes: fully, not at all (or with trailing data or
\* unknown fields), or past the limit of 4 KiB.
Decodings == {"ok", "malformed", "too large"}

\* NoReplicas is a body without replicas.
NoReplicas == -1

RequestValues ==
    [path : Paths, method : Methods, token : BOOLEAN, query : BOOLEAN,
     name : Names, decoding : Decodings, replicas : Int, messageLength : Nat]

ASSUME APIAssumption ==
    ValidNames \subseteq Names /\ Loads \in Seq(Seq(SUBSET RequestValues))

\* The requests of a load, and of all of them.
RequestsOf(i) == UNION {Loads[i][j] : j \in DOMAIN Loads[i]}

Requests == UNION {RequestsOf(i) : i \in DOMAIN Loads}

NoService == [replicas |-> 0, messageLength |-> 0]

\* What a client that waits for no answer has sent.
NoRequest == [path |-> "none"]

VARIABLES
    store,       \* the ManagedServices of the applications namespace
    request,     \* the request of each client
    pc,          \* where its handler is
    status,      \* the status code it answers
    seen,        \* the services in the body of the answer
    inFlight,    \* http_server_requests_in_flight
    total,       \* http_server_requests_total
    durations,   \* the count of http_server_request_duration_seconds
    load,        \* which load it is
    sent         \* requests that have entered the middleware so far

vars == <<store, request, pc, status, seen, inFlight, total, durations, load,
          sent>>

-----------------------------------------------------------------------------
(* Telemetry labels.                                                       *)

normalizedMethod(method) == IF method = "BREW" THEN "OTHER" ELSE method

NormalizeRoute(r) ==
    CASE r.path \in {"/healthz", "/readyz", "/api/v1"} -> r.path
      [] r.path = "collection" -> "/api/v1/managed-services"
      [] r.path = "item" -> "/api/v1/managed-services/{name}"
      [] OTHER -> "unknown"

Label(r) == <<normalizedMethod(r.method), NormalizeRoute(r)>>

Labels == {Label(r) : r \in RequestsOf(load)}

StatusClasses == {"2xx", "3xx", "4xx", "5xx"}

statusClass(code) ==
    CASE code \in 200..299 -> "2xx"
      [] code \in 300..399 -> "3xx"
      [] code \in 400..499 -> "4xx"
      [] code \in 500..599 -> "5xx"

-----------------------------------------------------------------------------
(* The handler: a request is answered at once, or becomes a call to the    *)
(* store.                                                                  *)

AnswerWith(code) == [op |-> "answer", status |-> code]

Call(op) == [op |-> op, status |-> 0]

isProtectedPath(path) ==
    path \in {"/api/v1", "/api/v1/other", "/api/v1//", "collection", "item",
              "nested"}

requestedReplicas(r) == IF r.replicas = NoReplicas THEN 1 ELSE r.replicas

validManagedServiceName(name) == name \in ValidNames

validCreateRequest(r) ==
    /\ validManagedServiceName(r.name) /\ requestedReplicas(r) \in 1..3
    /\ r.messageLength <= 120

createManagedService(r) ==
    CASE r.decoding = "too large" -> AnswerWith(413)
      [] r.decoding = "malformed" -> AnswerWith(400)
      [] r.decoding = "ok" /\ ~validCreateRequest(r) -> AnswerWith(400)
      [] OTHER -> Call("create")

serveManagedServiceCollection(r) ==
    CASE r.query -> AnswerWith(400)
      [] ~r.query /\ r.method = "GET" -> Call("list")
      [] ~r.query /\ r.method = "POST" -> createManagedService(r)
      [] OTHER -> AnswerWith(405)

serveManagedService(r) ==
    LET valid == r.path = "item" /\ validManagedServiceName(r.name)
    IN CASE r.query \/ ~valid -> AnswerWith(400)
         [] ~r.query /\ valid /\ r.method = "GET" -> Call("get")
         [] ~r.query /\ valid /\ r.method = "DELETE" -> Call("delete")
         [] OTHER -> AnswerWith(405)

getOnly(r, next) == IF r.method = "GET" THEN next ELSE AnswerWith(405)

\* http.ServeMux redirects a path that is not clean to the clean one.
router(r) ==
    CASE r.path \in {"//api/v1", "/api/v1//"} -> AnswerWith(307)
      [] r.path \in {"/healthz", "/api/v1"} -> getOnly(r, AnswerWith(200))
      [] r.path = "/readyz" -> getOnly(r, Call("ready"))
      [] r.path = "collection" -> serveManagedServiceCollection(r)
      [] r.path \in {"item", "nested"} -> serveManagedService(r)
      [] OTHER -> AnswerWith(404)

ServeHTTP(r) ==
    IF isProtectedPath(r.path) /\ ~r.token THEN AnswerWith(401) ELSE router(r)

-----------------------------------------------------------------------------
(* The store and the server behind it.                                     *)

\* What the CRD's schema accepts.
CRDAccepts(r) == requestedReplicas(r) \in 1..3 /\ r.messageLength <= 120

\* The replicas of the body, whether or not it has any.
ForgetsDefaultReplicas(r) ==
    [replicas |-> r.replicas, messageLength |-> r.messageLength]

SpecOf(r) ==
    [replicas |-> requestedReplicas(r), messageLength |-> r.messageLength]

\* Create as an upsert: a name that is taken is overwritten.
Upserts(op, r) ==
    CASE op = "create" -> [store EXCEPT ![r.name] = SpecOf(r)]
      [] op = "delete" -> [store EXCEPT ![r.name] = NoService]
      [] OTHER -> store

\* The namespace after the call.
storeAfter(op, r) ==
    CASE op = "create" /\ store[r.name] = NoService ->
           [store EXCEPT ![r.name] = SpecOf(r)]
      [] op = "delete" -> [store EXCEPT ![r.name] = NoService]
      [] OTHER -> store

\* The status code of a call that succeeds, or that Kubernetes refuses with
\* AlreadyExists or NotFound.
statusOf(op, r) ==
    LET taken == store[r.name] # NoService
    IN CASE op = "create" -> IF taken THEN 409 ELSE 201
         [] op = "get" -> IF taken THEN 200 ELSE 404
         [] op = "delete" -> IF taken THEN 204 ELSE 404
         [] op \in {"list", "ready"} -> 200

\* The services that the body of that answer shows.
bodyOf(op, r) ==
    CASE op = "create" /\ store[r.name] = NoService -> {SpecOf(r)}
      [] op = "get" -> {store[r.name]} \ {NoService}
      [] op = "list" -> {store[n] : n \in Names} \ {NoService}
      [] OTHER -> {}

StoreCalls == {"create", "list", "get", "delete", "ready"}

\* Where a request is once its handler has returned or panicked.
Ended == {"answered", "panicked", "uncounted", "unobserved"}

\* Any other error of the call.
errorStatus(op) == IF op = "ready" THEN 503 ELSE 500

-----------------------------------------------------------------------------
(* A request's way through the server.                                     *)

\* The request arrives; the middleware counts it in.  (requestID cannot fail:
\* crypto/rand.Read returns no error.)
Arrive(c, r) ==
    /\ pc[c] = "idle" /\ sent < Len(Loads[load])
    /\ r \in Loads[load][sent + 1]
    /\ sent' = sent + 1
    /\ request' = [request EXCEPT ![c] = r]
    /\ inFlight' = [inFlight EXCEPT ![Label(r)] = @ + 1]
    /\ pc' = [pc EXCEPT ![c] = "routing"]
    /\ UNCHANGED <<store, status, seen, total, durations, load>>

Route(c) ==
    /\ pc[c] = "routing"
    /\ LET next == ServeHTTP(request[c])
       IN IF next.op = "answer"
          THEN /\ pc' = [pc EXCEPT ![c] = "answered"]
               /\ status' = [status EXCEPT ![c] = next.status]
          ELSE /\ pc' = [pc EXCEPT ![c] = next.op]
               /\ UNCHANGED status
    /\ UNCHANGED <<store, request, seen, inFlight, total, durations, load, sent>>

\* The server carries out the call and the answer arrives.
StoreCall(c) ==
    /\ pc[c] \in StoreCalls
    /\ pc[c] = "create" => CRDAccepts(request[c])
    /\ store' = storeAfter(pc[c], request[c])
    /\ status' = [status EXCEPT ![c] = statusOf(pc[c], request[c])]
    /\ seen' = [seen EXCEPT ![c] = bodyOf(pc[c], request[c])]
    /\ pc' = [pc EXCEPT ![c] = "answered"]
    /\ UNCHANGED <<request, inFlight, total, durations, load, sent>>

StoreCallError(c) ==
    /\ pc[c] \in StoreCalls
    /\ status' = [status EXCEPT ![c] = errorStatus(pc[c])]
    /\ pc' = [pc EXCEPT ![c] = "answered"]
    /\ UNCHANGED <<request, seen, inFlight, total, durations, load, sent>>

\* The call fails before it takes effect: the server is away, the request's
\* context ends, or the schema refuses the object.
StoreCallFails(c) ==
    /\ StoreCallError(c)
    /\ UNCHANGED store

\* The call takes effect and its answer is lost.
StoreAnswerLost(c) ==
    /\ StoreCallError(c)
    /\ pc[c] = "create" => CRDAccepts(request[c])
    /\ store' = storeAfter(pc[c], request[c])

\* The handler panics, before or after its call took effect, and has written
\* nothing: net/http recovers and closes the connection without an answer.
Panic(c) ==
    /\ pc[c] \in {"routing"} \cup StoreCalls
    /\ \/ UNCHANGED store
       \/ /\ pc[c] \in StoreCalls
          /\ pc[c] = "create" => CRDAccepts(request[c])
          /\ store' = storeAfter(pc[c], request[c])
    /\ pc' = [pc EXCEPT ![c] = "panicked"]
    /\ UNCHANGED <<request, status, seen, inFlight, total, durations, load, sent>>

\* The status code that the response recorder reports: 200 when none was
\* written.
statusCode(code) == IF code = 0 THEN 200 ELSE code

\* The labels under which the request is counted.
Key(c) == <<Label(request[c]), statusClass(statusCode(status[c]))>>

\* The gauge goes down on success only.
LowersOnSuccess(c) ==
    /\ pc[c] \in {"answered", "panicked"}
    /\ inFlight' = [inFlight EXCEPT ![Label(request[c])] =
                      IF status[c] < 500 THEN @ - 1 ELSE @]
    /\ pc' = [pc EXCEPT ![c] = "uncounted"]
    /\ UNCHANGED <<store, request, status, seen, total, durations, load, sent>>

\* The handler has returned, or panicked, and the deferred function of the
\* middleware calls requestFinished, which changes three metrics one after the
\* other, each atomically: first the request is no longer in flight ...
LowerInFlight(c) ==
    /\ pc[c] \in {"answered", "panicked"}
    /\ inFlight' = [inFlight EXCEPT ![Label(request[c])] = @ - 1]
    /\ pc' = [pc EXCEPT ![c] = "uncounted"]
    /\ UNCHANGED <<store, request, status, seen, total, durations, load, sent>>

\* ... then it is counted under the class of its answer ...
CountRequest(c) ==
    /\ pc[c] = "uncounted"
    /\ total' = total (+) SetToBag({Key(c)})
    /\ pc' = [pc EXCEPT ![c] = "unobserved"]
    /\ UNCHANGED <<store, request, status, seen, inFlight, durations, load, sent>>

\* ... and its duration is observed, after which the connection is free.
ObserveDuration(c) ==
    /\ pc[c] = "unobserved"
    /\ durations' = durations (+) SetToBag({Key(c)})
    /\ pc' = [pc EXCEPT ![c] = "idle"]
    /\ status' = [status EXCEPT ![c] = 0]
    /\ seen' = [seen EXCEPT ![c] = {}]
    /\ request' = [request EXCEPT ![c] = NoRequest]
    /\ UNCHANGED <<store, inFlight, total, load, sent>>

Init ==
    /\ load \in DOMAIN Loads /\ sent = 0
    /\ store = [n \in Names |-> NoService]
    /\ request = [c \in Clients |-> NoRequest]
    /\ pc = [c \in Clients |-> "idle"] /\ status = [c \in Clients |-> 0]
    /\ seen = [c \in Clients |-> {}] /\ inFlight = [l \in Labels |-> 0]
    /\ total = EmptyBag /\ durations = EmptyBag

Next ==
    \E c \in Clients :
      \/ \E r \in RequestsOf(load) : Arrive(c, r)
      \/ Route(c)
      \/ StoreCall(c)
      \/ StoreCallFails(c)
      \/ StoreAnswerLost(c)
      \/ Panic(c)
      \/ LowerInFlight(c)
      \/ CountRequest(c)
      \/ ObserveDuration(c)

Spec == Init /\ [][Next]_vars

-----------------------------------------------------------------------------
(* Properties.                                                             *)

\* Every variable has its type: in particular only services within the CRD's
\* limits, with their default replicas filled in, are stored and shown, and
\* every status code is one the handler writes.
TypeOK ==
    /\ store \in [Names -> {NoService} \cup
                     [replicas : 1..3, messageLength : 0..120]]
    /\ request \in [Clients -> RequestsOf(load) \cup {NoRequest}]
    /\ pc \in [Clients -> {"idle", "routing"} \cup StoreCalls \cup Ended]
    /\ status \in [Clients -> {0, 200, 201, 204, 307, 400, 401, 404, 405, 409, 413,
                              500, 503}]
    /\ seen \in [Clients -> SUBSET [replicas : 1..3, messageLength : 0..120]]
    /\ inFlight \in [Labels -> Nat]
    /\ IsABag(total) /\ IsABag(durations)
    /\ BagToSet(total) \cup BagToSet(durations) \subseteq Labels \X StatusClasses
    /\ load \in DOMAIN Loads /\ sent \in 0..Len(Loads[load])

\* The value of a counter, 0 before its first request.
Copies(key, bag) == IF key \in BagToSet(bag) THEN bag[key] ELSE 0

\* What the counters have counted: as many entries under a key as it says.
Counted == UNION {{key} \X (1..total[key]) : key \in BagToSet(total)}

\* The metrics of NewHTTPHandler account for every request at every moment a
\* scrape may choose, also for one whose handler panics: each label's gauge is
\* the number of its requests that requestFinished has not yet lowered; the
\* requests ever counted and those still to be counted are all that entered; the
\* histogram and the counter of a label differ by the requests between the two.
MetricsAccountForRequests ==
    /\ \A l \in Labels :
         inFlight[l] = Cardinality({c \in Clients :
                         /\ pc[c] \notin {"idle", "uncounted", "unobserved"}
                         /\ Label(request[c]) = l})
    /\ sent = Cardinality(Counted)
                + Cardinality({c \in Clients : pc[c] \notin {"idle", "unobserved"}})
    /\ \A key \in Labels \X StatusClasses :
         Copies(key, total) =
           Copies(key, durations)
             + Cardinality({c \in Clients : pc[c] = "unobserved" /\ Key(c) = key})

\* What a request asks of the registry, said without the handler: an
\* authorised request without a query whose name is valid, and, to create, a
\* body that decodes to an object the CRD accepts.
RegistryOp(r) ==
    LET plain == r.token /\ ~r.query
        named == plain /\ r.name \in ValidNames
    IN CASE /\ named
            /\ r.path = "collection" /\ r.method = "POST"
            /\ r.decoding = "ok" /\ CRDAccepts(r) -> "create"
         [] plain /\ r.path = "collection" /\ r.method = "GET" -> "list"
         [] named /\ r.path = "item" /\ r.method = "GET" -> "get"
         [] named /\ r.path = "item" /\ r.method = "DELETE" -> "delete"
         [] OTHER -> "none"

RegistryName(r) == r.name

RegistryPhase(c) ==
    CASE pc[c] = "idle" -> "idle"
      [] pc[c] \in Ended -> "answered"
      [] OTHER -> "pending"

RegistryAnswer(c) ==
    LET forRegistry == RegistryOp(request[c]) # "none"
        what == CASE status[c] = 0 /\ pc[c] \notin Ended -> "none"
                  [] status[c] = 0 /\ pc[c] \in Ended ->    \* a panic
                       IF forRegistry THEN "unknown" ELSE "declined"
                  [] status[c] = 201 -> "created"
                  [] status[c] = 409 -> "exists"
                  [] status[c] = 204 -> "deleted"
                  [] status[c] = 500 -> "unknown"
                  [] status[c] = 200 /\ forRegistry -> "found"
                  [] status[c] = 404 /\ forRegistry -> "missing"
                  [] OTHER -> "declined"
    IN [what |-> what, seen |-> seen[c]]

R == INSTANCE Registry WITH
       services <- store,
       pending <- request,
       phase <- [c \in Clients |-> RegistryPhase(c)],
       answer <- [c \in Clients |-> RegistryAnswer(c)],
       Op <- RegistryOp,
       NameOf <- RegistryName,
       SpecOf <- SpecOf,
       NoService <- NoService,
       NoRequest <- NoRequest

\* The API is a registry: every request that ServeHTTP lets through takes
\* effect at most once, at one moment, and its status code and body say what
\* happened then; only a 500, or a connection closed by a panic, leaves it open;
\* no other request changes or shows a service.
ImplementsRegistry == R!Spec

=============================================================================
