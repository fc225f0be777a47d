----------------------------- MODULE APIProofs ------------------------------
(***************************************************************************)
(* Safety of the control-plane API, for every set of clients and of names  *)
(* and every load, and the proof that it implements the registry.          *)
(***************************************************************************)
EXTENDS ControlPlaneAPI, FiniteSetTheorems, TLAPS

-----------------------------------------------------------------------------
(* The inductive invariant.                                                *)

Busy == {c \in Clients : pc[c] # "idle"}

\* Requests that the gauge of a label counts, that the counter does not count
\* yet, and that the counter counts under a key and the histogram does not.
InFlight(l) == {c \in Clients : /\ pc[c] \notin {"idle", "uncounted", "unobserved"}
                                /\ Label(request[c]) = l}

Uncounted == {c \in Clients : pc[c] \notin {"idle", "unobserved"}}

Unobserved(key) == {c \in Clients : pc[c] = "unobserved" /\ Key(c) = key}

\* The three conjuncts of MetricsAccountForRequests.
GaugesExact == \A l \in Labels : inFlight[l] = Cardinality(InFlight(l))

CounterComplete == sent = Cardinality(Counted) + Cardinality(Uncounted)

HistogramFollows ==
    \A key \in Labels \X StatusClasses :
      Copies(key, total) =
        Copies(key, durations) + Cardinality(Unobserved(key))

\* What is known of a request from where its handler is: it calls the store
\* only as ServeHTTP decided, and until the handler ends it has shown nothing.
RequestOK(c) ==
    /\ pc[c] # "idle" => request[c] \in RequestsOf(load)
    /\ pc[c] \in StoreCalls => ServeHTTP(request[c]) = Call(pc[c])
    /\ pc[c] \notin Ended => status[c] = 0 /\ seen[c] = {}

Inv ==
    /\ TypeOK
    /\ \A c \in Clients : RequestOK(c)
    /\ IsFiniteSet(Busy) /\ IsFiniteSet(Counted)
    /\ GaugesExact /\ CounterComplete /\ HistogramFollows

-----------------------------------------------------------------------------
(* What the handler decides.                                               *)

LEMMA RequestTypes ==
    ASSUME load \in DOMAIN Loads, NEW r \in RequestsOf(load)
    PROVE  r \in RequestValues /\ r \in Requests
<1>1. PICK j \in DOMAIN Loads[load] : r \in Loads[load][j]
  BY DEF RequestsOf
<1>2. Loads[load] \in Seq(SUBSET RequestValues)
  BY APIAssumption
<1>3. Loads[load][j] \in SUBSET RequestValues
  BY <1>1, <1>2
<1> QED
  BY <1>1, <1>3 DEF Requests

Answers == {200, 307, 400, 401, 404, 405, 413}

LEMMA ServeTypes ==
    ASSUME NEW r
    PROVE  \/ \E code \in Answers : ServeHTTP(r) = AnswerWith(code)
           \/ \E op \in StoreCalls : ServeHTTP(r) = Call(op)
<1> DEFINE OK(x) == \/ \E code \in Answers : x = AnswerWith(code)
                    \/ \E op \in StoreCalls : x = Call(op)
<1>1. OK(createManagedService(r))
  BY DEF createManagedService, Answers, StoreCalls
<1>2. OK(serveManagedServiceCollection(r))
  BY <1>1 DEF serveManagedServiceCollection, Answers, StoreCalls
<1>3. OK(serveManagedService(r))
  BY DEF serveManagedService, Answers, StoreCalls
<1>4. OK(router(r))
  BY <1>2, <1>3 DEF router, getOnly, Answers, StoreCalls
<1> QED
  BY <1>4 DEF ServeHTTP, Answers

\* What ServeHTTP lets through to the store is what the request, read without
\* the handler, asks of the registry.
LEMMA HandlerAgrees ==
    ASSUME NEW r \in RequestValues
    PROVE  /\ RegistryOp(r) \in {"create", "list", "get", "delete", "none"}
           /\ \A op \in {"create", "list", "get", "delete"} :
                ServeHTTP(r) = Call(op) <=> RegistryOp(r) = op
<1>1. /\ \A code : AnswerWith(code).op = "answer"
      /\ \A op : Call(op).op = op
  BY DEF AnswerWith, Call
<1>2. \A op \in StoreCalls : ServeHTTP(r) = Call(op) <=> ServeHTTP(r).op = op
  BY <1>1, ServeTypes DEF StoreCalls
<1>3. r.token \in BOOLEAN /\ r.query \in BOOLEAN /\ r.path \in Paths
      /\ r.decoding \in Decodings
  BY DEF RequestValues
<1>4. createManagedService(r).op =
        IF r.decoding = "ok" /\ r.name \in ValidNames /\ CRDAccepts(r)
        THEN "create" ELSE "answer"
  <2>1. validCreateRequest(r) <=> r.name \in ValidNames /\ CRDAccepts(r)
    BY DEF validCreateRequest, CRDAccepts, validManagedServiceName
  <2>2. CASE r.decoding = "too large"
    <3>1. createManagedService(r) = AnswerWith(413)
      BY <2>2 DEF createManagedService
    <3> QED
      BY <1>1, <2>2, <3>1
  <2>3. CASE r.decoding = "malformed"
    <3>1. createManagedService(r) = AnswerWith(400)
      BY <2>3 DEF createManagedService
    <3> QED
      BY <1>1, <2>3, <3>1
  <2>4. CASE r.decoding = "ok"
    <3>1. createManagedService(r) =
            IF validCreateRequest(r) THEN Call("create") ELSE AnswerWith(400)
      BY <2>4 DEF createManagedService
    <3> QED
      BY <1>1, <2>1, <2>4, <3>1
  <2> QED
    BY <1>3, <2>2, <2>3, <2>4 DEF Decodings
<1>5. serveManagedServiceCollection(r).op =
        IF r.query THEN "answer"
        ELSE IF r.method = "GET" THEN "list"
        ELSE IF r.method = "POST" THEN createManagedService(r).op ELSE "answer"
  BY <1>1, <1>3 DEF serveManagedServiceCollection
<1>6. serveManagedService(r).op =
        IF r.query \/ r.path # "item" \/ r.name \notin ValidNames THEN "answer"
        ELSE IF r.method = "GET" THEN "get"
        ELSE IF r.method = "DELETE" THEN "delete" ELSE "answer"
  BY <1>1, <1>3 DEF serveManagedService, validManagedServiceName
<1>7. CASE r.path = "collection"
  <2>1. ServeHTTP(r).op =
          IF r.token THEN serveManagedServiceCollection(r).op ELSE "answer"
    BY <1>1, <1>7 DEF ServeHTTP, isProtectedPath, router
  <2> QED
    BY <1>2, <1>3, <1>4, <1>5, <1>7, <2>1 DEF RegistryOp, StoreCalls
<1>8. CASE r.path \in {"item", "nested"}
  <2>1. ServeHTTP(r).op =
          IF r.token THEN serveManagedService(r).op ELSE "answer"
    BY <1>1, <1>8 DEF ServeHTTP, isProtectedPath, router
  <2> QED
    BY <1>2, <1>3, <1>6, <1>8, <2>1 DEF RegistryOp, StoreCalls
<1>9. CASE r.path \notin {"collection", "item", "nested"}
  <2>1. ServeHTTP(r).op \in {"answer", "ready"}
    BY <1>1, <1>9 DEF ServeHTTP, router, getOnly
  <2> QED
    BY <1>2, <1>9, <2>1 DEF RegistryOp, StoreCalls
<1> QED
  BY <1>7, <1>8, <1>9

-----------------------------------------------------------------------------
(* The store.                                                              *)

Services == [replicas : 1..3, messageLength : 0..120]

LEMMA SpecTypes ==
    ASSUME NEW r \in RequestValues, CRDAccepts(r)
    PROVE  SpecOf(r) \in Services /\ SpecOf(r) # NoService
  BY DEF SpecOf, CRDAccepts, requestedReplicas, RequestValues, Services,
         NoService

LEMMA StoreTypes ==
    ASSUME NEW r \in RequestValues, NEW op \in StoreCalls,
           op = "create" => CRDAccepts(r),
           store \in [Names -> {NoService} \cup Services]
    PROVE  /\ storeAfter(op, r) \in [Names -> {NoService} \cup Services]
           /\ statusOf(op, r) \in {200, 201, 204, 404, 409}
           /\ bodyOf(op, r) \in SUBSET Services
<1>1. r.name \in Names
  BY DEF RequestValues
<1>2. storeAfter(op, r) \in [Names -> {NoService} \cup Services]
  BY <1>1, SpecTypes DEF storeAfter
<1>3. statusOf(op, r) \in {200, 201, 204, 404, 409}
  BY DEF statusOf, StoreCalls
<1>4. bodyOf(op, r) \in SUBSET Services
  BY <1>1, SpecTypes DEF bodyOf
<1> QED
  BY <1>2, <1>3, <1>4

-----------------------------------------------------------------------------
(* Counting.                                                               *)

\* A bag has one more copy than another.
OneMore(key, bag, after) ==
    /\ IsABag(after) /\ BagToSet(after) = BagToSet(bag) \cup {key}
    /\ \A k : /\ Copies(k, bag) \in Nat
             /\ Copies(k, after) =
                  IF k = key THEN Copies(k, bag) + 1 ELSE Copies(k, bag)

LEMMA CopyAdded ==
    ASSUME NEW bag, IsABag(bag), NEW key
    PROVE  OneMore(key, bag, bag (+) SetToBag({key}))
<1> DEFINE after == bag (+) SetToBag({key})
<1>1. /\ DOMAIN after = DOMAIN bag \cup {key}
      /\ \A k \in DOMAIN bag : bag[k] \in Nat \ {0}
      /\ \A k \in DOMAIN bag : k # key => after[k] = bag[k]
      /\ after[key] = IF key \in DOMAIN bag THEN bag[key] + 1 ELSE 1
      /\ IsABag(after)
  BY DEF IsABag, (+), SetToBag
<1>2. \A k : k \in DOMAIN after <=> k \in DOMAIN bag \/ k = key
  BY <1>1
<1>3. ASSUME NEW k
      PROVE  /\ Copies(k, bag) \in Nat
             /\ Copies(k, after) =
                  IF k = key THEN Copies(k, bag) + 1 ELSE Copies(k, bag)
  <2>1. CASE k \in DOMAIN bag
    BY <1>1, <1>2, <2>1 DEF BagToSet, Copies
  <2>2. CASE k \notin DOMAIN bag
    BY <1>1, <1>2, <2>2 DEF BagToSet, Copies
  <2> QED
    BY <2>1, <2>2
<1> QED
  BY <1>1, <1>3 DEF BagToSet, OneMore

LEMMA AddedToCounted ==
    ASSUME NEW key, IsABag(total), total' = total (+) SetToBag({key}),
           IsFiniteSet(Counted)
    PROVE  /\ IsABag(total') /\ BagToSet(total') = BagToSet(total) \cup {key}
           /\ IsFiniteSet(Counted')
           /\ Cardinality(Counted') = Cardinality(Counted) + 1
<1>1. /\ DOMAIN total' = DOMAIN total \cup {key}
      /\ \A k \in DOMAIN total : total[k] \in Nat \ {0}
      /\ \A k \in DOMAIN total : k # key => total'[k] = total[k]
      /\ total'[key] = IF key \in DOMAIN total THEN total[key] + 1 ELSE 1
      /\ IsABag(total')
  BY DEF IsABag, (+), SetToBag
<1>2. /\ \A x : x \in Counted <=> \E k \in DOMAIN total : x \in {k} \X (1..total[k])
      /\ \A x : x \in Counted' <=> \E k \in DOMAIN total' : x \in {k} \X (1..total'[k])
  BY DEF Counted, BagToSet
<1>3. Counted' = Counted \cup {<<key, total'[key]>>}
  <2>1. ASSUME NEW x \in Counted' PROVE x \in Counted \cup {<<key, total'[key]>>}
    <3>1. PICK k \in DOMAIN total' : x \in {k} \X (1..total'[k])
      BY <1>2
    <3>2. PICK n \in 1..total'[k] : x = <<k, n>>
      BY <3>1
    <3>3. CASE k = key
      BY <1>1, <1>2, <3>2, <3>3
    <3>4. CASE k # key
      BY <1>1, <1>2, <3>1, <3>4
    <3> QED
      BY <3>3, <3>4
  <2>2. ASSUME NEW x \in Counted PROVE x \in Counted'
    <3>1. PICK k \in DOMAIN total : x \in {k} \X (1..total[k])
      BY <1>2
    <3>2. 1..total[k] \subseteq 1..total'[k]
      BY <1>1
    <3> QED
      BY <1>1, <1>2, <3>1, <3>2
  <2>3. <<key, total'[key]>> \in Counted'
    BY <1>1, <1>2
  <2> QED
    BY <2>1, <2>2, <2>3
<1>4. <<key, total'[key]>> \notin Counted
  BY <1>1, <1>2
<1> QED
  BY <1>1, <1>3, <1>4, FS_AddElement DEF BagToSet

\* All of these sets are finite.
LEMMA AllFinite ==
    ASSUME IsFiniteSet(Busy)
    PROVE  /\ IsFiniteSet(Uncounted) /\ Cardinality(Uncounted) \in Nat
           /\ \A l : IsFiniteSet(InFlight(l)) /\ Cardinality(InFlight(l)) \in Nat
           /\ \A k : IsFiniteSet(Unobserved(k)) /\ Cardinality(Unobserved(k)) \in Nat
<1>1. \A S : S \subseteq Busy => IsFiniteSet(S) /\ Cardinality(S) \in Nat
  BY FS_Subset, FS_CardinalityType
<1>2. /\ Uncounted \subseteq Busy
      /\ \A l : InFlight(l) \subseteq Busy
      /\ \A k : Unobserved(k) \subseteq Busy
  BY DEF Busy, Uncounted, InFlight, Unobserved
<1> QED
  BY <1>1, <1>2

\* A request moves on in its handler.
LEMMA NothingCounted ==
    ASSUME Inv, NEW c \in Clients, pc[c] \in {"routing"} \cup StoreCalls,
           NEW at \in StoreCalls \cup {"answered", "panicked"},
           pc' = [pc EXCEPT ![c] = at],
           \A d \in Clients \ {c} : status'[d] = status[d],
           UNCHANGED <<request, inFlight, total, durations, load, sent>>
    PROVE  /\ IsFiniteSet(Busy)' /\ IsFiniteSet(Counted)'
           /\ GaugesExact' /\ CounterComplete' /\ HistogramFollows'
<1>0. /\ at \notin {"idle", "uncounted", "unobserved"}
      /\ pc[c] \notin {"idle", "uncounted", "unobserved"}
  BY DEF StoreCalls
<1>1. /\ pc'[c] = at /\ \A d \in Clients \ {c} : pc'[d] = pc[d]
      /\ pc \in [Clients -> {"idle", "routing"} \cup StoreCalls \cup Ended]
  BY DEF Inv, TypeOK
<1>2. Busy' = Busy /\ Uncounted' = Uncounted /\ \A l : InFlight(l)' = InFlight(l)
  BY <1>0, <1>1 DEF Busy, Uncounted, InFlight
<1>3. \A k : Unobserved(k)' = Unobserved(k)
  BY <1>0, <1>1 DEF Unobserved, Key
<1>4. Counted' = Counted /\ Labels' = Labels
  BY DEF Counted, Labels
<1>5. GaugesExact' /\ CounterComplete' /\ HistogramFollows'
  BY <1>2, <1>3, <1>4 DEF Inv, GaugesExact, CounterComplete, HistogramFollows
<1> QED
  BY <1>2, <1>4, <1>5 DEF Inv

-----------------------------------------------------------------------------
(* The steps.                                                              *)

LEMMA InitInv == Init => Inv
<1> SUFFICES ASSUME Init PROVE Inv
  OBVIOUS
<1>1. /\ IsABag(total) /\ BagToSet(total) = {} /\ durations = total
      /\ BagToSet(durations) = {} /\ \A k : Copies(k, total) = 0
  BY DEF Init, EmptyBag, SetToBag, IsABag, BagToSet, Copies
<1>2. 0 \in 0..Len(Loads[load])
  BY APIAssumption DEF Init
<1>3. TypeOK
  BY <1>1, <1>2 DEF Init, TypeOK
<1>4. \A c \in Clients : RequestOK(c)
  BY DEF Init, RequestOK, StoreCalls
<1>5. /\ Busy = {} /\ Counted = {} /\ Uncounted = {}
      /\ \A l : InFlight(l) = {}
      /\ \A k : Unobserved(k) = {}
  BY <1>1 DEF Init, Busy, InFlight, Uncounted, Unobserved, Counted
<1>6. GaugesExact /\ CounterComplete /\ HistogramFollows
  <2>1. Cardinality({}) = 0
    BY FS_EmptySet
  <2>2. \A l \in Labels : inFlight[l] = 0
    BY DEF Init
  <2>3. sent = 0
    BY DEF Init
  <2> QED
    BY <1>1, <1>5, <2>1, <2>2, <2>3
       DEF GaugesExact, CounterComplete, HistogramFollows
<1> QED
  BY <1>3, <1>4, <1>5, <1>6, FS_EmptySet DEF Inv

LEMMA ArriveInv ==
    ASSUME Inv, NEW c \in Clients, NEW r \in RequestsOf(load), Arrive(c, r)
    PROVE  Inv'
<1>1. /\ pc[c] = "idle" /\ pc' = [pc EXCEPT ![c] = "routing"]
      /\ request' = [request EXCEPT ![c] = r]
      /\ inFlight' = [inFlight EXCEPT ![Label(r)] = @ + 1]
      /\ sent < Len(Loads[load]) /\ sent' = sent + 1
      /\ UNCHANGED <<store, status, seen, total, durations, load>>
  BY DEF Arrive
<1>2. Labels' = Labels /\ RequestsOf(load)' = RequestsOf(load) /\ Label(r) \in Labels
  BY <1>1 DEF Labels, RequestsOf
<1>3. TypeOK'
  <2>1. sent' \in 0..Len(Loads[load])
    BY <1>1, APIAssumption DEF Inv, TypeOK
  <2> QED
    BY <1>1, <1>2, <2>1 DEF Inv, TypeOK
<1>4. \A d \in Clients : RequestOK(d)'
  BY <1>1, <1>2 DEF Inv, TypeOK, RequestOK, StoreCalls, Ended
<1>5. /\ Busy' = Busy \cup {c} /\ c \notin Busy
      /\ Uncounted' = Uncounted \cup {c} /\ c \notin Uncounted
      /\ InFlight(Label(r))' = InFlight(Label(r)) \cup {c}
      /\ c \notin InFlight(Label(r))
      /\ \A l : l # Label(r) => InFlight(l)' = InFlight(l)
  BY <1>1 DEF Inv, TypeOK, Busy, Uncounted, InFlight
<1>6. Counted' = Counted /\ \A k : Unobserved(k)' = Unobserved(k)
  <2>1. /\ pc'[c] = "routing"
        /\ \A d \in Clients \ {c} : pc'[d] = pc[d] /\ request'[d] = request[d]
    BY <1>1 DEF Inv, TypeOK
  <2> QED
    BY <1>1, <2>1 DEF Counted, Unobserved, Key
<1>7. /\ IsFiniteSet(Busy')
      /\ Cardinality(Uncounted') = Cardinality(Uncounted) + 1
  BY <1>5, AllFinite, FS_AddElement DEF Inv
<1>8. GaugesExact'
  <2> SUFFICES ASSUME NEW l \in Labels
               PROVE  inFlight'[l] = Cardinality(InFlight(l)')
    BY <1>2 DEF GaugesExact
  <2>1. inFlight[l] = Cardinality(InFlight(l)) /\ inFlight \in [Labels -> Nat]
    BY DEF Inv, TypeOK, GaugesExact
  <2>2. CASE l = Label(r)
    <3>1. Cardinality(InFlight(l)') = Cardinality(InFlight(l)) + 1
      BY <1>5, <2>2, AllFinite, FS_AddElement DEF Inv
    <3> QED
      BY <1>1, <1>2, <2>1, <2>2, <3>1
  <2>3. CASE l # Label(r)
    BY <1>1, <1>5, <2>1, <2>3
  <2> QED
    BY <2>2, <2>3
<1>9. CounterComplete'
  <2>1. Cardinality(Counted) \in Nat /\ Cardinality(Uncounted) \in Nat
    BY AllFinite, FS_CardinalityType DEF Inv
  <2> QED
    BY <1>1, <1>6, <1>7, <2>1 DEF Inv, CounterComplete
<1>10. HistogramFollows'
  BY <1>1, <1>2, <1>6 DEF Inv, HistogramFollows
<1> QED
  BY <1>3, <1>4, <1>6, <1>7, <1>8, <1>9, <1>10 DEF Inv

LEMMA RouteInv == ASSUME Inv, NEW c \in Clients, Route(c) PROVE Inv'
<1> DEFINE next == ServeHTTP(request[c])
<1>1. /\ pc[c] = "routing"
      /\ UNCHANGED <<store, request, seen, inFlight, total, durations, load, sent>>
  BY DEF Route
<1>2. Labels' = Labels /\ RequestsOf(load)' = RequestsOf(load)
  BY <1>1 DEF Labels, RequestsOf
<1>3. CASE \E code \in Answers : next = AnswerWith(code)
  <2>1. PICK code \in Answers : next = AnswerWith(code)
    BY <1>3
  <2>2. /\ pc' = [pc EXCEPT ![c] = "answered"]
        /\ status' = [status EXCEPT ![c] = code]
    BY <2>1 DEF Route, AnswerWith
  <2>3. TypeOK' /\ \A d \in Clients : RequestOK(d)'
    BY <1>1, <1>2, <2>2 DEF Inv, TypeOK, RequestOK, Answers, StoreCalls, Ended
  <2>4. \A d \in Clients \ {c} : status'[d] = status[d]
    BY <2>2 DEF Inv, TypeOK
  <2> QED
    BY <1>1, <2>2, <2>3, <2>4, NothingCounted DEF Inv
<1>4. CASE \E op \in StoreCalls : next = Call(op)
  <2>1. PICK op \in StoreCalls : next = Call(op)
    BY <1>4
  <2>2. /\ pc' = [pc EXCEPT ![c] = op] /\ op # "idle"
        /\ UNCHANGED status
    BY <2>1 DEF Route, Call, StoreCalls
  <2>3. TypeOK' /\ \A d \in Clients : RequestOK(d)'
    BY <1>1, <1>2, <2>1, <2>2 DEF Inv, TypeOK, RequestOK, StoreCalls, Ended
  <2>4. \A d \in Clients \ {c} : status'[d] = status[d]
    BY <2>2 DEF Inv, TypeOK
  <2> QED
    BY <1>1, <2>2, <2>3, <2>4, NothingCounted DEF Inv
<1> QED
  BY <1>3, <1>4, ServeTypes

\* A call ends with the answer of the server or with an error, or the handler
\* panics; in each case the call may have taken effect.
LEMMA CallEndsInv ==
    ASSUME Inv, NEW c \in Clients,
           \/ StoreCall(c) \/ StoreCallFails(c) \/ StoreAnswerLost(c) \/ Panic(c)
    PROVE  Inv'
<1> DEFINE r == request[c]
           op == pc[c]
           took == /\ op \in StoreCalls /\ (op = "create" => CRDAccepts(r))
                   /\ store' = storeAfter(op, r)
<1>1. /\ pc[c] \in {"routing"} \cup StoreCalls /\ pc[c] # "idle"
      /\ UNCHANGED <<request, inFlight, total, durations, load, sent>>
      /\ store' = store \/ took
  BY DEF StoreCall, StoreCallFails, StoreAnswerLost, StoreCallError, Panic,
         StoreCalls
<1>2. r \in RequestValues
  BY <1>1, RequestTypes DEF Inv, TypeOK, RequestOK
<1>3. Labels' = Labels /\ RequestsOf(load)' = RequestsOf(load)
  BY <1>1 DEF Labels, RequestsOf
<1>4. store' \in [Names -> {NoService} \cup Services]
  BY <1>1, <1>2, StoreTypes DEF Inv, TypeOK, Services
<1>5. CASE StoreCall(c) \/ StoreCallError(c)
  <2>1. \E code \in {200, 201, 204, 404, 409, 500, 503} :
          status' = [status EXCEPT ![c] = code]
    BY <1>1, <1>2, <1>5, StoreTypes
       DEF Inv, TypeOK, StoreCall, StoreCallError, errorStatus, Services
  <2>2. \E body \in SUBSET Services : seen' = [seen EXCEPT ![c] = body]
    <3>1. CASE StoreCall(c)
      <4>1. /\ op \in StoreCalls /\ (op = "create" => CRDAccepts(r))
            /\ store \in [Names -> {NoService} \cup Services]
        BY <3>1 DEF Inv, TypeOK, StoreCall, Services
      <4>2. bodyOf(op, r) \in SUBSET Services
        BY <1>2, <4>1, StoreTypes
      <4>3. seen' = [seen EXCEPT ![c] = bodyOf(op, r)]
        BY <3>1 DEF StoreCall
      <4> QED
        BY <4>2, <4>3
    <3>2. CASE StoreCallError(c)
      <4>1. seen[c] \in SUBSET Services /\ seen' = [seen EXCEPT ![c] = seen[c]]
        BY <3>2 DEF Inv, TypeOK, StoreCallError, Services
      <4> QED
        BY <4>1
    <3> QED
      BY <1>5, <3>1, <3>2
  <2>3. pc' = [pc EXCEPT ![c] = "answered"]
    BY <1>5 DEF StoreCall, StoreCallError
  <2>4. TypeOK'
    <3>1. /\ status' \in [Clients -> {0, 200, 201, 204, 307, 400, 401, 404, 405, 409,
                                      413, 500, 503}]
          /\ seen' \in [Clients -> SUBSET Services]
      BY <2>1, <2>2 DEF Inv, TypeOK, Services
    <3>2. pc' \in [Clients -> {"idle", "routing"} \cup StoreCalls \cup Ended]
      BY <2>3 DEF Inv, TypeOK, Ended
    <3>3. UNCHANGED <<request, inFlight, total, durations, load, sent>>
      BY <1>1
    <3> QED
      BY <1>3, <1>4, <3>1, <3>2, <3>3 DEF Inv, TypeOK, Services
  <2>5. \A d \in Clients : RequestOK(d)'
    BY <1>1, <1>3, <2>1, <2>2, <2>3 DEF Inv, TypeOK, RequestOK, StoreCalls, Ended
  <2>6. \A d \in Clients \ {c} : status'[d] = status[d]
    BY <2>1 DEF Inv, TypeOK
  <2>7. /\ IsFiniteSet(Busy)' /\ IsFiniteSet(Counted)'
        /\ GaugesExact' /\ CounterComplete' /\ HistogramFollows'
    BY <1>1, <2>3, <2>6, NothingCounted
  <2> QED
    BY <2>4, <2>5, <2>7 DEF Inv
<1>6. CASE Panic(c)
  <2>1. pc' = [pc EXCEPT ![c] = "panicked"] /\ UNCHANGED <<status, seen>>
    BY <1>6 DEF Panic
  <2>2. TypeOK' /\ \A d \in Clients : RequestOK(d)'
    BY <1>1, <1>3, <1>4, <2>1
       DEF Inv, TypeOK, RequestOK, Services, StoreCalls, Ended
  <2> QED
    BY <1>1, <2>1, <2>2, NothingCounted DEF Inv
<1> QED
  BY <1>5, <1>6 DEF StoreCallFails, StoreAnswerLost

\* requestFinished, in its three steps.
LEMMA LowerInv == ASSUME Inv, NEW c \in Clients, LowerInFlight(c) PROVE Inv'
<1> DEFINE r == request[c]
<1>1. /\ pc[c] \in {"answered", "panicked"}
      /\ pc' = [pc EXCEPT ![c] = "uncounted"]
      /\ inFlight' = [inFlight EXCEPT ![Label(r)] = @ - 1]
      /\ UNCHANGED <<store, request, status, seen, total, durations, load, sent>>
  BY DEF LowerInFlight
<1>2. /\ Labels' = Labels /\ RequestsOf(load)' = RequestsOf(load)
      /\ Label(r) \in Labels
  BY <1>1 DEF Inv, RequestOK, Labels, RequestsOf
<1>3. /\ pc'[c] = "uncounted" /\ \A d \in Clients \ {c} : pc'[d] = pc[d]
  BY <1>1 DEF Inv, TypeOK
<1>4. /\ Busy' = Busy /\ Uncounted' = Uncounted /\ Counted' = Counted
      /\ \A k : Unobserved(k)' = Unobserved(k)
      /\ \A l : IF l = Label(r)
                THEN InFlight(l)' = InFlight(l) \ {c} /\ c \in InFlight(l)
                ELSE InFlight(l)' = InFlight(l)
  BY <1>1, <1>3 DEF Busy, Uncounted, InFlight, Unobserved, Key, Counted
<1>5. \A l \in Labels : /\ inFlight'[l] = Cardinality(InFlight(l)')
                        /\ inFlight'[l] \in Nat
  <2> SUFFICES ASSUME NEW l \in Labels
               PROVE  /\ inFlight'[l] = Cardinality(InFlight(l)')
                      /\ inFlight'[l] \in Nat
    OBVIOUS
  <2>1. /\ inFlight[l] = Cardinality(InFlight(l)) /\ inFlight \in [Labels -> Nat]
        /\ IsFiniteSet(InFlight(l)) /\ Cardinality(InFlight(l)) \in Nat
    BY AllFinite DEF Inv, TypeOK, GaugesExact
  <2>2. CASE l = Label(r)
    <3>1. Cardinality(InFlight(l)') = Cardinality(InFlight(l)) - 1
      BY <1>4, <2>1, <2>2, FS_RemoveElement
    <3>2. Cardinality(InFlight(l)') \in Nat
      BY <1>4, <2>1, <2>2, FS_RemoveElement, FS_CardinalityType
    <3> QED
      BY <1>1, <1>2, <2>1, <2>2, <3>1, <3>2
  <2>3. CASE l # Label(r)
    BY <1>1, <1>4, <2>1, <2>3
  <2> QED
    BY <2>2, <2>3
<1>6. TypeOK'
  <2>1. inFlight' \in [Labels -> Nat]
    <3>1. inFlight \in [Labels -> Nat]
      BY DEF Inv, TypeOK
    <3> QED
      BY <1>1, <1>5, <3>1
  <2>2. pc' \in [Clients -> {"idle", "routing"} \cup StoreCalls \cup Ended]
    BY <1>1 DEF Inv, TypeOK, Ended
  <2>3. UNCHANGED <<store, request, status, seen, total, durations, load, sent>>
    BY <1>1
  <2> QED
    BY <1>2, <2>1, <2>2, <2>3 DEF Inv, TypeOK
<1>7. \A d \in Clients : RequestOK(d)'
  BY <1>1, <1>2 DEF Inv, TypeOK, RequestOK, StoreCalls, Ended
<1>8. GaugesExact' /\ CounterComplete' /\ HistogramFollows'
  BY <1>1, <1>2, <1>4, <1>5 DEF Inv, GaugesExact, CounterComplete, HistogramFollows
<1> QED
  BY <1>4, <1>6, <1>7, <1>8 DEF Inv

\* A request has a class, whatever its handler did.
LEMMA KeyType ==
    ASSUME Inv, NEW c \in Clients, pc[c] # "idle"
    PROVE  Key(c) \in Labels \X StatusClasses
<1>1. Label(request[c]) \in Labels
  BY DEF Inv, RequestOK, Labels
<1>2. statusCode(status[c]) \in {200, 201, 204, 307, 400, 401, 404, 405, 409, 413,
                                 500, 503}
  BY DEF Inv, TypeOK, statusCode
<1>3. statusClass(statusCode(status[c])) \in StatusClasses
  BY <1>2 DEF statusClass, StatusClasses
<1> QED
  BY <1>1, <1>3 DEF Key

LEMMA CountInv == ASSUME Inv, NEW c \in Clients, CountRequest(c) PROVE Inv'
<1>1. /\ pc[c] = "uncounted" /\ pc' = [pc EXCEPT ![c] = "unobserved"]
      /\ total' = total (+) SetToBag({Key(c)})
      /\ UNCHANGED <<store, request, status, seen, inFlight, durations, load, sent>>
  BY DEF CountRequest
<1>2. Labels' = Labels /\ RequestsOf(load)' = RequestsOf(load)
  BY <1>1 DEF Labels, RequestsOf
<1>3. pc'[c] = "unobserved" /\ \A d \in Clients \ {c} : pc'[d] = pc[d]
  BY <1>1 DEF Inv, TypeOK
<1>4. /\ Busy' = Busy
      /\ Uncounted' = Uncounted \ {c} /\ c \in Uncounted
      /\ \A l : InFlight(l)' = InFlight(l)
      /\ \A k : IF k = Key(c)
                THEN Unobserved(k)' = Unobserved(k) \cup {c} /\ c \notin Unobserved(k)
                ELSE Unobserved(k)' = Unobserved(k)
  BY <1>1, <1>3 DEF Busy, Uncounted, InFlight, Unobserved, Key
<1>5. /\ IsFiniteSet(Counted')
      /\ Cardinality(Counted') = Cardinality(Counted) + 1
  <2>1. IsABag(total) /\ IsFiniteSet(Counted)
    BY DEF Inv, TypeOK
  <2> QED
    BY <1>1, <2>1, AddedToCounted
<1>6. /\ IsABag(total') /\ BagToSet(total') = BagToSet(total) \cup {Key(c)}
      /\ \A k : Copies(k, total) \in Nat
      /\ \A k : Copies(k, total') =
                  IF k = Key(c) THEN Copies(k, total) + 1 ELSE Copies(k, total)
  <2>1. IsABag(total)
    BY DEF Inv, TypeOK
  <2>2. OneMore(Key(c), total, total')
    BY <1>1, <2>1, CopyAdded, Zenon
  <2> QED
    BY <2>2 DEF OneMore
<1>7. TypeOK'
  <2>1. Key(c) \in Labels \X StatusClasses
    BY <1>1, KeyType
  <2>2. BagToSet(total') \cup BagToSet(durations) \subseteq Labels \X StatusClasses
    BY <1>6, <2>1 DEF Inv, TypeOK
  <2>3. pc' \in [Clients -> {"idle", "routing"} \cup StoreCalls \cup Ended]
    BY <1>1 DEF Inv, TypeOK, Ended
  <2>4. IsABag(total')
    BY <1>6
  <2>5. UNCHANGED <<store, request, status, seen, inFlight, durations, load, sent>>
    BY <1>1
  <2> QED
    BY <1>2, <2>2, <2>3, <2>4, <2>5 DEF Inv, TypeOK
<1>8. \A d \in Clients : RequestOK(d)'
  BY <1>1, <1>2 DEF Inv, TypeOK, RequestOK, StoreCalls, Ended
<1>9. GaugesExact'
  BY <1>1, <1>2, <1>4 DEF Inv, GaugesExact
<1>10. CounterComplete'
  <2>1. Cardinality(Uncounted') = Cardinality(Uncounted) - 1
    BY <1>4, AllFinite, FS_RemoveElement DEF Inv
  <2>2. Cardinality(Counted) \in Nat /\ Cardinality(Uncounted) \in Nat
    BY AllFinite, FS_CardinalityType DEF Inv
  <2> QED
    BY <1>1, <1>5, <2>1, <2>2 DEF Inv, CounterComplete
<1>11. HistogramFollows'
  <2> SUFFICES ASSUME NEW k \in Labels \X StatusClasses
               PROVE  Copies(k, total') =
                        Copies(k, durations) + Cardinality(Unobserved(k)')
    BY <1>1, <1>2 DEF HistogramFollows
  <2>1. /\ Copies(k, total) = Copies(k, durations) + Cardinality(Unobserved(k))
        /\ IsFiniteSet(Unobserved(k)) /\ Cardinality(Unobserved(k)) \in Nat
    BY AllFinite DEF Inv, HistogramFollows
  <2>2. Copies(k, durations) \in Nat
    <3>1. IsABag(durations)
      BY DEF Inv, TypeOK
    <3>2. OneMore(k, durations, durations (+) SetToBag({k}))
      BY <3>1, CopyAdded, Zenon
    <3> QED
      BY <3>2 DEF OneMore
  <2>3. Cardinality(Unobserved(k)') = IF k = Key(c) THEN Cardinality(Unobserved(k)) + 1
                                                   ELSE Cardinality(Unobserved(k))
    BY <1>4, <2>1, FS_AddElement
  <2> QED
    BY <1>6, <2>1, <2>2, <2>3
<1> QED
  BY <1>4, <1>5, <1>7, <1>8, <1>9, <1>10, <1>11 DEF Inv

LEMMA ObserveInv == ASSUME Inv, NEW c \in Clients, ObserveDuration(c) PROVE Inv'
<1>1. /\ pc[c] = "unobserved" /\ pc' = [pc EXCEPT ![c] = "idle"]
      /\ durations' = durations (+) SetToBag({Key(c)})
      /\ status' = [status EXCEPT ![c] = 0] /\ seen' = [seen EXCEPT ![c] = {}]
      /\ request' = [request EXCEPT ![c] = NoRequest]
      /\ UNCHANGED <<store, inFlight, total, load, sent>>
  BY DEF ObserveDuration
<1>2. Labels' = Labels /\ RequestsOf(load)' = RequestsOf(load)
  BY <1>1 DEF Labels, RequestsOf
<1>3. /\ pc'[c] = "idle"
      /\ \A d \in Clients \ {c} : /\ pc'[d] = pc[d] /\ request'[d] = request[d]
                                  /\ status'[d] = status[d]
  BY <1>1 DEF Inv, TypeOK
<1>4. /\ Busy' = Busy \ {c} /\ c \in Busy
      /\ Uncounted' = Uncounted /\ Counted' = Counted
      /\ \A l : InFlight(l)' = InFlight(l)
      /\ \A k : IF k = Key(c)
                THEN Unobserved(k)' = Unobserved(k) \ {c} /\ c \in Unobserved(k)
                ELSE Unobserved(k)' = Unobserved(k)
  BY <1>1, <1>3 DEF Busy, Uncounted, InFlight, Unobserved, Key, Counted
<1>5. IsFiniteSet(Busy')
  BY <1>4, FS_RemoveElement DEF Inv
<1>6. /\ IsABag(durations')
      /\ BagToSet(durations') = BagToSet(durations) \cup {Key(c)}
      /\ \A k : Copies(k, durations) \in Nat
      /\ \A k : Copies(k, durations') =
                  IF k = Key(c) THEN Copies(k, durations) + 1
                                ELSE Copies(k, durations)
  <2>1. IsABag(durations)
    BY DEF Inv, TypeOK
  <2>2. OneMore(Key(c), durations, durations')
    BY <1>1, <2>1, CopyAdded, Zenon
  <2> QED
    BY <2>2 DEF OneMore
<1>7. TypeOK'
  <2>1. Key(c) \in Labels \X StatusClasses
    BY <1>1, KeyType
  <2>2. BagToSet(total) \cup BagToSet(durations') \subseteq Labels \X StatusClasses
    BY <1>6, <2>1 DEF Inv, TypeOK
  <2>3. /\ pc' \in [Clients -> {"idle", "routing"} \cup StoreCalls \cup Ended]
        /\ request' \in [Clients -> RequestsOf(load)' \cup {NoRequest}]
    BY <1>1, <1>2 DEF Inv, TypeOK
  <2>4. seen' \in [Clients -> SUBSET Services]
    BY <1>1 DEF Inv, TypeOK, Services
  <2>5. status' \in [Clients -> {0, 200, 201, 204, 307, 400, 401, 404, 405, 409,
                                 413, 500, 503}]
    BY <1>1 DEF Inv, TypeOK
  <2>6. IsABag(durations')
    BY <1>6
  <2>7. UNCHANGED <<store, inFlight, total, load, sent>>
    BY <1>1
  <2> QED
    BY <1>2, <2>2, <2>3, <2>4, <2>5, <2>6, <2>7 DEF Inv, TypeOK, Services
<1>8. \A d \in Clients : RequestOK(d)'
  BY <1>1, <1>2 DEF Inv, TypeOK, RequestOK, StoreCalls, Ended
<1>9. GaugesExact' /\ CounterComplete'
  BY <1>1, <1>2, <1>4 DEF Inv, GaugesExact, CounterComplete
<1>10. HistogramFollows'
  <2> SUFFICES ASSUME NEW k \in Labels \X StatusClasses
               PROVE  Copies(k, total) =
                        Copies(k, durations') + Cardinality(Unobserved(k)')
    BY <1>1, <1>2 DEF HistogramFollows
  <2>1. /\ Copies(k, total) = Copies(k, durations) + Cardinality(Unobserved(k))
        /\ IsFiniteSet(Unobserved(k)) /\ Cardinality(Unobserved(k)) \in Nat
    BY AllFinite DEF Inv, HistogramFollows
  <2>2. Cardinality(Unobserved(k)') = IF k = Key(c) THEN Cardinality(Unobserved(k)) - 1
                                                   ELSE Cardinality(Unobserved(k))
    BY <1>4, <2>1, FS_RemoveElement
  <2> QED
    BY <1>6, <2>1, <2>2
<1> QED
  BY <1>4, <1>5, <1>7, <1>8, <1>9, <1>10 DEF Inv

LEMMA StepInv == ASSUME Inv, [Next]_vars PROVE Inv'
<1>1. CASE UNCHANGED vars
  <2>1. /\ Busy' = Busy /\ Counted' = Counted /\ Labels' = Labels
        /\ RequestsOf(load)' = RequestsOf(load)
        /\ Uncounted' = Uncounted /\ \A l : InFlight(l)' = InFlight(l)
        /\ \A k : Unobserved(k)' = Unobserved(k)
    BY <1>1 DEF vars, Busy, Uncounted, InFlight, Unobserved, Key, Counted, Labels,
                RequestsOf
  <2>2. GaugesExact' /\ CounterComplete' /\ HistogramFollows'
    BY <1>1, <2>1 DEF Inv, GaugesExact, CounterComplete, HistogramFollows, vars
  <2> QED
    BY <1>1, <2>1, <2>2 DEF vars, Inv, TypeOK, RequestOK
<1> QED
  BY <1>1, ArriveInv, RouteInv, CallEndsInv, LowerInv, CountInv, ObserveInv DEF Next

LEMMA SpecInv == Spec => []Inv
<1>1. Inv /\ [Next]_vars => Inv'
  BY StepInv
<1> QED
  BY InitInv, <1>1, PTL DEF Spec

-----------------------------------------------------------------------------
(* The refinement: every step is a step of the registry or none.           *)

Phases == [c \in Clients |-> RegistryPhase(c)]

ToldTo == [c \in Clients |-> RegistryAnswer(c)]

\* A step of one request changes what the registry sees of that one only.
LEMMA OthersUnseen ==
    ASSUME NEW c \in Clients,
           \A d \in Clients \ {c} :
             /\ pc'[d] = pc[d] /\ request'[d] = request[d]
             /\ status'[d] = status[d] /\ seen'[d] = seen[d]
    PROVE  /\ Phases' = [Phases EXCEPT ![c] = RegistryPhase(c)']
           /\ ToldTo' = [ToldTo EXCEPT ![c] = RegistryAnswer(c)']
<1>1. \A d \in Clients \ {c} : /\ RegistryPhase(d)' = RegistryPhase(d)
                               /\ RegistryAnswer(d)' = RegistryAnswer(d)
  BY DEF RegistryPhase, RegistryAnswer
<1> QED
  BY <1>1 DEF Phases, ToldTo

LEMMA InitRefines == Init => R!Init
  BY DEF Init, R!Init, R!Said, RegistryPhase, RegistryAnswer, Ended

LEMMA ArriveRefines ==
    ASSUME Inv, NEW c \in Clients, NEW r \in RequestsOf(load), Arrive(c, r)
    PROVE  R!Arrive(c)
<1>1. /\ pc[c] = "idle" /\ pc' = [pc EXCEPT ![c] = "routing"]
      /\ request' = [request EXCEPT ![c] = r]
      /\ UNCHANGED <<store, status, seen>>
  BY DEF Arrive
<1>2. /\ Phases' = [Phases EXCEPT ![c] = RegistryPhase(c)']
      /\ ToldTo' = [ToldTo EXCEPT ![c] = RegistryAnswer(c)']
  BY <1>1, OthersUnseen DEF Inv, TypeOK
<1>3. status[c] = 0
  BY <1>1 DEF Inv, RequestOK, Ended
<1>4. /\ RegistryPhase(c) = "idle" /\ RegistryPhase(c)' = "pending"
      /\ RegistryAnswer(c)' = RegistryAnswer(c)
  BY <1>1, <1>3 DEF Inv, TypeOK, RegistryPhase, RegistryAnswer, Ended
<1>5. r \in Requests
  BY RequestTypes DEF Inv, TypeOK
<1> QED
  BY <1>1, <1>2, <1>4, <1>5 DEF R!Arrive, Phases, ToldTo

\* A handler that ends answers its client with what RegistryAnswer then says.
LEMMA EndsWithAnswer ==
    ASSUME Inv, NEW c \in Clients, pc[c] \in {"routing"} \cup StoreCalls,
           NEW at \in {"answered", "panicked"}, pc' = [pc EXCEPT ![c] = at],
           UNCHANGED request,
           \A d \in Clients \ {c} : status'[d] = status[d] /\ seen'[d] = seen[d]
    PROVE  R!Answer(c, RegistryAnswer(c)') /\ Phases[c] = "pending"
<1>1. \A d \in Clients \ {c} : pc'[d] = pc[d]
  BY DEF Inv, TypeOK
<1>2. pc'[c] = at
  BY DEF Inv, TypeOK
<1>3. /\ Phases' = [Phases EXCEPT ![c] = RegistryPhase(c)']
      /\ ToldTo' = [ToldTo EXCEPT ![c] = RegistryAnswer(c)']
  BY <1>1, OthersUnseen
<1>4. RegistryPhase(c) = "pending" /\ RegistryPhase(c)' = "answered"
  BY <1>2 DEF RegistryPhase, StoreCalls, Ended
<1> QED
  BY <1>3, <1>4 DEF R!Answer, Phases, ToldTo

LEMMA RouteRefines ==
    ASSUME Inv, NEW c \in Clients, Route(c)
    PROVE  R!Decline(c) \/ UNCHANGED R!vars
<1> DEFINE r == request[c]
<1>1. /\ pc[c] = "routing" /\ UNCHANGED <<store, request, seen>>
      /\ status[c] = 0 /\ seen[c] = {}
  BY DEF Route, Inv, RequestOK, Ended
<1>2. r \in RequestValues
  BY <1>1, RequestTypes DEF Inv, TypeOK, RequestOK
<1>3. CASE \E code \in Answers : ServeHTTP(r) = AnswerWith(code)
  <2>1. PICK code \in Answers : ServeHTTP(r) = AnswerWith(code)
    BY <1>3
  <2>2. /\ pc' = [pc EXCEPT ![c] = "answered"]
        /\ status' = [status EXCEPT ![c] = code]
    BY <2>1 DEF Route, AnswerWith
  <2>3. RegistryOp(r) = "none"
    BY <1>2, <2>1, HandlerAgrees DEF AnswerWith, Call
  <2>4. status'[c] = code /\ pc'[c] = "answered" /\ seen'[c] = {}
    BY <1>1, <2>2 DEF Inv, TypeOK
  <2>5. RegistryAnswer(c)' = R!Said("declined")
    BY <1>1, <2>3, <2>4 DEF RegistryAnswer, R!Said, Answers, Ended
  <2>6. R!Answer(c, RegistryAnswer(c)') /\ Phases[c] = "pending"
    <3>1. \A d \in Clients \ {c} : status'[d] = status[d] /\ seen'[d] = seen[d]
      BY <1>1, <2>2 DEF Inv, TypeOK
    <3> QED
      BY <1>1, <2>2, <3>1, EndsWithAnswer
  <2> QED
    BY <1>1, <2>3, <2>5, <2>6 DEF R!Decline, Phases
<1>4. CASE \E op \in StoreCalls : ServeHTTP(r) = Call(op)
  <2>1. PICK op \in StoreCalls : ServeHTTP(r) = Call(op)
    BY <1>4
  <2>2. pc' = [pc EXCEPT ![c] = op] /\ UNCHANGED status
    BY <2>1 DEF Route, Call, StoreCalls
  <2>3. /\ Phases' = [Phases EXCEPT ![c] = RegistryPhase(c)']
        /\ ToldTo' = [ToldTo EXCEPT ![c] = RegistryAnswer(c)']
    BY <1>1, <2>2, OthersUnseen DEF Inv, TypeOK
  <2>4. /\ RegistryPhase(c)' = RegistryPhase(c)
        /\ RegistryAnswer(c)' = RegistryAnswer(c)
    <3>1. /\ pc'[c] = op /\ status'[c] = 0 /\ seen'[c] = seen[c]
          /\ request'[c] = request[c]
      BY <1>1, <2>2 DEF Inv, TypeOK
    <3> QED
      BY <1>1, <3>1 DEF RegistryPhase, RegistryAnswer, StoreCalls, Ended
  <2>5. Phases' = Phases /\ ToldTo' = ToldTo
    BY <2>3, <2>4 DEF Phases, ToldTo
  <2> QED
    BY <1>1, <2>5 DEF R!vars, Phases, ToldTo
<1> QED
  BY <1>3, <1>4, ServeTypes

\* The effect of a call is that of its request on the registry.
LEMMA SameEffect ==
    ASSUME Inv, NEW c \in Clients, pc[c] \in StoreCalls
    PROVE  /\ request[c] \in RequestValues
           /\ RegistryOp(request[c]) = IF pc[c] = "ready" THEN "none" ELSE pc[c]
           /\ storeAfter(pc[c], request[c]) = R!Effect(request[c])
           /\ pc[c] = "ready" => storeAfter(pc[c], request[c]) = store
<1> DEFINE r == request[c]
<1>1. r \in RequestValues /\ r.name \in Names
  BY RequestTypes DEF Inv, TypeOK, RequestOK, RequestValues, StoreCalls
<1>2. ServeHTTP(r) = Call(pc[c])
  BY DEF Inv, RequestOK
<1>3. RegistryOp(r) = IF pc[c] = "ready" THEN "none" ELSE pc[c]
  BY <1>1, <1>2, HandlerAgrees DEF Call, StoreCalls
<1>4. storeAfter(pc[c], r) = R!Effect(r)
  <2>1. store[r.name] = NoService => [store EXCEPT ![r.name] = NoService] = store
    BY <1>1 DEF Inv, TypeOK
  <2> QED
    BY <1>1, <1>3, <2>1 DEF storeAfter, R!Effect, RegistryName, StoreCalls
<1>5. pc[c] = "ready" => storeAfter(pc[c], r) = store
  BY DEF storeAfter
<1> QED
  BY <1>1, <1>3, <1>4, <1>5

LEMMA StoreCallRefines ==
    ASSUME Inv, NEW c \in Clients, StoreCall(c)
    PROVE  R!Perform(c) \/ R!Decline(c)
<1> DEFINE r == request[c]
<1>1. /\ pc[c] \in StoreCalls /\ (pc[c] = "create" => CRDAccepts(r))
      /\ pc' = [pc EXCEPT ![c] = "answered"]
      /\ store' = storeAfter(pc[c], r) /\ UNCHANGED request
      /\ status' = [status EXCEPT ![c] = statusOf(pc[c], r)]
      /\ seen' = [seen EXCEPT ![c] = bodyOf(pc[c], r)]
  BY DEF StoreCall
<1>2. /\ r \in RequestValues /\ r.name \in Names
      /\ RegistryOp(r) = IF pc[c] = "ready" THEN "none" ELSE pc[c]
      /\ store' = R!Effect(r)
      /\ pc[c] = "ready" => store' = store
  BY <1>1, SameEffect DEF RequestValues
<1>3. R!Answer(c, RegistryAnswer(c)') /\ Phases[c] = "pending"
  <2>1. \A d \in Clients \ {c} : status'[d] = status[d] /\ seen'[d] = seen[d]
    BY <1>1 DEF Inv, TypeOK
  <2> QED
    BY <1>1, <2>1, EndsWithAnswer
<1>4. /\ status'[c] = statusOf(pc[c], r) /\ seen'[c] = bodyOf(pc[c], r)
      /\ pc'[c] = "answered" /\ request'[c] = r
  BY <1>1 DEF Inv, TypeOK
<1>5. CASE pc[c] = "ready"
  <2>1. RegistryAnswer(c)' = R!Said("declined")
    BY <1>2, <1>4, <1>5 DEF RegistryAnswer, R!Said, statusOf, bodyOf, Ended
  <2> QED
    BY <1>2, <1>3, <1>5, <2>1 DEF R!Decline, Phases
<1>6. CASE pc[c] # "ready"
  <2>1. RegistryAnswer(c)' = R!Outcome(r)
    <3>1. CASE pc[c] = "create"
      BY <1>2, <1>4, <3>1
         DEF RegistryAnswer, R!Outcome, R!Said, statusOf, bodyOf, RegistryName,
             Ended
    <3>2. CASE pc[c] = "delete"
      BY <1>2, <1>4, <3>2
         DEF RegistryAnswer, R!Outcome, R!Said, statusOf, bodyOf, RegistryName,
             Ended
    <3>3. CASE pc[c] = "get"
      BY <1>2, <1>4, <3>3
         DEF RegistryAnswer, R!Outcome, R!Said, statusOf, bodyOf, RegistryName,
             Ended
    <3>4. CASE pc[c] = "list"
      BY <1>2, <1>4, <3>4
         DEF RegistryAnswer, R!Outcome, R!Said, statusOf, bodyOf, RegistryName,
             Ended
    <3> QED
      BY <1>1, <1>6, <3>1, <3>2, <3>3, <3>4 DEF StoreCalls
  <2> QED
    BY <1>1, <1>2, <1>3, <1>6, <2>1 DEF R!Perform, Phases, StoreCalls
<1> QED
  BY <1>5, <1>6

\* An error, or a panic, leaves open whether the request took effect.
LEMMA CallLostRefines ==
    ASSUME Inv, NEW c \in Clients,
           StoreCallFails(c) \/ StoreAnswerLost(c) \/ Panic(c)
    PROVE  R!Lose(c) \/ R!Decline(c)
<1> DEFINE r == request[c]
<1>1. /\ pc[c] \in {"routing"} \cup StoreCalls /\ UNCHANGED request
      /\ \/ pc' = [pc EXCEPT ![c] = "answered"]
         \/ pc' = [pc EXCEPT ![c] = "panicked"]
      /\ \A d \in Clients \ {c} : status'[d] = status[d] /\ seen'[d] = seen[d]
      /\ status[c] = 0 /\ seen[c] = {}
  BY DEF StoreCallFails, StoreAnswerLost, StoreCallError, Panic, Inv, TypeOK,
         RequestOK, StoreCalls, Ended
<1>2. /\ r \in RequestValues
      /\ pc[c] \in StoreCalls =>
           RegistryOp(r) = IF pc[c] = "ready" THEN "none" ELSE pc[c]
  BY <1>1, SameEffect, RequestTypes DEF Inv, TypeOK, RequestOK
<1>3. store' \in {store, R!Effect(r)} /\ (RegistryOp(r) = "none" => store' = store)
  BY <1>1, <1>2, SameEffect
     DEF StoreCallFails, StoreAnswerLost, StoreCallError, Panic, StoreCalls
<1>4. R!Answer(c, RegistryAnswer(c)') /\ Phases[c] = "pending"
  BY <1>1, EndsWithAnswer
<1>5. RegistryAnswer(c)' =
        R!Said(IF RegistryOp(r) = "none" THEN "declined" ELSE "unknown")
  <2>1. CASE Panic(c)
    <3>1. /\ pc'[c] = "panicked" /\ request'[c] = r /\ seen'[c] = {}
          /\ status'[c] = 0
      BY <1>1, <2>1 DEF Panic, Inv, TypeOK
    <3> QED
      BY <3>1 DEF RegistryAnswer, R!Said, Ended
  <2>2. CASE StoreCallError(c)
    <3>1. /\ pc'[c] = "answered" /\ request'[c] = r /\ seen'[c] = {}
          /\ status'[c] = IF pc[c] = "ready" THEN 503 ELSE 500
          /\ pc[c] \in StoreCalls
      BY <1>1, <2>2 DEF StoreCallError, errorStatus, Inv, TypeOK
    <3> QED
      BY <1>2, <3>1 DEF RegistryAnswer, R!Said, StoreCalls, Ended
  <2> QED
    BY <2>1, <2>2 DEF StoreCallFails, StoreAnswerLost
<1>6. CASE RegistryOp(r) = "none"
  BY <1>3, <1>4, <1>5, <1>6 DEF R!Decline, Phases
<1>7. CASE RegistryOp(r) # "none"
  BY <1>3, <1>4, <1>5, <1>7 DEF R!Lose, Phases
<1> QED
  BY <1>6, <1>7

\* Of requestFinished the registry sees the end only.
LEMMA CountingUnseen ==
    ASSUME Inv, NEW c \in Clients, LowerInFlight(c) \/ CountRequest(c)
    PROVE  UNCHANGED R!vars
<1>1. /\ pc[c] \in Ended /\ UNCHANGED <<store, request, status, seen>>
      /\ pc' = [pc EXCEPT ![c] = "uncounted"] \/ pc' = [pc EXCEPT ![c] = "unobserved"]
  BY DEF LowerInFlight, CountRequest, Ended
<1>2. /\ Phases' = [Phases EXCEPT ![c] = RegistryPhase(c)']
      /\ ToldTo' = [ToldTo EXCEPT ![c] = RegistryAnswer(c)']
  BY <1>1, OthersUnseen DEF Inv, TypeOK
<1>3. pc'[c] \in Ended
  BY <1>1 DEF Inv, TypeOK, Ended
<1>4. RegistryPhase(c)' = RegistryPhase(c) /\ RegistryAnswer(c)' = RegistryAnswer(c)
  BY <1>1, <1>3 DEF RegistryPhase, RegistryAnswer, Ended
<1>5. Phases' = Phases /\ ToldTo' = ToldTo
  BY <1>2, <1>4 DEF Phases, ToldTo
<1> QED
  BY <1>1, <1>5 DEF R!vars, Phases, ToldTo

LEMMA ObserveRefines ==
    ASSUME Inv, NEW c \in Clients, ObserveDuration(c) PROVE R!Return(c)
<1>1. /\ pc[c] = "unobserved" /\ pc' = [pc EXCEPT ![c] = "idle"]
      /\ request' = [request EXCEPT ![c] = NoRequest]
      /\ status' = [status EXCEPT ![c] = 0] /\ seen' = [seen EXCEPT ![c] = {}]
      /\ UNCHANGED store
  BY DEF ObserveDuration
<1>2. /\ Phases' = [Phases EXCEPT ![c] = RegistryPhase(c)']
      /\ ToldTo' = [ToldTo EXCEPT ![c] = RegistryAnswer(c)']
  BY <1>1, OthersUnseen DEF Inv, TypeOK
<1>3. /\ RegistryPhase(c) = "answered" /\ RegistryPhase(c)' = "idle"
      /\ RegistryAnswer(c)' = R!Said("none")
  BY <1>1 DEF Inv, TypeOK, RegistryPhase, RegistryAnswer, R!Said, Ended
<1> QED
  BY <1>1, <1>2, <1>3 DEF R!Return, Phases, ToldTo

LEMMA StepRefines == ASSUME Inv, [Next]_vars PROVE [R!Next]_(R!vars)
<1>1. CASE UNCHANGED vars
  <2>1. Phases' = Phases /\ ToldTo' = ToldTo
    BY <1>1 DEF vars, Phases, ToldTo, RegistryPhase, RegistryAnswer
  <2> QED
    BY <1>1, <2>1 DEF vars, R!vars, Phases, ToldTo
<1>2. ASSUME NEW c \in Clients, NEW r \in RequestsOf(load), Arrive(c, r)
      PROVE  R!Next
  BY <1>2, ArriveRefines DEF R!Next
<1>3. ASSUME NEW c \in Clients, Route(c) PROVE [R!Next]_(R!vars)
  BY <1>3, RouteRefines DEF R!Next
<1>4. ASSUME NEW c \in Clients, StoreCall(c) PROVE R!Next
  BY <1>4, StoreCallRefines DEF R!Next
<1>5. ASSUME NEW c \in Clients,
             StoreCallFails(c) \/ StoreAnswerLost(c) \/ Panic(c)
      PROVE  R!Next
  BY <1>5, CallLostRefines DEF R!Next
<1>6. ASSUME NEW c \in Clients, LowerInFlight(c) \/ CountRequest(c)
      PROVE  UNCHANGED R!vars
  BY <1>6, CountingUnseen
<1>7. ASSUME NEW c \in Clients, ObserveDuration(c) PROVE R!Next
  BY <1>7, ObserveRefines DEF R!Next
<1> QED
  BY <1>1, <1>2, <1>3, <1>4, <1>5, <1>6, <1>7 DEF Next

-----------------------------------------------------------------------------
(* The theorems.                                                           *)

\* Every variable of the API keeps its type, for every load: in particular no
\* request, whatever its body, gets a service outside of the CRD's limits
\* stored or shown.
THEOREM TypeCorrect == Spec => []TypeOK
<1>1. Inv => TypeOK
  BY DEF Inv
<1> QED
  BY SpecInv, <1>1, PTL

\* The gauges, the counters and the histograms of the middleware account for
\* every request between any two of requestFinished's updates, however many are
\* handled at a time and wherever their handlers panic.
THEOREM MetricsExact == Spec => []MetricsAccountForRequests
<1>1. Inv => MetricsAccountForRequests
  BY DEF Inv, GaugesExact, CounterComplete, HistogramFollows,
         InFlight, Uncounted, Unobserved, MetricsAccountForRequests
<1> QED
  BY SpecInv, <1>1, PTL

\* The API implements the registry: each request takes effect at most once, at
\* one moment, and is told what happened then.
THEOREM RefinesRegistry == Spec => ImplementsRegistry
<1>1. Inv /\ [Next]_vars => [R!Next]_(R!vars)
  BY StepRefines
<1> QED
  BY SpecInv, InitRefines, <1>1, PTL DEF Spec, ImplementsRegistry, R!Spec

=============================================================================
