------------------------------ MODULE Registry ------------------------------
(***************************************************************************)
(* What the control-plane API promises its clients: a registry of named    *)
(* services.  A request takes effect at most once, at one moment between   *)
(* its arrival and its answer, and the answer says what happened at that   *)
(* moment.  Only an answer "unknown" leaves open whether it took effect.   *)
(***************************************************************************)
EXTENDS Naturals

CONSTANTS
    Clients,
    Names,
    NoService,     \* a name that is free
    NoRequest,     \* a client that waits for nothing
    Requests,      \* what clients may send
    Op(_),         \* what a request asks of the registry, or "none"
    NameOf(_),     \* the name it is about
    SpecOf(_)      \* the service it creates

VARIABLES
    services,      \* the registry: [Names -> a service or NoService]
    pending,       \* the request of each client
    phase,         \* "idle", "pending" or "answered"
    answer         \* what the client is told

vars == <<services, pending, phase, answer>>

\* An answer that carries no service.
Said(what) == [what |-> what, seen |-> {}]

Init ==
    /\ services = [n \in Names |-> NoService]
    /\ pending = [c \in Clients |-> NoRequest]
    /\ phase = [c \in Clients |-> "idle"]
    /\ answer = [c \in Clients |-> Said("none")]

Arrive(c) ==
    /\ phase[c] = "idle"
    /\ phase' = [phase EXCEPT ![c] = "pending"]
    /\ \E r \in Requests : pending' = [pending EXCEPT ![c] = r]
    /\ UNCHANGED <<services, answer>>

Answer(c, a) ==
    /\ phase[c] = "pending"
    /\ phase' = [phase EXCEPT ![c] = "answered"]
    /\ answer' = [answer EXCEPT ![c] = a]
    /\ UNCHANGED pending

\* The registry after the request, and what it then answers.
Effect(r) ==
    LET n == NameOf(r)
    IN CASE Op(r) = "create" /\ services[n] = NoService ->
              [services EXCEPT ![n] = SpecOf(r)]
         [] Op(r) = "delete" /\ services[n] # NoService ->
              [services EXCEPT ![n] = NoService]
         [] OTHER -> services

Outcome(r) ==
    LET n == NameOf(r)
        taken == services[n] # NoService
    IN CASE Op(r) = "create" ->
              IF taken THEN Said("exists")
                       ELSE [what |-> "created", seen |-> {SpecOf(r)}]
         [] Op(r) = "delete" -> Said(IF taken THEN "deleted" ELSE "missing")
         [] Op(r) = "get" ->
              IF taken THEN [what |-> "found", seen |-> {services[n]}]
                       ELSE Said("missing")
         [] Op(r) = "list" ->
              [what |-> "found",
               seen |-> {services[m] : m \in Names} \ {NoService}]

Perform(c) ==
    /\ phase[c] = "pending" /\ Op(pending[c]) # "none"
    /\ Answer(c, Outcome(pending[c]))
    /\ services' = Effect(pending[c])

\* A call that failed on the way: it may have taken effect or not.
Lose(c) ==
    /\ phase[c] = "pending" /\ Op(pending[c]) # "none"
    /\ Answer(c, Said("unknown"))
    /\ services' \in {services, Effect(pending[c])}

\* A request that is not for the registry, or that it does not accept.
Decline(c) ==
    /\ phase[c] = "pending" /\ Op(pending[c]) = "none"
    /\ Answer(c, Said("declined"))
    /\ UNCHANGED services

Return(c) ==
    /\ phase[c] = "answered"
    /\ phase' = [phase EXCEPT ![c] = "idle"]
    /\ answer' = [answer EXCEPT ![c] = Said("none")]
    /\ pending' = [pending EXCEPT ![c] = NoRequest]
    /\ UNCHANGED services

Next ==
    \E c \in Clients :
      Arrive(c) \/ Perform(c) \/ Lose(c) \/ Decline(c) \/ Return(c)

Spec == Init /\ [][Next]_vars

=============================================================================
