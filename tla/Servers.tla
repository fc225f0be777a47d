------------------------------ MODULE Servers -------------------------------
(***************************************************************************)
(* ServeUntilShutdown (internal/telemetry/server.go): the process that     *)
(* runs the public and the metrics server of control-plane-api and of      *)
(* demo-http, and stops both on a signal or on the failure of one.         *)
(*                                                                         *)
(* The steps of net/http's Serve, Shutdown and Close are external and      *)
(* modelled as this code relies on them.                                   *)
(***************************************************************************)
EXTENDS Naturals, Sequences

CONSTANTS
    N,           \* how many servers there are
    MaxConns     \* how many connections one server has at a time

ASSUME ServersAssumption == N \in Nat \ {0} /\ MaxConns \in Nat

Server == 1..N

VARIABLES
    pc,          \* where ServeUntilShutdown is
    index,       \* the server it listens for or shuts down
    listener,    \* "none", "open" or "closed"
    serve,       \* where the goroutine of each server is
    outcome,     \* what Serve returned: "none", "closed" or "failed"
    closing,     \* servers that Shutdown was called on
    active,      \* connections with a request in progress
    idle,        \* connections kept alive
    cut,         \* servers whose Close ended requests in progress
    results,     \* the channel of results
    received,    \* results taken from it
    errs,        \* the kinds of error joined into resultErr
    ctxDone,     \* a signal arrived
    deadline     \* of shutdownCtx: "unset", "running" or "expired"

mainVars == <<pc, index, received, errs>>
connVars == <<active, idle>>
serverVars == <<listener, serve, outcome, closing>>
timeVars == <<ctxDone, deadline>>
vars == <<mainVars, serverVars, connVars, cut, results, timeVars>>

Init ==
    /\ pc = "listen" /\ index = 1 /\ listener = [s \in Server |-> "none"]
    /\ serve = [s \in Server |-> "none"]
    /\ outcome = [s \in Server |-> "none"] /\ closing = {}
    /\ active = [s \in Server |-> 0] /\ idle = [s \in Server |-> 0]
    /\ cut = {} /\ results = <<>> /\ received = 0
    /\ errs = {} /\ ctxDone = FALSE /\ deadline = "unset"

-----------------------------------------------------------------------------
(* Starting.                                                               *)

\* The next listener opens; after the last one every server gets its goroutine.
Listen ==
    /\ pc = "listen"
    /\ listener' = [listener EXCEPT ![index] = "open"]
    /\ IF index = N
       THEN /\ pc' = "select"
            /\ serve' = [s \in Server |-> "starting"]
            /\ UNCHANGED index
       ELSE /\ index' = index + 1
            /\ UNCHANGED <<pc, serve>>
    /\ UNCHANGED <<received, errs, outcome, closing, connVars, cut, results,
                   timeVars>>

\* A server is not configured, or its address cannot be listened on.
ListenFails ==
    /\ pc = "listen"
    /\ listener' = [s \in Server |->
                      IF listener[s] = "open" THEN "closed" ELSE listener[s]]
    /\ pc' = "returned"
    /\ errs' = {"listen"}
    /\ UNCHANGED <<index, received, serve, outcome, closing, connVars, cut,
                   results, timeVars>>

-----------------------------------------------------------------------------
(* The goroutine of a server: Serve, then its result into the channel.     *)

\* Serve returns and its deferred Close closes the listener.
ServeReturns(s, why) ==
    /\ serve' = [serve EXCEPT ![s] = "returned"]
    /\ outcome' = [outcome EXCEPT ![s] = why]
    /\ listener' = [listener EXCEPT ![s] = "closed"]

\* Serve registers its listener, unless Shutdown was called before.
TrackListener(s) ==
    /\ serve[s] = "starting"
    /\ IF s \in closing
       THEN ServeReturns(s, "closed")
       ELSE /\ serve' = [serve EXCEPT ![s] = "accepting"]
            /\ UNCHANGED <<listener, outcome>>
    /\ UNCHANGED <<mainVars, closing, connVars, cut, results, timeVars>>

\* Accept fails although nobody closed the listener.
AcceptFails(s) ==
    /\ serve[s] = "accepting" /\ s \notin closing
    /\ ServeReturns(s, "failed")
    /\ UNCHANGED <<mainVars, closing, connVars, cut, results, timeVars>>

\* Accept returns because Shutdown closed the listener.
AcceptStops(s) ==
    /\ serve[s] = "accepting" /\ s \in closing /\ ServeReturns(s, "closed")
    /\ UNCHANGED <<mainVars, closing, connVars, cut, results, timeVars>>

SendResult(s) ==
    /\ serve[s] = "returned" /\ Len(results) < N
    /\ results' = Append(results, s)
    /\ serve' = [serve EXCEPT ![s] = "sent"]
    /\ UNCHANGED <<mainVars, listener, outcome, closing, connVars, cut,
                   timeVars>>

-----------------------------------------------------------------------------
(* Connections.                                                            *)

connUnchanged == UNCHANGED <<mainVars, serverVars, cut, results, timeVars>>

Accept(s) ==
    /\ serve[s] = "accepting" /\ listener[s] = "open"
    /\ active[s] + idle[s] < MaxConns
    /\ active' = [active EXCEPT ![s] = @ + 1]
    /\ UNCHANGED idle
    /\ connUnchanged

NextRequest(s) ==
    /\ idle[s] > 0
    /\ idle' = [idle EXCEPT ![s] = @ - 1]
    /\ active' = [active EXCEPT ![s] = @ + 1]
    /\ connUnchanged

\* A connection is kept alive after its request only while the server runs.
RequestDone(s) ==
    /\ active[s] > 0
    /\ active' = [active EXCEPT ![s] = @ - 1]
    /\ idle' = IF s \in closing THEN idle ELSE [idle EXCEPT ![s] = @ + 1]
    /\ connUnchanged

Hangup(s) ==
    /\ idle[s] > 0
    /\ idle' = [idle EXCEPT ![s] = @ - 1]
    /\ UNCHANGED active
    /\ connUnchanged

-----------------------------------------------------------------------------
(* Waiting for a reason to stop.                                           *)

Signal ==
    /\ ~ctxDone
    /\ ctxDone' = TRUE
    /\ UNCHANGED <<mainVars, serverVars, connVars, cut, results, deadline>>

\* context.WithCancel in its place.
WithoutTimeout == UNCHANGED deadline

WithTimeout == deadline' = "running"

BeginShutdown ==
    /\ pc' = "shutdown" /\ index' = 1
    /\ WithTimeout
    /\ UNCHANGED <<serverVars, connVars, cut, ctxDone>>

SelectResult ==
    /\ pc = "select" /\ results # <<>>
    /\ results' = Tail(results)
    /\ received' = received + 1
    /\ errs' = CASE outcome[Head(results)] = "failed" -> {"serve"}
                 [] outcome[Head(results)] = "closed" /\ ~ctxDone -> {"stopped"}
                 [] OTHER -> {}
    /\ BeginShutdown

SelectDone ==
    /\ pc = "select" /\ ctxDone
    /\ BeginShutdown
    /\ UNCHANGED <<received, errs, results>>

Expire ==
    /\ deadline = "running"
    /\ deadline' = "expired"
    /\ UNCHANGED <<mainVars, serverVars, connVars, cut, results, ctxDone>>

-----------------------------------------------------------------------------
(* Shutting down one server after the other, all before one deadline.      *)

\* Shutdown closes the listener that Serve registered, if it did.
CallShutdown ==
    /\ pc = "shutdown"
    /\ closing' = closing \cup {index}
    /\ listener' = IF serve[index] = "accepting"
                   THEN [listener EXCEPT ![index] = "closed"]
                   ELSE listener
    /\ pc' = "polling"
    /\ UNCHANGED <<index, received, errs, serve, outcome, connVars, cut,
                   results, timeVars>>

\* The loop over the servers runs one too far.
OneServerTooMany ==
    IF index > N THEN pc' = "drain" /\ UNCHANGED index
                 ELSE pc' = "shutdown" /\ index' = index + 1

NextServer ==
    IF index = N THEN pc' = "drain" /\ UNCHANGED index
                 ELSE pc' = "shutdown" /\ index' = index + 1

\* Shutdown waits until Serve has let go of its listener, and closes the idle
\* connections.
ClosesIdle ==
    /\ pc = "polling" /\ serve[index] # "accepting"
    /\ idle' = [idle EXCEPT ![index] = 0]

ShutdownReturns ==
    /\ ClosesIdle /\ active[index] = 0
    /\ NextServer
    /\ UNCHANGED <<received, errs, serverVars, active, cut, results, timeVars>>

StillBusy ==
    /\ ClosesIdle /\ active[index] > 0
    /\ pc' = "waiting"
    /\ UNCHANGED <<index, received, errs, serverVars, active, cut, results,
                   timeVars>>

PollAgain ==
    /\ pc = "waiting"
    /\ pc' = "polling"
    /\ UNCHANGED <<index, received, errs, serverVars, connVars, cut, results,
                   timeVars>>

\* The first error is kept and later ones are not.
onlyTheFirst(e) == IF errs = {} THEN {e} ELSE errs

\* errors.Join of resultErr and another error.
joined(e) == errs \cup {e}

CloseServer ==
    /\ cut' = IF active[index] > 0 THEN cut \cup {index} ELSE cut
    /\ active' = [active EXCEPT ![index] = 0]
    /\ idle' = [idle EXCEPT ![index] = 0]
    /\ NextServer

\* The deadline passed while requests were in progress: Shutdown returns its
\* error and Close ends them.
ShutdownTimesOut ==
    /\ pc = "waiting" /\ deadline = "expired" /\ CloseServer
    /\ errs' = joined("shutdown")
    /\ UNCHANGED <<received, serverVars, results, timeVars>>

Drain ==
    /\ pc = "drain" /\ received < N
    /\ results # <<>>
    /\ results' = Tail(results)
    /\ received' = received + 1
    /\ errs' = IF outcome[Head(results)] = "failed" THEN joined("serve") ELSE errs
    /\ UNCHANGED <<pc, index, serverVars, connVars, cut, timeVars>>

\* The results that are still to come are not waited for.
channelEmpty == results = <<>>

allReceived == received = N

Return ==
    /\ pc = "drain" /\ allReceived
    /\ pc' = "returned"
    /\ UNCHANGED <<index, received, errs, serverVars, connVars, cut, results,
                   timeVars>>

Terminated == pc = "returned" /\ UNCHANGED vars

-----------------------------------------------------------------------------
Main ==
    \/ Listen \/ SelectResult \/ SelectDone
    \/ CallShutdown \/ ShutdownReturns \/ StillBusy \/ PollAgain
    \/ Drain \/ Return

Goroutine(s) == TrackListener(s) \/ AcceptStops(s) \/ SendResult(s)

Connection(s) == Accept(s) \/ NextRequest(s) \/ RequestDone(s) \/ Hangup(s)

Next ==
    \/ Main
    \/ ListenFails
    \/ ShutdownTimesOut
    \/ Signal
    \/ Expire
    \/ \E s \in Server : Goroutine(s) \/ AcceptFails(s) \/ Connection(s)
    \/ Terminated

\* The goroutines are scheduled and time passes.  A request need never end.
\* Of the cases of a select that stay ready each is taken at some time.
Fairness ==
    /\ WF_vars(Main)
    /\ WF_vars(Expire)
    /\ SF_vars(ShutdownTimesOut)
    /\ \A s \in Server : WF_vars(Goroutine(s))

Safety == Init /\ [][Next]_vars

Spec == Safety /\ Fairness

-----------------------------------------------------------------------------
(* Properties.                                                             *)

\* Every variable has its type: in particular the loops of ServeUntilShutdown
\* stay within the servers, and no more results are received than there are
\* servers.
TypeOK ==
    /\ pc \in {"listen", "select", "shutdown", "polling", "waiting", "drain",
               "returned"}
    /\ index \in Server
    /\ listener \in [Server -> {"none", "open", "closed"}]
    /\ serve \in [Server -> {"none", "starting", "accepting", "returned", "sent"}]
    /\ outcome \in [Server -> {"none", "closed", "failed"}]
    /\ closing \subseteq Server
    /\ active \in [Server -> Nat]
    /\ idle \in [Server -> Nat]
    /\ cut \subseteq Server
    /\ results \in Seq(Server)
    /\ received \in 0..N
    /\ errs \subseteq {"listen", "serve", "stopped", "shutdown"}
    /\ ctxDone \in BOOLEAN
    /\ deadline \in {"unset", "running", "expired"}

\* When ServeUntilShutdown returns, by whichever way, it has left nothing
\* behind: no open listener, no goroutine still serving or sending, and no
\* connection.
NothingLeftBehind ==
    pc = "returned" =>
      \A s \in Server : /\ listener[s] # "open"
                        /\ serve[s] \in {"none", "sent"}
                        /\ active[s] = 0 /\ idle[s] = 0

\* The error that ServeUntilShutdown returns says what happened: a server that
\* failed and requests that were cut off are in it, whenever they happened, and
\* nil is returned only after a signal.
ErrorTellsWhatHappened ==
    pc = "returned" =>
      /\ ("serve" \in errs) <=> (\E s \in Server : outcome[s] = "failed")
      /\ cut # {} => "shutdown" \in errs
      /\ errs = {} => ctxDone

\* The shutdown is bounded: after a signal, or after one server failed,
\* ServeUntilShutdown returns, even when requests never end.
EventuallyReturns ==
    (ctxDone \/ \E s \in Server : outcome[s] = "failed") ~> (pc = "returned")

=============================================================================
