------------------------------ MODULE Process -------------------------------
(***************************************************************************)
(* The processes control-plane-api and demo-http from exec to exit         *)
(* (cmd/control-plane-api/main.go, cmd/demo-http/main.go): they configure  *)
(* themselves, run the two servers of Servers, flush their traces, and     *)
(* exit; the kubelet sends SIGTERM when the Pod is deleted, and SIGKILL    *)
(* when its grace period is over.                                          *)
(*                                                                         *)
(* Time passes in Ticks, only while the program waits: for requests in     *)
(* progress, or for the trace exporter.  What it computes takes no time.   *)
(***************************************************************************)
EXTENDS Servers, Config

CONSTANTS
    Environments,      \* what is started, and in which environment
    ShutdownTimeout,   \* Ticks that each of the two shutdowns may take
    MaxSpans           \* the buffer of finished spans saturates here

ASSUME ProcessAssumption ==
    /\ \A e \in Environments : /\ e.program \in {"control-plane-api", "demo-http"}
                               /\ e.gracePeriod \in Nat \ {0}
    /\ ShutdownTimeout \in Nat \ {0} /\ MaxSpans \in Nat \ {0}

VARIABLES
    env,         \* the program, its environment, and the Ticks between
                 \* SIGTERM and SIGKILL
    stage,       \* "setup", "serve", "flush", "exited" or "killed"
    done,        \* steps of the setup done
    tracing,     \* the trace runtime: "none", "noop" or "exporting"
    spans,       \* finished spans in the buffer of the exporter
    code,        \* exit code
    term,        \* SIGTERM was sent
    sinceTerm,   \* Ticks since
    timer        \* Ticks left of the shutdown in progress

configVars == <<env, done, tracing>>
clockVars == <<term, sinceTerm, timer>>
allVars == <<vars, configVars, stage, spans, code, clockVars>>

ProcessInit ==
    /\ Init /\ env \in Environments
    /\ stage = "setup" /\ done = 0 /\ tracing = "none" /\ spans = 0
    /\ code = 0 /\ term = FALSE /\ sinceTerm = 0 /\ timer = 0

-----------------------------------------------------------------------------
(* Setting up.                                                             *)

\* The steps of run in their order: the two programs install the signal
\* handler ("notify") at different points.
SetupSteps ==
    IF env.program = "control-plane-api"
    THEN <<"token", "port", "metricsPort", "client", "notify", "tracing", "metrics">>
    ELSE <<"port", "metricsPort", "metrics", "tracing", "notify">>

Notified == "notify" \in {SetupSteps[i] : i \in 1..done}

\* A trace runtime that could not be made is used all the same.
IgnoresTraceError(name) ==
    CASE name = "token" -> LoadToken(env.tokenFile) # NoToken
      [] name = "port" -> ParsePort(env.port) # NoPort
      [] name = "metricsPort" ->
           ParseMetricsPort(env.metricsPort, ParsePort(env.port)) # NoPort
      [] name = "client" -> env.kubeconfig
      [] OTHER -> TRUE

\* A step fails on a bad environment; the Kubernetes client also on what is
\* not modelled, a missing kubeconfig.
StepSucceeds(name) ==
    CASE name = "token" -> LoadToken(env.tokenFile) # NoToken
      [] name = "port" -> ParsePort(env.port) # NoPort
      [] name = "metricsPort" ->
           ParseMetricsPort(env.metricsPort, ParsePort(env.port)) # NoPort
      [] name = "client" -> env.kubeconfig
      [] name = "tracing" -> NewTraceRuntime(env.trace) # "error"
      [] OTHER -> TRUE

Exit(status) == stage' = "exited" /\ code' = status

SetUp ==
    /\ stage = "setup" /\ done < Len(SetupSteps)
    /\ LET name == SetupSteps[done + 1]
       IN IF StepSucceeds(name)
          THEN /\ done' = done + 1
               /\ tracing' = IF name = "tracing" THEN NewTraceRuntime(env.trace)
                                                 ELSE tracing
               /\ stage' = IF done' = Len(SetupSteps) THEN "serve" ELSE stage
               /\ UNCHANGED code
          ELSE /\ Exit(1)
               /\ UNCHANGED <<done, tracing>>
    /\ UNCHANGED <<vars, env, spans, clockVars>>

-----------------------------------------------------------------------------
(* Serving.                                                                *)

\* A request that ends at the public server, the first, ends its span.
EndsSpan == active'[1] < active[1] /\ cut' = cut

\* A step of ServeUntilShutdown, or of its goroutines and connections.
Serve ==
    /\ stage = "serve"
    /\ \/ Main \/ ListenFails \/ ShutdownTimesOut
       \/ timer = 0 /\ Expire
       \/ \E s \in Server : Goroutine(s) \/ AcceptFails(s) \/ Connection(s)
    /\ timer' = IF deadline = "unset" /\ deadline' = "running"
                THEN ShutdownTimeout ELSE timer
    /\ spans' = IF tracing = "exporting" /\ EndsSpan /\ spans < MaxSpans
                THEN spans + 1 ELSE spans
    /\ UNCHANGED <<configVars, stage, code, term, sinceTerm>>

\* The batch processor exports, or drops, what is in its buffer.
Export ==
    /\ stage \in {"serve", "flush"}
    /\ spans > 0 /\ spans' = 0
    /\ UNCHANGED <<vars, configVars, stage, code, clockVars>>

-----------------------------------------------------------------------------
(* The shutdown of the trace runtime, in a context of its own.             *)

\* It is given no deadline.
noFlushTimeout == env.gracePeriod + 1

flushTimeout == ShutdownTimeout

BeginFlush ==
    /\ stage = "serve" /\ pc = "returned"
    /\ stage' = "flush"
    /\ timer' = flushTimeout
    /\ UNCHANGED <<vars, configVars, spans, code, term, sinceTerm>>

\* The error of the flush is logged and forgotten.
codeOfServers(flushErr) == IF errs = {} THEN 0 ELSE 1

\* main exits with 1 if either shutdown returned an error.
exitCode(flushErr) == IF errs = {} /\ ~flushErr THEN 0 ELSE 1

\* Shutdown returns nil once the buffer was handed to the exporter.
Flushed ==
    /\ stage = "flush"
    /\ spans' = 0
    /\ Exit(exitCode(FALSE))
    /\ UNCHANGED <<vars, configVars, clockVars>>

\* It returns an error: of the exporter, or of the deadline.
FlushFails ==
    /\ stage = "flush" /\ tracing = "exporting" /\ Exit(exitCode(TRUE))
    /\ UNCHANGED <<vars, configVars, spans, clockVars>>

-----------------------------------------------------------------------------
(* The kubelet and the clock.                                              *)

\* SIGTERM ends a process that has not installed its handler.
Terminate ==
    /\ ~term /\ stage \in {"setup", "serve", "flush"}
    /\ term' = TRUE
    /\ IF Notified THEN ctxDone' = TRUE /\ UNCHANGED <<stage, code>>
                   ELSE Exit(143) /\ UNCHANGED ctxDone
    /\ UNCHANGED <<mainVars, serverVars, connVars, cut, results, deadline,
                   configVars, spans, sinceTerm, timer>>

\* The kubelet's clock started before the program's: at a tie it may be first.
Kill ==
    /\ sinceTerm = env.gracePeriod /\ stage \in {"setup", "serve", "flush"}
    /\ stage' = "killed"
    /\ UNCHANGED <<vars, configVars, spans, code, clockVars>>

\* The program waits: in a poll of Shutdown with requests in progress while
\* every goroutine is at rest, or for the exporter.
Waits ==
    \/ /\ stage = "serve"
       /\ pc = "waiting" /\ active[index] > 0 /\ deadline = "running"
       /\ \A s \in Server : serve[s] \in {"accepting", "sent"} /\
                            (serve[s] = "accepting" => s \notin closing)
    \/ stage = "flush" /\ tracing = "exporting"

Tick ==
    /\ Waits /\ timer > 0 /\ sinceTerm < env.gracePeriod
    /\ timer' = timer - 1
    /\ sinceTerm' = IF term THEN sinceTerm + 1 ELSE sinceTerm
    /\ UNCHANGED <<vars, configVars, stage, spans, code, term>>

Gone == stage \in {"exited", "killed"} /\ UNCHANGED allVars

-----------------------------------------------------------------------------
ProcessNext ==
    \/ SetUp \/ Serve \/ Export
    \/ BeginFlush \/ Flushed \/ FlushFails
    \/ Terminate \/ Kill \/ Tick
    \/ Gone

\* The program runs, time passes, and the kubelet kills.  Of a flush that can
\* end and a clock that can tick, each is taken some time.
ProcessFairness ==
    /\ WF_allVars(SetUp)
    /\ WF_allVars(stage = "serve" /\ Main /\ Serve)
    /\ WF_allVars(stage = "serve" /\ Expire /\ Serve)
    /\ SF_allVars(stage = "serve" /\ ShutdownTimesOut /\ Serve)
    /\ \A s \in Server : WF_allVars(stage = "serve" /\ Goroutine(s) /\ Serve)
    /\ WF_allVars(BeginFlush)
    /\ WF_allVars(timer = 0 /\ FlushFails)
    /\ WF_allVars(tracing = "noop" /\ Flushed)
    /\ SF_allVars(Tick)
    /\ WF_allVars(Kill)

ProcessSpec == ProcessInit /\ [][ProcessNext]_allVars /\ ProcessFairness

-----------------------------------------------------------------------------
(* Properties.                                                             *)

\* Every variable of the process has its type: in particular the steps of the
\* setup stay within their number, and no broken trace runtime is used.
ProcessTypeOK ==
    /\ TypeOK
    /\ stage \in {"setup", "serve", "flush", "exited", "killed"}
    /\ done \in 0..Len(SetupSteps)
    /\ tracing \in {"none", "noop", "exporting"}
    /\ spans \in 0..MaxSpans
    /\ code \in {0, 1, 143}
    /\ term \in BOOLEAN
    /\ sinceTerm \in 0..env.gracePeriod
    /\ timer \in Nat

\* A grace period with room for both shutdowns, as that of control-plane-api,
\* is enough: the kubelet never has to kill the process, however long requests
\* and the trace exporter take and whatever they wait for (shutdownTimeout,
\* used twice, one after the other).
NeverKilled == env.gracePeriod > 2 * ShutdownTimeout => stage # "killed"

\* Both programs complete their bounded shutdown within the grace period that
\* their Pods have (terminationGracePeriodSeconds), as the deployment guide
\* requires.
ShutdownCompletes == stage # "killed"

\* Exit code 0 tells the truth: the process was asked to stop, no server
\* failed, no request was cut off, nothing is left open, and every span that
\* ended was handed to the exporter.
ZeroMeansClean ==
    (stage = "exited" /\ code = 0) =>
      /\ term /\ ctxDone
      /\ \A s \in Server : outcome[s] # "failed" /\ listener[s] # "open"
      /\ cut = {}
      /\ spans = 0

\* Once it is asked to stop, or one of its servers failed, the process ends.
EventuallyGone ==
    (term \/ \E s \in Server : outcome[s] = "failed")
      ~> stage \in {"exited", "killed"}

=============================================================================
