---------------------------- MODULE ProcessProofs ---------------------------
(***************************************************************************)
(* Safety of a process from exec to exit, for every environment it may be  *)
(* started in, every timeout and every grace period: what its exit code    *)
(* means, and that a grace period with room for both shutdowns is enough.  *)
(***************************************************************************)
EXTENDS Process, ServersProofs

-----------------------------------------------------------------------------
(* The inductive invariant.                                                *)

Alive == {"setup", "serve", "flush"}

\* SIGTERM is the only signal that ends the context, and the trace runtime is
\* shut down after the servers.
Sequence ==
    /\ ctxDone => term
    /\ stage = "flush" => pc = "returned"

\* The clock after SIGTERM runs only while one of the two shutdowns does, so
\* that what it shows was taken from their timers.
WithinTimeouts ==
    /\ stage = "setup" \/ (deadline = "unset" /\ stage = "serve") =>
         sinceTerm = 0 /\ timer = 0
    /\ stage = "serve" => sinceTerm + timer <= ShutdownTimeout
    /\ stage = "flush" => sinceTerm + timer <= 2 * ShutdownTimeout

ProcessInv ==
    /\ Inv
    /\ env \in Environments
    /\ ProcessTypeOK
    /\ Sequence
    /\ WithinTimeouts
    /\ NeverKilled
    /\ ZeroMeansClean

-----------------------------------------------------------------------------
(* What the process inherits from its servers.                             *)

\* A step of the process is a step of ServeUntilShutdown, or none of it:
\* SIGTERM is its signal.
LEMMA StepOfServers ==
    ASSUME ProcessInv, [ProcessNext]_allVars
    PROVE  /\ [Next]_vars /\ env' = env
           /\ stage # "serve" => UNCHANGED <<pc, deadline>>
           /\ deadline' = "unset" => deadline = "unset"
<1>1. CASE Serve
  <2>1. Main \/ ListenFails \/ ShutdownTimesOut \/ Expire
        \/ \E s \in Server : Goroutine(s) \/ AcceptFails(s) \/ Connection(s)
    BY <1>1 DEF Serve
  <2>2. deadline' = "unset" => deadline = "unset"
    BY <2>1 DEF Main, Listen, SelectResult, SelectDone, BeginShutdown,
         WithTimeout, CallShutdown, ShutdownReturns, StillBusy, PollAgain, Drain,
         Return, ListenFails, ShutdownTimesOut, Expire, Goroutine,
         TrackListener, AcceptStops, SendResult, AcceptFails, Connection,
         Accept, NextRequest, RequestDone, Hangup, connUnchanged, timeVars
  <2> QED
    BY <1>1, <2>1, <2>2 DEF Next, Serve, configVars
<1>2. CASE Terminate
  <2>1. Signal \/ UNCHANGED vars
    BY <1>2 DEF Terminate, Signal, ProcessInv, Sequence, vars, timeVars, Exit
  <2> QED
    BY <1>2, <2>1 DEF Next, Terminate, configVars, mainVars
<1>3. CASE \/ SetUp \/ Export \/ BeginFlush \/ Flushed \/ FlushFails
           \/ Kill \/ Tick \/ UNCHANGED allVars
  BY <1>3 DEF SetUp, Export, BeginFlush, Flushed, FlushFails, Kill, Tick,
              allVars, configVars, vars, mainVars, timeVars
<1> QED
  BY <1>1, <1>2, <1>3 DEF ProcessNext, Gone

LEMMA SetupTypes ==
    /\ Len(SetupSteps) \in {5, 7}
    /\ NewTraceRuntime(env.trace) \in {"noop", "exporting", "error"}
<1>1. Len(SetupSteps) \in {5, 7}
  BY DEF SetupSteps
<1>2. NewTraceRuntime(env.trace) \in {"noop", "exporting", "error"}
  BY DEF NewTraceRuntime
<1> QED
  BY <1>1, <1>2

-----------------------------------------------------------------------------
(* The steps.                                                              *)

LEMMA ProcessInitInv == ProcessInit => ProcessInv
<1> SUFFICES ASSUME ProcessInit PROVE ProcessInv
  OBVIOUS
<1>1. Inv /\ env \in Environments
  BY InitInv DEF ProcessInit
<1>2. ProcessTypeOK
  <2>1. 0 \in 0..env.gracePeriod /\ 0 \in 0..MaxSpans /\ 0 \in 0..Len(SetupSteps)
    BY <1>1, ProcessAssumption, SetupTypes
  <2> QED
    BY <1>1, <2>1 DEF ProcessInit, ProcessTypeOK, Inv
<1> QED
  BY <1>1, <1>2 DEF ProcessInit, Init, ProcessInv, Sequence, WithinTimeouts,
                    NeverKilled, ZeroMeansClean

LEMMA SetUpInv == ASSUME ProcessInv, SetUp, Inv' PROVE ProcessInv'
<1>1. /\ stage = "setup" /\ UNCHANGED <<vars, env, spans, clockVars>>
      /\ SetupSteps' = SetupSteps
  BY DEF SetUp, SetupSteps
<1>2. \/ stage' \in {"setup", "serve"} /\ code' = code
      \/ stage' = "exited" /\ code' = 1
  BY <1>1 DEF SetUp, Exit
<1>3. done' \in 0..Len(SetupSteps)
  BY SetupTypes DEF SetUp, ProcessInv, ProcessTypeOK
<1>4. tracing' \in {"none", "noop", "exporting"}
  <2>1. CASE tracing' = tracing
    BY <2>1 DEF ProcessInv, ProcessTypeOK
  <2>2. CASE tracing' # tracing
    <3>1. SetupSteps[done + 1] = "tracing" /\ StepSucceeds("tracing")
          /\ tracing' = NewTraceRuntime(env.trace)
      BY <2>2 DEF SetUp
    <3>2. NewTraceRuntime(env.trace) # "error"
      BY <3>1 DEF StepSucceeds
    <3> QED
      BY <3>1, <3>2, SetupTypes
  <2> QED
    BY <2>1, <2>2
<1>5. ProcessTypeOK'
  BY <1>1, <1>2, <1>3, <1>4 DEF ProcessInv, ProcessTypeOK, Inv, clockVars
<1>6. Sequence' /\ WithinTimeouts' /\ NeverKilled' /\ ZeroMeansClean'
  BY <1>1, <1>2, ProcessAssumption
     DEF ProcessInv, Sequence, WithinTimeouts, NeverKilled, ZeroMeansClean,
         clockVars, vars, timeVars, mainVars
<1> QED
  BY <1>1, <1>5, <1>6 DEF ProcessInv

LEMMA ServeStepInv ==
    ASSUME ProcessInv, Serve, Inv', deadline' = "unset" => deadline = "unset"
    PROVE  ProcessInv'
<1>1. /\ stage = "serve" /\ UNCHANGED <<configVars, stage, code, term, sinceTerm>>
      /\ SetupSteps' = SetupSteps
  BY DEF Serve, SetupSteps, configVars
<1>2. ctxDone' => ctxDone
  BY DEF Serve, Main, Listen, SelectResult, SelectDone, BeginShutdown,
         WithTimeout, CallShutdown, ShutdownReturns, StillBusy, PollAgain, Drain,
         Return, ListenFails, ShutdownTimesOut, Expire, Goroutine,
         TrackListener, AcceptStops, SendResult, AcceptFails, Connection,
         Accept, NextRequest, RequestDone, Hangup, connUnchanged, timeVars
<1>3. /\ timer' = IF deadline = "unset" /\ deadline' = "running"
                  THEN ShutdownTimeout ELSE timer
      /\ spans' \in 0..MaxSpans
  BY ProcessAssumption DEF Serve, ProcessInv, ProcessTypeOK
<1>4. ProcessTypeOK'
  BY <1>1, <1>3, ProcessAssumption DEF ProcessInv, ProcessTypeOK, Inv, configVars
<1>5. WithinTimeouts'
  BY <1>1, <1>3, ProcessAssumption
     DEF ProcessInv, ProcessTypeOK, WithinTimeouts, Inv, TypeOK
<1>6. Sequence' /\ NeverKilled' /\ ZeroMeansClean'
  BY <1>1, <1>2 DEF ProcessInv, Sequence, NeverKilled, ZeroMeansClean, configVars
<1> QED
  BY <1>1, <1>4, <1>5, <1>6 DEF ProcessInv, configVars

LEMMA ExportInv == ASSUME ProcessInv, Export, Inv' PROVE ProcessInv'
<1> USE DEF configVars, clockVars, vars, mainVars, timeVars
<1>1. /\ stage \in {"serve", "flush"} /\ spans' = 0
      /\ UNCHANGED <<vars, configVars, stage, code, clockVars>>
      /\ SetupSteps' = SetupSteps
  BY DEF Export, SetupSteps
<1>2. ProcessTypeOK'
  BY <1>1, ProcessAssumption DEF ProcessInv, ProcessTypeOK, Inv
<1> QED
  BY <1>1, <1>2 DEF ProcessInv, Sequence, WithinTimeouts, NeverKilled,
                    ZeroMeansClean

LEMMA BeginFlushInv == ASSUME ProcessInv, BeginFlush, Inv' PROVE ProcessInv'
<1> USE DEF configVars, vars, mainVars, timeVars
<1>1. /\ stage = "serve" /\ pc = "returned" /\ stage' = "flush"
      /\ timer' = ShutdownTimeout
      /\ UNCHANGED <<vars, configVars, spans, code, term, sinceTerm>>
      /\ SetupSteps' = SetupSteps
  BY DEF BeginFlush, flushTimeout, SetupSteps
<1>2. ProcessTypeOK'
  BY <1>1, ProcessAssumption DEF ProcessInv, ProcessTypeOK, Inv
<1>3. WithinTimeouts'
  BY <1>1, ProcessAssumption DEF ProcessInv, ProcessTypeOK, WithinTimeouts
<1> QED
  BY <1>1, <1>2, <1>3 DEF ProcessInv, Sequence, NeverKilled, ZeroMeansClean

\* The servers have returned: an exit with 0 says that they returned nil, which
\* means what ErrorTellsWhatHappened and NothingLeftBehind say of it, and that
\* the flush succeeded.
LEMMA FlushInv == ASSUME ProcessInv, Flushed \/ FlushFails, Inv' PROVE ProcessInv'
<1> USE DEF configVars, clockVars, vars, mainVars, serverVars, timeVars
<1>1. /\ stage = "flush" /\ stage' = "exited" /\ pc = "returned"
      /\ UNCHANGED <<vars, configVars, clockVars>>
      /\ SetupSteps' = SetupSteps
  BY DEF Flushed, FlushFails, Exit, SetupSteps, ProcessInv, Sequence
<1>2. /\ code' \in {0, 1} /\ spans' \in {0, spans}
      /\ code' = 0 => errs = {} /\ spans' = 0
  BY DEF Flushed, FlushFails, Exit, exitCode
<1>3. ProcessTypeOK'
  BY <1>1, <1>2, ProcessAssumption DEF ProcessInv, ProcessTypeOK, Inv
<1>4. ZeroMeansClean'
  <2> SUFFICES ASSUME errs = {}, spans' = 0 PROVE ZeroMeansClean'
    BY <1>2 DEF ZeroMeansClean
  <2>1. ctxDone /\ term /\ cut = {} /\ \A s \in Server : outcome[s] # "failed"
    BY <1>1 DEF ProcessInv, Inv, ErrorTellsWhatHappened, Sequence
  <2>2. \A s \in Server : listener[s] # "open"
    BY <1>1 DEF ProcessInv, Inv, NothingLeftBehind
  <2> QED
    BY <1>1, <2>1, <2>2 DEF ZeroMeansClean
<1> QED
  BY <1>1, <1>3, <1>4 DEF ProcessInv, Sequence, WithinTimeouts, NeverKilled

LEMMA TerminateInv == ASSUME ProcessInv, Terminate, Inv' PROVE ProcessInv'
<1> USE DEF configVars, mainVars
<1>1. /\ stage \in Alive /\ term' = TRUE
      /\ UNCHANGED <<pc, deadline, configVars, spans, sinceTerm, timer>>
      /\ \/ UNCHANGED <<stage, code>>
         \/ stage' = "exited" /\ code' = 143
      /\ SetupSteps' = SetupSteps
  BY DEF Terminate, Exit, SetupSteps, Alive
<1>2. ProcessTypeOK'
  BY <1>1 DEF ProcessInv, ProcessTypeOK, Inv
<1> QED
  BY <1>1, <1>2 DEF ProcessInv, Alive, Sequence, WithinTimeouts, NeverKilled,
                    ZeroMeansClean

\* While the process lives SIGKILL is due only if the two timers took the whole
\* grace period.
LEMMA KillInv == ASSUME ProcessInv, Kill, Inv' PROVE ProcessInv'
<1> USE DEF configVars, clockVars, vars, mainVars, timeVars
<1>1. /\ stage \in Alive /\ stage' = "killed" /\ sinceTerm = env.gracePeriod
      /\ UNCHANGED <<vars, configVars, spans, code, clockVars>>
      /\ SetupSteps' = SetupSteps
  BY DEF Kill, SetupSteps, Alive
<1>2. ProcessTypeOK'
  BY <1>1 DEF ProcessInv, ProcessTypeOK, Inv
<1>3. env.gracePeriod \in Nat \ {0} /\ sinceTerm <= 2 * ShutdownTimeout
  BY <1>1, ProcessAssumption DEF ProcessInv, ProcessTypeOK, WithinTimeouts, Alive
<1>4. NeverKilled'
  BY <1>1, <1>3, ProcessAssumption DEF NeverKilled
<1> QED
  BY <1>1, <1>2, <1>4 DEF ProcessInv, Sequence, WithinTimeouts, ZeroMeansClean

LEMMA SumsBelow ==
    \A a, b, c, d, n \in Nat : a + b <= c + d /\ c + d <= n => a + b <= n
  OBVIOUS

\* A Tick takes from the timer what it adds to the clock.
LEMMA TickInv == ASSUME ProcessInv, Tick, Inv' PROVE ProcessInv'
<1> USE DEF configVars, vars, mainVars, timeVars
<1>1. /\ timer > 0 /\ timer' = timer - 1 /\ sinceTerm < env.gracePeriod
      /\ sinceTerm' \in {sinceTerm, sinceTerm + 1}
      /\ UNCHANGED <<vars, configVars, stage, spans, code, term>>
      /\ SetupSteps' = SetupSteps
  BY DEF Tick, SetupSteps
<1>2. stage = "flush" \/ (stage = "serve" /\ deadline = "running")
  BY DEF Tick, Waits
<1>3. ProcessTypeOK'
  BY <1>1, ProcessAssumption DEF ProcessInv, ProcessTypeOK, Inv
<1>4. WithinTimeouts'
  <2>1. timer \in Nat /\ sinceTerm \in Nat /\ ShutdownTimeout \in Nat
    BY ProcessAssumption DEF ProcessInv, ProcessTypeOK
  <2>2. timer > 0 /\ timer' = timer - 1
    BY DEF Tick
  <2>3. sinceTerm' = sinceTerm \/ sinceTerm' = sinceTerm + 1
    BY DEF Tick
  <2>4. /\ timer' \in Nat /\ sinceTerm' \in Nat
        /\ sinceTerm' + timer' <= sinceTerm + timer
    BY <2>1, <2>2, <2>3
  <2>5. UNCHANGED <<stage, deadline>>
    BY <1>1
  <2> QED
    <3>1. CASE stage = "serve"
      <4>1. sinceTerm + timer <= ShutdownTimeout
        BY <3>1 DEF ProcessInv, WithinTimeouts
      <4>2. sinceTerm' + timer' <= ShutdownTimeout
        BY <2>1, <2>4, <4>1, SumsBelow
      <4> QED
        BY <1>2, <2>5, <3>1, <4>2 DEF WithinTimeouts
    <3>2. CASE stage = "flush"
      <4>1. sinceTerm + timer <= 2 * ShutdownTimeout /\ 2 * ShutdownTimeout \in Nat
        BY <2>1, <3>2 DEF ProcessInv, WithinTimeouts
      <4>2. sinceTerm' + timer' <= 2 * ShutdownTimeout
        BY <2>1, <2>4, <4>1, SumsBelow
      <4> QED
        BY <2>5, <3>2, <4>2 DEF WithinTimeouts
    <3> QED
      BY <1>2, <3>1, <3>2
<1> QED
  BY <1>1, <1>2, <1>3, <1>4 DEF ProcessInv, Sequence, NeverKilled, ZeroMeansClean

LEMMA ProcessStepInv ==
    ASSUME ProcessInv, [ProcessNext]_allVars PROVE ProcessInv'
<1>1. Inv' /\ (deadline' = "unset" => deadline = "unset")
  BY StepOfServers, StepInv DEF ProcessInv
<1>2. CASE Gone \/ UNCHANGED allVars
  <2>1. UNCHANGED <<vars, configVars, stage, spans, code, clockVars>>
    BY <1>2 DEF Gone, allVars
  <2>2. SetupSteps' = SetupSteps
    BY <2>1 DEF SetupSteps, configVars
  <2> QED
    BY <1>1, <2>1, <2>2
       DEF configVars, clockVars, vars, mainVars, serverVars, timeVars,
           ProcessInv, ProcessTypeOK, Inv, Sequence, WithinTimeouts,
           NeverKilled, ZeroMeansClean
<1> QED
  BY <1>1, <1>2, SetUpInv, ServeStepInv, ExportInv, BeginFlushInv, FlushInv,
     TerminateInv, KillInv, TickInv DEF ProcessNext

LEMMA ProcessSpecInv == ProcessSpec => []ProcessInv
<1>1. ProcessInv /\ [ProcessNext]_allVars => ProcessInv'
  BY ProcessStepInv
<1> QED
  BY ProcessInitInv, <1>1, PTL DEF ProcessSpec

-----------------------------------------------------------------------------
(* The theorems.                                                           *)

\* Every variable of the process keeps its type: the setup stays within its
\* steps, the kubelet's clock within the grace period, and a trace runtime that
\* could not be made is not used.
THEOREM ProcessTypeCorrect == ProcessSpec => []ProcessTypeOK
<1>1. ProcessInv => ProcessTypeOK
  BY DEF ProcessInv
<1> QED
  BY ProcessSpecInv, <1>1, PTL

\* Whatever ShutdownTimeout is, a grace period longer than twice that is never
\* used up: no process that has it is killed.
THEOREM GracePeriodSuffices == ProcessSpec => []NeverKilled
<1>1. ProcessInv => NeverKilled
  BY DEF ProcessInv
<1> QED
  BY ProcessSpecInv, <1>1, PTL

\* Exit code 0 means a requested and complete shutdown, for any number of
\* servers and in every environment.
THEOREM ExitCodeTruthful == ProcessSpec => []ZeroMeansClean
<1>1. ProcessInv => ZeroMeansClean
  BY DEF ProcessInv
<1> QED
  BY ProcessSpecInv, <1>1, PTL

=============================================================================
