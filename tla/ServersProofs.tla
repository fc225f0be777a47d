---------------------------- MODULE ServersProofs ---------------------------
(***************************************************************************)
(* Safety of ServeUntilShutdown, for every number of servers and of        *)
(* connections, and whatever fails, signals and expires in whichever order.*)
(***************************************************************************)
EXTENDS Servers, FiniteSetTheorems, SequenceTheorems, TLAPS

-----------------------------------------------------------------------------
(* The inductive invariant.                                                *)

Sent == {s \in Server : serve[s] = "sent"}

Queued == {results[i] : i \in DOMAIN results}

\* The channel holds results of goroutines that sent theirs, each once, and
\* none was lost: what was received and what is in it are all that were sent.
ResultsCounted ==
    /\ Queued \subseteq Sent
    /\ \A i, j \in DOMAIN results : results[i] = results[j] => i = j
    /\ received + Len(results) = Cardinality(Sent)

\* What is known of a goroutine from where it is.  Serve returns
\* ErrServerClosed only after Shutdown was called.
GoroutineOK(s) ==
    /\ serve[s] \in {"none", "starting", "accepting"} <=> outcome[s] = "none"
    /\ outcome[s] = "closed" => s \in closing
    /\ serve[s] \in {"returned", "sent"} => listener[s] = "closed"

\* Until every listener is open nothing else has begun, and until there is a
\* reason to stop nothing was stopped or received.
NotBegun ==
    /\ pc = "listen" =>
         \A s \in Server : serve[s] = "none" /\ active[s] = 0 /\ idle[s] = 0
    /\ pc \in {"listen", "select"} =>
         closing = {} /\ cut = {} /\ errs = {} /\ received = 0

Stopping == {"shutdown", "polling", "waiting", "drain"}

\* A server that was shut down has no connection and will have none.
ShutDown(s) ==
    /\ s \in closing /\ serve[s] # "accepting"
    /\ active[s] = 0 /\ idle[s] = 0

\* How far the loop over the servers has come.
Progress ==
    /\ pc \in Stopping \cup {"select"} => \A s \in Server : serve[s] # "none"
    /\ pc \in Stopping \ {"drain"} => \A s \in 1..(index - 1) : ShutDown(s)
    /\ pc \in {"polling", "waiting"} => index \in closing
    /\ pc = "waiting" => serve[index] # "accepting"
    /\ pc = "drain" => \A s \in Server : ShutDown(s)

\* resultErr has the failure of every server whose result was received, and of
\* no other, and tells of requests that were cut off.
ErrorSoFar ==
    /\ ("serve" \in errs) <=> (\E s \in Sent \ Queued : outcome[s] = "failed")
    /\ cut # {} => "shutdown" \in errs
    /\ pc \in Stopping => (errs = {} => ctxDone)

Inv ==
    /\ TypeOK
    /\ ResultsCounted
    /\ \A s \in Server : GoroutineOK(s)
    /\ NotBegun
    /\ Progress
    /\ ErrorSoFar
    /\ NothingLeftBehind
    /\ ErrorTellsWhatHappened

-----------------------------------------------------------------------------
(* Counting the goroutines that have sent their result.                    *)

LEMMA SentIsFinite ==
    /\ IsFiniteSet(Server) /\ Cardinality(Server) = N
    /\ IsFiniteSet(Sent) /\ Cardinality(Sent) \in 0..N
    /\ Cardinality(Sent) = N => Sent = Server
<1>1. IsFiniteSet(1..N) /\ Cardinality(1..N) = N
  BY FS_Interval, ServersAssumption
<1>2. Sent \subseteq Server
  BY DEF Sent
<1>3. /\ IsFiniteSet(Sent) /\ Cardinality(Sent) <= Cardinality(Server)
      /\ Cardinality(Sent) = Cardinality(Server) => Sent = Server
  BY <1>1, <1>2, FS_Subset DEF Server
<1>4. Cardinality(Sent) \in Nat
  BY <1>3, FS_CardinalityType
<1> QED
  BY <1>1, <1>3, <1>4, ServersAssumption DEF Server

LEMMA ResultsKept ==
    ASSUME ResultsCounted, UNCHANGED <<results, received>>, Sent' = Sent
    PROVE  ResultsCounted' /\ Queued' = Queued
  BY DEF ResultsCounted, Queued

\* A goroutine puts its result into the channel.
LEMMA ResultAdded ==
    ASSUME TypeOK, ResultsCounted, NEW s \in Server, SendResult(s)
    PROVE  /\ ResultsCounted' /\ results' \in Seq(Server)
           /\ Queued' = Queued \cup {s} /\ Sent' = Sent \cup {s}
           /\ s \notin Sent
<1>1. /\ results' \in Seq(Server)
      /\ Len(results') = Len(results) + 1 /\ Len(results) \in Nat
      /\ DOMAIN results = 1..Len(results) /\ DOMAIN results' = 1..(Len(results) + 1)
      /\ \A i \in DOMAIN results : results'[i] = results[i]
      /\ results'[Len(results) + 1] = s
  BY DEF SendResult, TypeOK
<1>2. Sent' = Sent \cup {s} /\ s \notin Sent
  BY DEF Sent, SendResult, TypeOK
<1>3. Queued' = Queued \cup {s}
  <2>1. DOMAIN results' = DOMAIN results \cup {Len(results) + 1}
    BY <1>1
  <2> QED
    BY <1>1, <2>1 DEF Queued
<1>4. Cardinality(Sent') = Cardinality(Sent) + 1
  BY <1>2, SentIsFinite, FS_AddElement
<1>5. \A i, j \in DOMAIN results' : results'[i] = results'[j] => i = j
  <2>1. \A i \in DOMAIN results : results[i] # s
    BY <1>2 DEF ResultsCounted, Queued
  <2> QED
    BY <1>1, <2>1 DEF ResultsCounted
<1>6. received' + Len(results') = Cardinality(Sent')
  BY <1>1, <1>4, SentIsFinite DEF ResultsCounted, TypeOK, SendResult, mainVars
<1> QED
  BY <1>1, <1>2, <1>3, <1>5, <1>6 DEF ResultsCounted

\* ServeUntilShutdown takes a result out of it.
LEMMA ResultTaken ==
    ASSUME TypeOK, ResultsCounted, results # <<>>, results' = Tail(results),
           received' = received + 1, UNCHANGED serve
    PROVE  /\ ResultsCounted' /\ results' \in Seq(Server) /\ received' \in 0..N
           /\ Head(results) \in Sent /\ Sent' = Sent
           /\ Queued' = Queued \ {Head(results)}
<1>1. /\ results' \in Seq(Server)
      /\ Len(results) \in Nat \ {0} /\ Len(results') = Len(results) - 1
      /\ DOMAIN results = 1..Len(results) /\ DOMAIN results' = 1..(Len(results) - 1)
      /\ \A i \in DOMAIN results' : results'[i] = results[i + 1]
      /\ Head(results) = results[1]
  BY HeadTailProperties, EmptySeq, LenProperties DEF TypeOK
<1>2. Sent' = Sent
  BY DEF Sent
<1>3. Head(results) \in Sent
  BY <1>1 DEF ResultsCounted, Queued
<1>4. Queued' = Queued \ {Head(results)}
  <2>1. ASSUME NEW x \in Queued' PROVE x \in Queued \ {Head(results)}
    <3>1. PICK i \in DOMAIN results' : x = results'[i]
      BY DEF Queued
    <3>2. x = results[i + 1] /\ i + 1 \in DOMAIN results /\ i + 1 # 1
      BY <1>1, <3>1
    <3> QED
      BY <1>1, <3>2 DEF ResultsCounted, Queued
  <2>2. ASSUME NEW x \in Queued \ {Head(results)} PROVE x \in Queued'
    <3>1. PICK i \in DOMAIN results : x = results[i]
      BY DEF Queued
    <3>2. i # 1 /\ i - 1 \in DOMAIN results' /\ results'[i - 1] = results[i]
      BY <1>1, <2>2, <3>1
    <3> QED
      BY <3>1, <3>2 DEF Queued
  <2> QED
    BY <2>1, <2>2
<1>5. \A i, j \in DOMAIN results' : results'[i] = results'[j] => i = j
  <2>1. \A i \in DOMAIN results' : i + 1 \in DOMAIN results /\ i \in Int
    BY <1>1
  <2> QED
    BY <1>1, <2>1 DEF ResultsCounted
<1>6. received' + Len(results') = Cardinality(Sent') /\ received' \in 0..N
  BY <1>1, <1>2, SentIsFinite, ServersAssumption DEF ResultsCounted, TypeOK
<1> QED
  BY <1>1, <1>2, <1>3, <1>4, <1>5, <1>6 DEF ResultsCounted

-----------------------------------------------------------------------------
(* The invariant holds initially.                                          *)

LEMMA InitInv == Init => Inv
<1> SUFFICES ASSUME Init PROVE Inv
  OBVIOUS
<1>1. TypeOK
  <2>1. 1 \in Server /\ 0 \in 0..N
    BY ServersAssumption DEF Server
  <2> QED
    BY <2>1, EmptySeq DEF Init, TypeOK
<1>2. Sent = {} /\ Queued = {}
  BY DEF Init, Sent, Queued
<1>3. ResultsCounted
  BY <1>2, FS_EmptySet DEF Init, ResultsCounted
<1>4. \A s \in Server : GoroutineOK(s)
  BY DEF Init, GoroutineOK
<1>5. NotBegun /\ Progress /\ ErrorSoFar
  BY <1>2 DEF Init, NotBegun, Progress, ErrorSoFar, Stopping
<1> QED
  BY <1>1, <1>3, <1>4, <1>5
     DEF Inv, Init, NothingLeftBehind, ErrorTellsWhatHappened

-----------------------------------------------------------------------------
(* The steps of the connections and of the goroutines.                     *)

\* A server that accepts nothing and has no connection gets none.
LEMMA ConnectionInv ==
    ASSUME Inv, NEW s \in Server, Connection(s) PROVE Inv'
<1> USE DEF mainVars, serverVars, timeVars, connUnchanged
<1>1. UNCHANGED <<mainVars, serverVars, cut, results, timeVars>>
  BY DEF Connection, Accept, NextRequest, RequestDone, Hangup
<1>2. active' \in [Server -> Nat] /\ idle' \in [Server -> Nat]
  <2>1. /\ active \in [Server -> Nat] /\ active[s] \in Nat
        /\ idle \in [Server -> Nat] /\ idle[s] \in Nat
    BY DEF Inv, TypeOK
  <2>2. CASE Accept(s) \/ NextRequest(s)
    BY <2>1, <2>2 DEF Accept, NextRequest
  <2>3. CASE RequestDone(s)
    BY <2>1, <2>3 DEF RequestDone
  <2>4. CASE Hangup(s)
    BY <2>1, <2>4 DEF Hangup
  <2> QED
    BY <2>2, <2>3, <2>4 DEF Connection
<1>3. \A t \in Server : /\ serve[t] # "accepting"
                        /\ active[t] = 0 /\ idle[t] = 0
                        => active'[t] = 0 /\ idle'[t] = 0
  BY DEF Inv, TypeOK, Connection, Accept, NextRequest, RequestDone, Hangup
<1>4. TypeOK'
  BY <1>1, <1>2 DEF Inv, TypeOK
<1>5. ResultsCounted' /\ Sent' = Sent /\ Queued' = Queued
  BY <1>1, ResultsKept DEF Inv, Sent
<1>6. \A t \in Server : GoroutineOK(t)'
  BY <1>1 DEF Inv, GoroutineOK
<1>7. NotBegun' /\ NothingLeftBehind'
  BY <1>1, <1>3 DEF Inv, NotBegun, NothingLeftBehind
<1>8. Progress'
  <2>1. \A t \in Server : ShutDown(t) => ShutDown(t)'
    BY <1>1, <1>3 DEF ShutDown
  <2>2. index \in 1..N /\ \A t \in 1..(index - 1) : t \in Server
    BY ServersAssumption DEF Inv, TypeOK, Server
  <2> QED
    BY <1>1, <2>1, <2>2 DEF Inv, Progress
<1>9. ErrorSoFar' /\ ErrorTellsWhatHappened'
  BY <1>1, <1>5 DEF Inv, ErrorSoFar, ErrorTellsWhatHappened
<1> QED
  BY <1>4, <1>5, <1>6, <1>7, <1>8, <1>9 DEF Inv

\* A goroutine that runs keeps ServeUntilShutdown from having returned; its
\* server, once shut down, does not accept.
LEMMA ServeInv ==
    ASSUME Inv, NEW s \in Server,
           TrackListener(s) \/ AcceptFails(s) \/ AcceptStops(s)
    PROVE  Inv'
<1> USE DEF mainVars, connVars, timeVars
<1>1. UNCHANGED <<mainVars, closing, connVars, cut, results, timeVars>>
  BY DEF TrackListener, AcceptFails, AcceptStops
<1>2. serve[s] \in {"starting", "accepting"} /\ pc \notin {"listen", "returned"}
  BY DEF Inv, TrackListener, AcceptFails, AcceptStops, NotBegun,
         NothingLeftBehind
<1>3. /\ TypeOK' /\ serve'[s] \in {"accepting", "returned"}
      /\ serve'[s] = "accepting" => s \notin closing
      /\ \A t \in Server \ {s} : serve'[t] = serve[t] /\ outcome'[t] = outcome[t]
      /\ serve'[s] = "accepting" => outcome'[s] = outcome[s]
      /\ GoroutineOK(s)'
  BY DEF Inv, TypeOK, TrackListener, AcceptFails, AcceptStops, ServeReturns,
         GoroutineOK
<1>4. ResultsCounted' /\ Sent' = Sent /\ Queued' = Queued
  BY <1>1, <1>2, <1>3, ResultsKept DEF Inv, TypeOK, Sent
<1>5. \A t \in Server : GoroutineOK(t)'
  BY <1>1, <1>3 DEF Inv, TypeOK, TrackListener, AcceptFails, AcceptStops,
                    ServeReturns, GoroutineOK
<1>6. NotBegun' /\ NothingLeftBehind' /\ ErrorTellsWhatHappened'
  BY <1>1, <1>2 DEF Inv, NotBegun, NothingLeftBehind, ErrorTellsWhatHappened
<1>7. Progress'
  <2>1. \A t \in Server : ShutDown(t) => ShutDown(t)'
    BY <1>1, <1>3 DEF ShutDown
  <2>2. index \in 1..N /\ \A t \in 1..(index - 1) : t \in Server
    BY ServersAssumption DEF Inv, TypeOK, Server
  <2>3. \A t \in Server : serve[t] # "none" => serve'[t] # "none"
    BY <1>3
  <2>4. pc = "waiting" => serve'[index] # "accepting"
    BY <1>1, <1>3, <2>2 DEF Inv, Progress, Server
  <2> QED
    BY <1>1, <2>1, <2>2, <2>3, <2>4 DEF Inv, Progress
<1>8. ErrorSoFar'
  <2>1. s \notin Sent
    BY <1>2 DEF Sent
  <2>2. \A t \in Sent : outcome'[t] = outcome[t]
    BY <1>3, <2>1 DEF Sent
  <2> QED
    BY <1>1, <1>4, <2>2 DEF Inv, ErrorSoFar
<1> QED
  BY <1>3, <1>4, <1>5, <1>6, <1>7, <1>8 DEF Inv

LEMMA SendResultInv ==
    ASSUME Inv, NEW s \in Server, SendResult(s) PROVE Inv'
<1> USE DEF mainVars, connVars, timeVars
<1>1. /\ UNCHANGED <<mainVars, listener, outcome, closing, connVars, cut, timeVars>>
      /\ serve[s] = "returned" /\ serve' = [serve EXCEPT ![s] = "sent"]
  BY DEF SendResult
<1>2. pc \notin {"listen", "returned"}
  BY <1>1 DEF Inv, NotBegun, NothingLeftBehind
<1>3. /\ ResultsCounted' /\ results' \in Seq(Server)
      /\ Queued' = Queued \cup {s} /\ Sent' = Sent \cup {s} /\ s \notin Sent
  BY ResultAdded DEF Inv
<1>4. TypeOK'
  BY <1>1, <1>3 DEF Inv, TypeOK
<1>5. \A t \in Server : GoroutineOK(t)'
  BY <1>1 DEF Inv, TypeOK, GoroutineOK
<1>6. NotBegun' /\ NothingLeftBehind' /\ ErrorTellsWhatHappened'
  BY <1>1, <1>2 DEF Inv, NotBegun, NothingLeftBehind, ErrorTellsWhatHappened
<1>7. Progress'
  BY <1>1 DEF Inv, TypeOK, Progress, ShutDown, Server, Stopping
<1>8. ErrorSoFar'
  <2>1. Sent' \ Queued' = Sent \ Queued
    BY <1>3 DEF Inv, ResultsCounted
  <2> QED
    BY <1>1, <2>1 DEF Inv, ErrorSoFar
<1> QED
  BY <1>3, <1>4, <1>5, <1>6, <1>7, <1>8 DEF Inv

-----------------------------------------------------------------------------
(* The steps of ServeUntilShutdown, of the signal and of the clock.        *)

\* Signal and Expire change what nothing above depends on, or make it truer.
LEMMA ClockInv == ASSUME Inv, Signal \/ Expire PROVE Inv'
<1> USE DEF mainVars, connVars, serverVars
<1>1. /\ UNCHANGED <<mainVars, serverVars, connVars, cut, results>>
      /\ ctxDone' \in BOOLEAN /\ (ctxDone => ctxDone')
      /\ deadline' \in {deadline, "expired"}
  BY DEF Inv, TypeOK, Signal, Expire
<1>2. TypeOK' /\ ResultsCounted' /\ Sent' = Sent /\ Queued' = Queued
  BY <1>1, ResultsKept DEF Inv, TypeOK, Sent
<1>3. (\A t \in Server : GoroutineOK(t)') /\ NotBegun' /\ Progress'
  BY <1>1 DEF Inv, GoroutineOK, NotBegun, Progress, ShutDown
<1>4. ErrorSoFar' /\ NothingLeftBehind' /\ ErrorTellsWhatHappened'
  BY <1>1, <1>2 DEF Inv, ErrorSoFar, NothingLeftBehind, ErrorTellsWhatHappened
<1> QED
  BY <1>2, <1>3, <1>4 DEF Inv

LEMMA ListenInv == ASSUME Inv, Listen PROVE Inv'
<1> USE DEF connVars, timeVars
<1>1. /\ pc = "listen" /\ pc' \in {"listen", "select"}
      /\ UNCHANGED <<received, errs, outcome, closing, active, idle, cut, results>>
      /\ \A s \in Server : serve[s] = "none"
  BY DEF Inv, Listen, NotBegun
<1>2. TypeOK'
  BY ServersAssumption DEF Inv, TypeOK, Listen, Server
<1>3. \A s \in Server : serve'[s] \in {"none", "starting"}
  BY <1>1 DEF Listen
<1>4. ResultsCounted' /\ Sent' = Sent /\ Queued' = Queued
  BY <1>1, <1>3, ResultsKept DEF Inv, Sent
<1>5. (\A s \in Server : GoroutineOK(s)') /\ NotBegun' /\ Progress'
  BY <1>1, <1>3 DEF Inv, Listen, GoroutineOK, NotBegun, Progress, Stopping
<1>6. ErrorSoFar'
  BY <1>1, <1>4 DEF Inv, ErrorSoFar, Stopping
<1> QED
  BY <1>1, <1>2, <1>4, <1>5, <1>6
     DEF Inv, NothingLeftBehind, ErrorTellsWhatHappened

\* The listeners that were opened are closed, and no goroutine was started.
LEMMA ListenFailsInv == ASSUME Inv, ListenFails PROVE Inv'
<1> USE DEF connVars, timeVars
<1>1. /\ pc = "listen" /\ pc' = "returned" /\ errs = {} /\ errs' = {"listen"}
      /\ UNCHANGED <<index, received, serve, outcome, closing, active, idle, cut,
                     results, ctxDone, deadline>>
      /\ \A s \in Server : serve[s] = "none" /\ active[s] = 0 /\ idle[s] = 0
      /\ closing = {} /\ cut = {}
  BY DEF Inv, ListenFails, NotBegun
<1>2. TypeOK' /\ \A s \in Server : listener'[s] # "open"
  BY <1>1 DEF Inv, TypeOK, ListenFails
<1>3. ResultsCounted' /\ Sent' = Sent /\ Queued' = Queued
  BY <1>1, ResultsKept DEF Inv, Sent
<1>4. (\A s \in Server : GoroutineOK(s)') /\ NotBegun' /\ Progress'
  BY <1>1 DEF Inv, GoroutineOK, NotBegun, Progress, Stopping
<1>5. ErrorSoFar'
  BY <1>1, <1>3 DEF Inv, ErrorSoFar, Stopping
<1>6. NothingLeftBehind' /\ ErrorTellsWhatHappened'
  BY <1>1, <1>2 DEF Inv, GoroutineOK, NothingLeftBehind, ErrorTellsWhatHappened
<1> QED
  BY <1>2, <1>3, <1>4, <1>5, <1>6 DEF Inv

\* Before Shutdown was called on any server a result is that of a failure: the
\* error "stopped without shutdown" is never needed.
LEMMA SelectResultInv == ASSUME Inv, SelectResult PROVE Inv'
<1> USE DEF connVars, serverVars, timeVars
<1>1. /\ pc = "select" /\ pc' = "shutdown" /\ index' = 1 /\ deadline' = "running"
      /\ UNCHANGED <<serverVars, connVars, cut, ctxDone>>
      /\ closing = {} /\ cut = {} /\ errs = {}
  BY DEF Inv, SelectResult, BeginShutdown, WithTimeout, NotBegun
<1>2. /\ ResultsCounted' /\ results' \in Seq(Server) /\ received' \in 0..N
      /\ Head(results) \in Sent /\ Sent' = Sent
      /\ Queued' = Queued \ {Head(results)}
  BY <1>1, ResultTaken DEF Inv, SelectResult
<1>3. outcome[Head(results)] = "failed" /\ errs' = {"serve"}
  <2>1. Head(results) \in Server /\ serve[Head(results)] = "sent"
    BY <1>2 DEF Sent
  <2>2. outcome[Head(results)] \in {"none", "closed", "failed"}
    BY <2>1 DEF Inv, TypeOK
  <2>3. outcome[Head(results)] = "failed"
    BY <1>1, <2>1, <2>2 DEF Inv, GoroutineOK
  <2> QED
    BY <2>3 DEF SelectResult
<1>4. TypeOK'
  <2>1. 1 \in Server
    BY ServersAssumption DEF Server
  <2> QED
    BY <1>1, <1>2, <1>3, <2>1 DEF Inv, TypeOK
<1>5. (\A s \in Server : GoroutineOK(s)') /\ NotBegun'
  BY <1>1 DEF Inv, GoroutineOK, NotBegun
<1>6. Progress'
  BY <1>1 DEF Inv, Progress, Stopping
<1>7. ErrorSoFar'
  BY <1>1, <1>2, <1>3 DEF Inv, ErrorSoFar
<1> QED
  BY <1>1, <1>2, <1>4, <1>5, <1>6, <1>7
     DEF Inv, NothingLeftBehind, ErrorTellsWhatHappened

LEMMA SelectDoneInv == ASSUME Inv, SelectDone PROVE Inv'
<1> USE DEF connVars, serverVars, timeVars
<1>1. /\ pc = "select" /\ pc' = "shutdown" /\ index' = 1 /\ deadline' = "running"
      /\ UNCHANGED <<serverVars, connVars, cut, ctxDone, received, errs, results>>
      /\ ctxDone
  BY DEF SelectDone, BeginShutdown, WithTimeout
<1>2. ResultsCounted' /\ Sent' = Sent /\ Queued' = Queued
  BY <1>1, ResultsKept DEF Inv, Sent
<1>3. TypeOK'
  <2>1. 1 \in Server
    BY ServersAssumption DEF Server
  <2> QED
    BY <1>1, <2>1 DEF Inv, TypeOK
<1>4. (\A s \in Server : GoroutineOK(s)') /\ NotBegun' /\ Progress'
  BY <1>1 DEF Inv, GoroutineOK, NotBegun, Progress, Stopping
<1>5. ErrorSoFar'
  BY <1>1, <1>2 DEF Inv, ErrorSoFar
<1> QED
  BY <1>1, <1>2, <1>3, <1>4, <1>5
     DEF Inv, NothingLeftBehind, ErrorTellsWhatHappened

LEMMA CallShutdownInv == ASSUME Inv, CallShutdown PROVE Inv'
<1> USE DEF connVars, timeVars
<1>1. /\ pc = "shutdown" /\ pc' = "polling" /\ closing' = closing \cup {index}
      /\ UNCHANGED <<index, received, errs, serve, outcome, active, idle, cut,
                     results, ctxDone, deadline>>
      /\ index \in Server
  BY DEF Inv, TypeOK, CallShutdown
<1>2. TypeOK' /\ \A s \in Server : listener'[s] \in {listener[s], "closed"}
  BY <1>1 DEF Inv, TypeOK, CallShutdown
<1>3. ResultsCounted' /\ Sent' = Sent /\ Queued' = Queued
  BY <1>1, ResultsKept DEF Inv, Sent
<1>4. (\A s \in Server : GoroutineOK(s)') /\ NotBegun'
  BY <1>1, <1>2 DEF Inv, GoroutineOK, NotBegun
<1>5. Progress'
  BY <1>1 DEF Inv, Progress, ShutDown, Stopping
<1>6. ErrorSoFar'
  BY <1>1, <1>3 DEF Inv, ErrorSoFar, Stopping
<1> QED
  BY <1>1, <1>2, <1>3, <1>4, <1>5, <1>6
     DEF Inv, NothingLeftBehind, ErrorTellsWhatHappened

LEMMA PollInv == ASSUME Inv, StillBusy \/ PollAgain PROVE Inv'
<1> USE DEF connVars, serverVars, timeVars
<1>1. /\ pc \in {"polling", "waiting"} /\ pc' \in {"polling", "waiting"}
      /\ pc' = "waiting" => serve[index] # "accepting"
      /\ UNCHANGED <<index, received, errs, serverVars, active, cut, results,
                     timeVars>>
      /\ idle' = idle \/ idle' = [idle EXCEPT ![index] = 0]
  BY DEF StillBusy, PollAgain, ClosesIdle
<1>2. TypeOK' /\ \A s \in Server : idle[s] = 0 => idle'[s] = 0
  <2>1. /\ idle' \in [Server -> Nat]
        /\ \A s \in Server : idle[s] = 0 => idle'[s] = 0
    <3>1. idle \in [Server -> Nat] /\ index \in Server
      BY DEF Inv, TypeOK
    <3> QED
      BY <1>1, <3>1
  <2> QED
    BY <1>1, <2>1 DEF Inv, TypeOK
<1>3. ResultsCounted' /\ Sent' = Sent /\ Queued' = Queued
  BY <1>1, ResultsKept DEF Inv, Sent
<1>4. (\A s \in Server : GoroutineOK(s)') /\ NotBegun'
  BY <1>1 DEF Inv, GoroutineOK, NotBegun
<1>5. Progress'
  <2>1. \A s \in Server : ShutDown(s) => ShutDown(s)'
    BY <1>1, <1>2 DEF ShutDown
  <2>2. index \in 1..N /\ \A t \in 1..(index - 1) : t \in Server
    BY ServersAssumption DEF Inv, TypeOK, Server
  <2> QED
    BY <1>1, <2>1, <2>2 DEF Inv, Progress, Stopping
<1>6. ErrorSoFar'
  BY <1>1, <1>3 DEF Inv, ErrorSoFar, Stopping
<1> QED
  BY <1>1, <1>2, <1>3, <1>4, <1>5, <1>6
     DEF Inv, NothingLeftBehind, ErrorTellsWhatHappened

\* Shutdown of one server ends, by itself or by Close: the server is shut down
\* and the loop goes on with the next one.
LEMMA ServerDoneInv ==
    ASSUME Inv, ShutdownReturns \/ ShutdownTimesOut PROVE Inv'
<1> USE DEF connVars, serverVars, timeVars
<1>1. /\ pc \in {"polling", "waiting"} /\ serve[index] # "accepting"
      /\ NextServer
      /\ UNCHANGED <<received, serverVars, results, timeVars>>
      /\ idle' = [idle EXCEPT ![index] = 0]
      /\ index \in Server /\ index \in closing
  BY DEF Inv, TypeOK, Progress, ShutdownReturns, ShutdownTimesOut, ClosesIdle,
         CloseServer
<1>2. /\ active' \in [Server -> Nat] /\ active'[index] = 0
      /\ \A s \in Server : active[s] = 0 => active'[s] = 0
  BY DEF Inv, TypeOK, ShutdownReturns, ShutdownTimesOut, CloseServer
<1>3. /\ cut' \subseteq Server /\ errs' \in {errs, errs \cup {"shutdown"}}
      /\ cut' # {} => "shutdown" \in errs'
  BY <1>1 DEF Inv, TypeOK, ErrorSoFar, ShutdownReturns, ShutdownTimesOut,
         CloseServer, joined
<1>4. /\ pc' \in {"shutdown", "drain"} /\ index' \in Server
      /\ \A s \in 1..(index' - 1) : s \in 1..(index - 1) \/ s = index
      /\ pc' = "drain" => index = N
  BY <1>1, ServersAssumption DEF NextServer, Server
<1>5. TypeOK'
  BY <1>1, <1>2, <1>3, <1>4 DEF Inv, TypeOK
<1>6. ResultsCounted' /\ Sent' = Sent /\ Queued' = Queued
  BY <1>1, ResultsKept DEF Inv, Sent
<1>7. (\A s \in Server : GoroutineOK(s)') /\ NotBegun'
  BY <1>1, <1>4 DEF Inv, GoroutineOK, NotBegun
<1>8. Progress'
  <2>1. \A s \in Server : ShutDown(s) => ShutDown(s)'
    BY <1>1, <1>2 DEF ShutDown, Inv, TypeOK
  <2>2. \A s \in Server : s = index => ShutDown(s)'
    BY <1>1, <1>2 DEF ShutDown, Inv, TypeOK
  <2>3. \A s \in 1..(index - 1) : s \in Server /\ ShutDown(s)
    BY <1>1, ServersAssumption DEF Inv, Progress, Stopping, Server
  <2>4. \A s \in 1..(index' - 1) : ShutDown(s)'
    BY <1>1, <1>4, <2>1, <2>2, <2>3
  <2>5. pc' = "drain" => \A s \in Server : ShutDown(s)'
    <3> SUFFICES ASSUME index = N, NEW s \in Server PROVE ShutDown(s)'
      BY <1>4
    <3>1. s \in 1..(index - 1) \/ s = index
      BY ServersAssumption DEF Server
    <3> QED
      BY <2>1, <2>2, <2>3, <3>1
  <2> QED
    BY <1>1, <1>4, <2>4, <2>5 DEF Inv, Progress, Stopping
<1>9. ErrorSoFar'
  BY <1>1, <1>3, <1>6 DEF Inv, ErrorSoFar, Stopping
<1> QED
  BY <1>4, <1>5, <1>6, <1>7, <1>8, <1>9
     DEF Inv, NothingLeftBehind, ErrorTellsWhatHappened

LEMMA DrainInv == ASSUME Inv, Drain PROVE Inv'
<1> USE DEF connVars, serverVars, timeVars
<1>1. /\ pc = "drain" /\ results # <<>>
      /\ UNCHANGED <<pc, index, serverVars, connVars, cut, timeVars>>
      /\ errs' = IF outcome[Head(results)] = "failed" THEN errs \cup {"serve"}
                                                      ELSE errs
  BY DEF Drain, joined
<1>2. /\ ResultsCounted' /\ results' \in Seq(Server) /\ received' \in 0..N
      /\ Head(results) \in Sent /\ Sent' = Sent
      /\ Queued' = Queued \ {Head(results)}
  BY <1>1, ResultTaken DEF Inv, Drain
<1>3. TypeOK'
  BY <1>1, <1>2 DEF Inv, TypeOK
<1>4. (\A s \in Server : GoroutineOK(s)') /\ NotBegun' /\ Progress'
  BY <1>1 DEF Inv, GoroutineOK, NotBegun, Progress, ShutDown
<1>5. ErrorSoFar'
  BY <1>1, <1>2 DEF Inv, ErrorSoFar, Stopping
<1> QED
  BY <1>1, <1>2, <1>3, <1>4, <1>5
     DEF Inv, NothingLeftBehind, ErrorTellsWhatHappened

\* N results were received and no goroutine sends two: every server has sent
\* its result, and so its listener is closed and its error is in resultErr.
LEMMA ReturnInv == ASSUME Inv, Return PROVE Inv'
<1> USE DEF connVars, serverVars, timeVars
<1>1. /\ pc = "drain" /\ pc' = "returned" /\ received = N
      /\ UNCHANGED <<index, received, errs, serverVars, connVars, cut, results,
                     timeVars>>
  BY DEF Return, allReceived
<1>2. ResultsCounted' /\ Sent' = Sent /\ Queued' = Queued
  BY <1>1, ResultsKept DEF Inv, Sent
<1>3. Sent = Server /\ Queued = {}
  <2>1. Len(results) \in Nat /\ DOMAIN results = 1..Len(results)
    BY DEF Inv, TypeOK
  <2>2. Cardinality(Sent) = N /\ Len(results) = 0
    BY <1>1, <2>1, SentIsFinite, ServersAssumption DEF Inv, ResultsCounted
  <2> QED
    BY <2>1, <2>2, SentIsFinite DEF Queued
<1>4. TypeOK' /\ (\A s \in Server : GoroutineOK(s)') /\ NotBegun' /\ Progress'
  BY <1>1 DEF Inv, TypeOK, GoroutineOK, NotBegun, Progress, Stopping
<1>5. ErrorSoFar'
  BY <1>1, <1>2 DEF Inv, ErrorSoFar, Stopping
<1>6. NothingLeftBehind'
  BY <1>1, <1>3 DEF Inv, NothingLeftBehind, Sent, GoroutineOK, Progress, ShutDown
<1>7. ErrorTellsWhatHappened'
  BY <1>1, <1>3 DEF Inv, ErrorTellsWhatHappened, ErrorSoFar, Stopping
<1> QED
  BY <1>2, <1>4, <1>5, <1>6, <1>7 DEF Inv

-----------------------------------------------------------------------------
LEMMA StutterInv == ASSUME Inv, UNCHANGED vars PROVE Inv'
<1> USE DEF vars, mainVars, connVars, serverVars, timeVars
<1>1. TypeOK' /\ ResultsCounted' /\ Sent' = Sent /\ Queued' = Queued
  BY ResultsKept DEF Inv, TypeOK, Sent
<1>2. (\A t \in Server : GoroutineOK(t)') /\ NotBegun' /\ Progress'
  BY DEF Inv, GoroutineOK, NotBegun, Progress, ShutDown
<1>3. ErrorSoFar' /\ NothingLeftBehind' /\ ErrorTellsWhatHappened'
  BY <1>1 DEF Inv, ErrorSoFar, NothingLeftBehind, ErrorTellsWhatHappened
<1> QED
  BY <1>1, <1>2, <1>3 DEF Inv

LEMMA StepInv == ASSUME Inv, [Next]_vars PROVE Inv'
<1>1. CASE Main
  BY <1>1, ListenInv, SelectResultInv, SelectDoneInv, CallShutdownInv,
     ServerDoneInv, PollInv, DrainInv, ReturnInv DEF Main
<1>2. CASE ListenFails \/ ShutdownTimesOut \/ Signal \/ Expire
  BY <1>2, ListenFailsInv, ServerDoneInv, ClockInv
<1>3. ASSUME NEW s \in Server, Goroutine(s) \/ AcceptFails(s) \/ Connection(s)
      PROVE  Inv'
  BY <1>3, ServeInv, SendResultInv, ConnectionInv DEF Goroutine
<1>4. CASE Terminated \/ UNCHANGED vars
  BY <1>4, StutterInv DEF Terminated
<1> QED
  BY <1>1, <1>2, <1>3, <1>4 DEF Next

LEMMA SpecInv == Spec => []Inv
<1>1. Inv /\ [Next]_vars => Inv'
  BY StepInv
<1> QED
  BY InitInv, <1>1, PTL DEF Spec, Safety

-----------------------------------------------------------------------------
(* The theorems.                                                           *)

\* Every variable of ServeUntilShutdown keeps its type: the loops stay within
\* the servers, and no more results are received than there are servers.
THEOREM TypeCorrect == Spec => []TypeOK
<1>1. Inv => TypeOK
  BY DEF Inv
<1> QED
  BY SpecInv, <1>1, PTL

\* ServeUntilShutdown returns with every listener closed, every goroutine done
\* and every connection gone, for any number of servers.
THEOREM CleanReturn == Spec => []NothingLeftBehind
<1>1. Inv => NothingLeftBehind
  BY DEF Inv
<1> QED
  BY SpecInv, <1>1, PTL

\* The error it returns tells of every server that failed, also during the
\* shutdown of another, and of requests that were cut off, and nil is returned
\* only after a signal.
THEOREM ErrorComplete == Spec => []ErrorTellsWhatHappened
<1>1. Inv => ErrorTellsWhatHappened
  BY DEF Inv
<1> QED
  BY SpecInv, <1>1, PTL

=============================================================================
