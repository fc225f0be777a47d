------------------------------ MODULE Rotation ------------------------------
(***************************************************************************)
(* The API token over time.  control-plane-api loads it once, when its     *)
(* process starts (LoadToken); an administrator replaces the Secret and    *)
(* then restarts the Deployment, which runs one Pod and brings the next    *)
(* one up before it takes the last one down.  Requests reach any Pod that  *)
(* is ready.  The Deployment controller and the kubelet are external.      *)
(***************************************************************************)
EXTENDS Config

CONSTANTS
    Pods,           \* Pods there may be at a time
    Secrets,        \* contents of the Secret
    MaxRotations,   \* rotations of this instance
    MaxCrashes      \* crashes of the process

ASSUME RotationAssumption ==
    /\ Secrets \subseteq Seq(Characters) /\ MaxRotations \in Nat
    /\ MaxCrashes \in Nat

VARIABLES
    secret,      \* contents of the Secret
    previous,    \* contents before the last rotation
    admin,       \* "rest", "replaced", "waiting" or "confirm"
    revision,    \* of the Deployment's Pod template
    phase,       \* of each Pod: "none", "starting", "loaded" or "ready"
    podRevision,
    token,       \* the token that the process in each Pod has loaded
    crashes

adminVars == <<secret, previous, admin, revision>>
podVars == <<phase, podRevision, token>>
vars == <<adminVars, podVars, crashes>>

\* A Secret with a token in it: one line of the minimum length, which may
\* have a line ending.
FirstLine(contents) ==
    CHOOSE line \in {SubSeq(contents, 1, n) : n \in 0..Len(contents)} :
      /\ ~ContainsAny(line, {"\r", "\n"})
      /\ \/ line = contents
         \/ contents[Len(line) + 1] \in {"\r", "\n"}

Valid(contents) ==
    LET n == Len(FirstLine(contents))
    IN /\ n >= MinimumTokenLength
       /\ SubSeq(contents, n + 1, Len(contents))
            \in {<<>>, <<"\n">>, <<"\r", "\n">>}

Init ==
    /\ secret \in {s \in Secrets : Valid(s)} /\ previous = secret
    /\ admin = "rest" /\ revision = 0 /\ phase = [p \in Pods |-> "none"]
    /\ podRevision = [p \in Pods |-> 0] /\ token = [p \in Pods |-> NoToken]
    /\ crashes = 0

-----------------------------------------------------------------------------
(* The process in a Pod.                                                   *)

\* What the mounted file may hold: in a Pod from before the last rotation the
\* kubelet replaces it at some later time.
Mounted(p) ==
    IF podRevision[p] = revision /\ admin # "replaced" THEN {secret}
                                                      ELSE {secret, previous}

\* The process goes on without a token.
LoadsAnyway(p) ==
    /\ phase[p] = "starting"
    /\ \E contents \in Mounted(p) :
         token' = [token EXCEPT ![p] = LoadToken(contents)]
    /\ phase' = [phase EXCEPT ![p] = "loaded"]
    /\ UNCHANGED <<adminVars, podRevision, crashes>>

\* run loads the token; without one the process exits and the kubelet starts
\* it again.
Load(p) ==
    /\ phase[p] = "starting"
    /\ \E contents \in Mounted(p) :
         /\ token' = [token EXCEPT ![p] = LoadToken(contents)]
         /\ phase' = [phase EXCEPT ![p] = IF LoadToken(contents) = NoToken
                                         THEN @ ELSE "loaded"]
    /\ UNCHANGED <<adminVars, podRevision, crashes>>

\* The readiness check asks Kubernetes, not the token.
BecomeReady(p) ==
    /\ phase[p] = "loaded"
    /\ phase' = [phase EXCEPT ![p] = "ready"]
    /\ UNCHANGED <<adminVars, podRevision, token, crashes>>

\* The process ends and is started again.
Crash(p) ==
    /\ crashes < MaxCrashes /\ phase[p] \in {"loaded", "ready"}
    /\ crashes' = crashes + 1
    /\ phase' = [phase EXCEPT ![p] = "starting"]
    /\ UNCHANGED <<adminVars, podRevision, token>>

-----------------------------------------------------------------------------
(* The Deployment: one replica, maxSurge 1, maxUnavailable 0.              *)

CreatePod(p) ==
    /\ phase[p] = "none"
    /\ \A q \in Pods : phase[q] # "none" => podRevision[q] # revision
    /\ phase' = [phase EXCEPT ![p] = "starting"]
    /\ podRevision' = [podRevision EXCEPT ![p] = revision]
    /\ UNCHANGED <<adminVars, token, crashes>>

Remove(p) ==
    /\ phase' = [phase EXCEPT ![p] = "none"]
    /\ podRevision' = [podRevision EXCEPT ![p] = 0]
    /\ token' = [token EXCEPT ![p] = NoToken]
    /\ UNCHANGED <<adminVars, crashes>>

\* maxUnavailable 0: a Pod can be spared once another is ready, or if it is not
\* ready itself.
Spared(p) ==
    \/ phase[p] # "ready"
    \/ \E q \in Pods \ {p} : phase[q] = "ready" /\ podRevision[q] = revision

\* A Pod of an older revision goes.
RemoveOld(p) ==
    /\ phase[p] # "none" /\ podRevision[p] # revision /\ Spared(p)
    /\ Remove(p)

RolledOut ==
    /\ \E p \in Pods : phase[p] = "ready"
    /\ \A p \in Pods : phase[p] # "none" =>
         phase[p] = "ready" /\ podRevision[p] = revision

-----------------------------------------------------------------------------
(* The administrator: docs/operator-guide.md, section 10.6.                *)

ReplaceSecret(s) ==
    /\ admin = "rest" /\ RolledOut /\ revision < MaxRotations
    /\ s # secret
    /\ secret' = s
    /\ previous' = secret
    /\ admin' = "replaced"
    /\ UNCHANGED <<revision, podVars, crashes>>

RolloutRestart ==
    /\ admin = "replaced"
    /\ revision' = revision + 1
    /\ admin' = "waiting"
    /\ UNCHANGED <<secret, previous, podVars, crashes>>

RolloutStatus ==
    /\ admin = "waiting" /\ RolledOut
    /\ admin' = "confirm"
    /\ UNCHANGED <<secret, previous, revision, podVars, crashes>>

Confirmed ==
    /\ admin = "confirm"
    /\ admin' = "rest"
    /\ UNCHANGED <<secret, previous, revision, podVars, crashes>>

-----------------------------------------------------------------------------
PodStep(p) ==
    Load(p) \/ BecomeReady(p) \/ CreatePod(p) \/ RemoveOld(p)

Next ==
    \/ \E p \in Pods : PodStep(p) \/ Crash(p)
    \/ \E s \in Secrets : ReplaceSecret(s)
    \/ RolloutRestart \/ RolloutStatus \/ Confirmed

Fairness ==
    /\ \A p \in Pods : WF_vars(PodStep(p))
    /\ WF_vars(RolloutRestart) /\ SF_vars(RolloutStatus)

Spec == Init /\ [][Next]_vars /\ Fairness

-----------------------------------------------------------------------------
(* Properties.                                                             *)

\* The header that section 10.2 of the guide builds from the Secret.
HeaderOf(contents) == <<<<"Bearer", " ">> \o FirstLine(contents)>>

HasBlank(contents) == ContainsAny(FirstLine(contents), {" ", "\t"})

\* Some Pod answers a request with the token of that file.
Serves(contents) ==
    \E p \in Pods :
      phase[p] = "ready" /\ authenticated(HeaderOf(contents), token[p])

\* Once the rollout is reported complete, the token of the Secret is accepted
\* by every Pod that takes requests (LoadToken, authenticated), and the
\* token it replaced by none.  A token with a blank in it, which LoadToken lets
\* pass, is the exception: no request can present it.
RotationTakesEffect ==
    admin = "confirm" =>
      \A p \in Pods : phase[p] = "ready" =>
        /\ authenticated(HeaderOf(secret), token[p]) <=> ~HasBlank(secret)
        /\ HeaderOf(previous) # HeaderOf(secret) =>
             ~authenticated(HeaderOf(previous), token[p])

\* A rotation does not lock everybody out: while somebody has a token that is
\* accepted, a step other than a crash leaves the replaced token accepted by
\* some Pod, or the new one.  When the new file is one that LoadToken has to
\* refuse, it is the old token that stays: run ends without a token, so that
\* the Pod never gets ready and the Deployment keeps the old one.  A new token
\* with a blank is the exception of RotationTakesEffect.
KeepsServing ==
    [][(Serves(secret) \/ Serves(previous)) =>
         \/ Serves(previous)'
         \/ Valid(secret)' /\ (Serves(secret)' \/ HasBlank(secret)')
         \/ crashes' # crashes]_vars

\* A rotation to a valid token comes to its end: LoadToken accepts every such
\* token, whatever its line ending.
RotationEnds == (admin = "waiting" /\ Valid(secret)) ~> (admin = "confirm")

=============================================================================
