------------------------------- MODULE Config -------------------------------
(***************************************************************************)
(* What control-plane-api and demo-http read when they start: the token    *)
(* file, the two ports and the trace settings.  Pure functions from the    *)
(* environment to a value, or to the value that stands for an error.       *)
(***************************************************************************)
EXTENDS Integers, Sequences

CONSTANT
    MinimumTokenLength    \* 32 in the code

ASSUME ConfigAssumption == MinimumTokenLength \in Nat \ {0}

-----------------------------------------------------------------------------
(* The token.  A file is a sequence of characters, of which only the       *)
(* blank, the tab and the two characters of a line ending are told apart.  *)

Characters == {"x", "y", " ", "\t", "\r", "\n"}

NoToken == <<>>

EndsIn(s, suffix) ==
    /\ Len(s) >= Len(suffix)
    /\ SubSeq(s, Len(s) - Len(suffix) + 1, Len(s)) = suffix

ContainsAny(s, chars) == \E i \in DOMAIN s : s[i] \in chars

trimTrailingLineEnding(contents) ==
    CASE EndsIn(contents, <<"\r", "\n">>) ->
           SubSeq(contents, 1, Len(contents) - 2)
      [] EndsIn(contents, <<"\n">>) /\ ~EndsIn(contents, <<"\r", "\n">>) ->
           SubSeq(contents, 1, Len(contents) - 1)
      [] OTHER -> contents

\* The file as it is.
LoadUntrimmed(contents) ==
    IF Len(contents) < MinimumTokenLength THEN NoToken ELSE contents

\* A token of the minimum length is too short.
LoadLongerToken(contents) ==
    LET token == trimTrailingLineEnding(contents)
    IN IF ContainsAny(token, {"\r", "\n"}) \/ Len(token) <= MinimumTokenLength
       THEN NoToken
       ELSE token

\* The token in the file, or NoToken: an empty one is too short.  A path that
\* is not set or cannot be read is the empty file.
LoadToken(contents) ==
    LET token == trimTrailingLineEnding(contents)
    IN IF ContainsAny(token, {"\r", "\n"}) \/ Len(token) < MinimumTokenLength
       THEN NoToken
       ELSE token

\* The values of the Authorization header of a request, each one a sequence
\* of characters after a scheme, which is one element here.
authenticated(values, token) ==
    /\ Len(values) = 1
    /\ LET value == values[1]
           credential == SubSeq(value, 3, Len(value))
       IN /\ Len(value) > 2
          /\ value[1] = "Bearer"
          /\ value[2] = " "
          /\ ~ContainsAny(credential, {" ", "\t", "\r", "\n"})
          /\ credential = token

-----------------------------------------------------------------------------
(* Ports.                                                                  *)

DefaultPort == 8080
DefaultMetricsPort == 9090

Unset == -1           \* an empty variable
NotANumber == -2      \* one that strconv.Atoi refuses
NoPort == 0           \* the error of the functions below

ParsePort(value) ==
    CASE value = Unset -> DefaultPort
      [] value \in 1..65535 -> value
      [] OTHER -> NoPort

ParseMetricsPort(value, publicPort) ==
    LET port == IF value = Unset THEN DefaultMetricsPort ELSE value
    IN IF port \in 1..65535 /\ port # publicPort THEN port ELSE NoPort

-----------------------------------------------------------------------------
(* Tracing: NewTraceRuntime.                                               *)

\* A service name is its length and whether its characters are safe; an
\* endpoint is its length and what url.Parse makes of it.
NoEndpoint ==
    [length |-> 0, parses |-> TRUE, host |-> FALSE, scheme |-> "",
     user |-> FALSE, query |-> FALSE, fragment |-> FALSE]

validServiceName(name) == name.length \in 1..63 /\ name.safe

validateTraceEndpoint(endpoint) ==
    /\ endpoint.length <= 2048
    /\ endpoint.parses
    /\ endpoint.host
    /\ endpoint.scheme \in {"http", "https"}
    /\ ~endpoint.user /\ ~endpoint.query /\ ~endpoint.fragment

\* "noop" is the provider without an exporter.  An empty name is replaced by
\* a default, which is valid.
NewTraceRuntime(config) ==
    CASE config.endpoint = NoEndpoint -> "noop"
      [] /\ config.endpoint # NoEndpoint
         /\ config.serviceName.length = 0 \/ validServiceName(config.serviceName)
         /\ validateTraceEndpoint(config.endpoint) -> "exporting"
      [] OTHER -> "error"

=============================================================================
