--------------------------- MODULE RotationProofs ---------------------------
(***************************************************************************)
(* A rotation of the API token takes effect, and locks nobody out,         *)
(* whatever the number of Pods and of crashes and whatever the contents of *)
(* the Secrets.                                                            *)
(***************************************************************************)
EXTENDS Rotation, SequenceTheorems, TLAPS

LineEnds == {"\r", "\n"}

-----------------------------------------------------------------------------
(* The inductive invariant.                                                *)

TypeOK ==
    /\ secret \in Secrets /\ previous \in Secrets
    /\ admin \in {"rest", "replaced", "waiting", "confirm"}
    /\ revision \in Nat
    /\ phase \in [Pods -> {"none", "starting", "loaded", "ready"}]
    /\ podRevision \in [Pods -> Nat]
    /\ token \in [Pods -> Seq(Characters)]
    /\ crashes \in Nat

\* No Pod is ahead of the template.
RevisionsBehind == \A p \in Pods : podRevision[p] <= revision

\* A process of the current revision was started after the Secret was
\* replaced, unless the restart is still to come.
LoadedCurrent ==
    \A p \in Pods :
      (/\ admin # "replaced"
       /\ phase[p] \in {"loaded", "ready"}
       /\ podRevision[p] = revision)
      => token[p] = LoadToken(secret) /\ token[p] # NoToken

\* A process holds the token of the Secret or the one that it replaced.
LoadedEither ==
    \A p \in Pods : phase[p] \in {"loaded", "ready"} =>
      /\ token[p] \in {LoadToken(secret), LoadToken(previous)}
      /\ token[p] # NoToken

\* Except during a rollout, the Pods there are, and the ones that a crash or
\* the Deployment brings, are of the current revision.
OnlyCurrentPods ==
    admin # "waiting" =>
      \A p \in Pods : phase[p] # "none" => podRevision[p] = revision

\* The token that is replaced was one that a process had loaded.
PreviousWasLoaded == admin # "rest" => LoadToken(previous) # NoToken

Inv ==
    TypeOK /\ RevisionsBehind /\ LoadedCurrent /\ LoadedEither
      /\ OnlyCurrentPods /\ PreviousWasLoaded

-----------------------------------------------------------------------------
(* The token in a file.                                                    *)

\* The beginning of a file, up to some character.
LEMMA Prefix ==
    ASSUME NEW s \in Seq(Characters), NEW n \in 0..Len(s)
    PROVE  /\ SubSeq(s, 1, n) \in Seq(Characters)
           /\ Len(SubSeq(s, 1, n)) = n
           /\ \A i \in 1..n : SubSeq(s, 1, n)[i] = s[i]
<1>0. Len(s) \in Nat /\ n \in Nat /\ n <= Len(s)
  BY LenProperties
<1>1. \A i \in 1..n : s[i] \in Characters
  <2>1. \A i \in 1..Len(s) : s[i] \in Characters
    BY LenProperties
  <2> QED
    BY <1>0, <2>1
<1>2. /\ SubSeq(s, 1, n) \in Seq(Characters)
      /\ Len(SubSeq(s, 1, n)) = IF 1 <= n THEN n - 1 + 1 ELSE 0
      /\ \A i \in 1..(n - 1 + 1) : SubSeq(s, 1, n)[i] = s[1 + i - 1]
  BY <1>0, <1>1, SubSeqProperties
<1> QED
  BY <1>0, <1>2

\* The last character of a file that ends in a suffix.
LEMMA Suffix ==
    ASSUME NEW s \in Seq(Characters), NEW n \in 1..Len(s), NEW c \in Characters,
           SubSeq(s, n, Len(s))[1] = c
    PROVE  s[n] = c
<1>0. Len(s) \in Nat /\ n \in Nat /\ 1 <= n /\ n <= Len(s)
  BY LenProperties
<1>1. \A i \in n..Len(s) : s[i] \in Characters
  <2>1. \A i \in 1..Len(s) : s[i] \in Characters
    BY LenProperties
  <2> QED
    BY <1>0, <2>1
<1>2. \A i \in 1..(Len(s) - n + 1) : SubSeq(s, n, Len(s))[i] = s[n + i - 1]
  BY <1>0, <1>1, SubSeqProperties
<1>3. 1 \in 1..(Len(s) - n + 1) /\ n + 1 - 1 = n
  BY <1>0
<1> QED
  BY <1>2, <1>3

\* trimTrailingLineEnding takes away a line ending or nothing.
LEMMA TrimmedIsPrefix ==
    ASSUME NEW s \in Seq(Characters)
    PROVE  \E n \in 0..Len(s) :
             /\ trimTrailingLineEnding(s) = SubSeq(s, 1, n)
             /\ n = Len(s) \/ s[n + 1] \in LineEnds
             /\ SubSeq(s, n + 1, Len(s)) \in {<<>>, <<"\n">>, <<"\r", "\n">>}
<1>0. Len(s) \in Nat
  BY LenProperties
<1>c. "\r" \in Characters /\ "\n" \in Characters
  BY DEF Characters
<1>1. CASE EndsIn(s, <<"\r", "\n">>)
  <2>1. Len(s) >= 2 /\ SubSeq(s, Len(s) - 2 + 1, Len(s)) = <<"\r", "\n">>
    BY <1>1 DEF EndsIn
  <2>2. Len(s) - 2 + 1 = Len(s) - 1 /\ Len(s) - 1 \in 1..Len(s)
        /\ Len(s) - 2 \in 0..Len(s) /\ Len(s) - 2 + 1 = Len(s) - 1
    BY <1>0, <2>1
  <2>3. s[Len(s) - 1] = "\r"
    <3>1. SubSeq(s, Len(s) - 1, Len(s)) = <<"\r", "\n">>
      BY <2>1, <2>2, Zenon
    <3>2. <<"\r", "\n">>[1] = "\r"
      OBVIOUS
    <3>3. SubSeq(s, Len(s) - 1, Len(s))[1] = "\r"
      BY <3>1, <3>2, Zenon
    <3> QED
      BY <1>c, <2>2, <3>3, Suffix
  <2>4. trimTrailingLineEnding(s) = SubSeq(s, 1, Len(s) - 2)
    BY <1>1 DEF trimTrailingLineEnding
  <2> QED
    BY <2>1, <2>2, <2>3, <2>4 DEF LineEnds
<1>2. CASE EndsIn(s, <<"\n">>) /\ ~EndsIn(s, <<"\r", "\n">>)
  <2>1. Len(s) >= 1 /\ SubSeq(s, Len(s) - 1 + 1, Len(s)) = <<"\n">>
    BY <1>2 DEF EndsIn
  <2>2. Len(s) - 1 + 1 = Len(s) /\ Len(s) \in 1..Len(s)
        /\ Len(s) - 1 \in 0..Len(s)
    BY <1>0, <2>1
  <2>3. s[Len(s)] = "\n"
    <3>1. SubSeq(s, Len(s), Len(s)) = <<"\n">>
      BY <2>1, <2>2, Zenon
    <3>2. <<"\n">>[1] = "\n"
      OBVIOUS
    <3>3. SubSeq(s, Len(s), Len(s))[1] = "\n"
      BY <3>1, <3>2, Zenon
    <3> QED
      BY <1>c, <2>2, <3>3, Suffix
  <2>4. trimTrailingLineEnding(s) = SubSeq(s, 1, Len(s) - 1)
    BY <1>2 DEF trimTrailingLineEnding
  <2> QED
    BY <2>1, <2>2, <2>3, <2>4 DEF LineEnds
<1>3. CASE ~EndsIn(s, <<"\n">>) /\ ~EndsIn(s, <<"\r", "\n">>)
  <2>1. trimTrailingLineEnding(s) = s
    BY <1>3 DEF trimTrailingLineEnding
  <2>2. s = SubSeq(s, 1, Len(s))
    BY SubSeqFull
  <2>3. Len(s) \in 0..Len(s)
    BY <1>0
  <2>4. SubSeq(s, Len(s) + 1, Len(s)) = <<>>
    BY <1>0, SubSeqEmpty
  <2> QED
    BY <2>1, <2>2, <2>3, <2>4
<1> QED
  BY <1>1, <1>2, <1>3

\* The token that LoadToken takes from a file is the first line, as the
\* administrator reads it.
LEMMA TokenIsFirstLine ==
    ASSUME NEW s \in Seq(Characters), LoadToken(s) # NoToken
    PROVE  /\ FirstLine(s) = LoadToken(s)
           /\ LoadToken(s) \in Seq(Characters)
           /\ Len(LoadToken(s)) > 0
           /\ ~ContainsAny(LoadToken(s), {"\r", "\n"})
<1>l. Len(s) \in Nat
  BY LenProperties
<1>1. PICK n \in 0..Len(s) :
        /\ trimTrailingLineEnding(s) = SubSeq(s, 1, n)
        /\ n = Len(s) \/ s[n + 1] \in LineEnds
  BY TrimmedIsPrefix
<1> DEFINE t == SubSeq(s, 1, n)
<1>2. /\ LoadToken(s) = t
      /\ ~ContainsAny(t, {"\r", "\n"})
      /\ ~(Len(t) < MinimumTokenLength)
  BY <1>1 DEF LoadToken
<1>3. /\ t \in Seq(Characters)
      /\ Len(t) = n
      /\ \A i \in 1..n : t[i] = s[i]
  BY Prefix
<1>4. \A k \in 0..Len(s) :
        /\ DOMAIN SubSeq(s, 1, k) = 1..k
        /\ Len(SubSeq(s, 1, k)) = k
        /\ \A i \in 1..k : SubSeq(s, 1, k)[i] = s[i]
  BY Prefix, LenProperties
<1> DEFINE Line(line) == /\ ~ContainsAny(line, {"\r", "\n"})
                         /\ \/ line = s
                            \/ s[Len(line) + 1] \in {"\r", "\n"}
<1>5. t \in {SubSeq(s, 1, k) : k \in 0..Len(s)} /\ Line(t)
  <2>1. n = Len(s) => t = s
    BY SubSeqFull
  <2> QED
    BY <1>1, <1>2, <1>3, <2>1 DEF LineEnds
<1>6. ASSUME NEW k \in 0..Len(s), Line(SubSeq(s, 1, k)) PROVE k = n
  <2>1. n \in Nat /\ k \in Nat /\ k <= Len(s) /\ n <= Len(s)
    BY <1>l
  <2>2. k = Len(s) \/ s[k + 1] \in {"\r", "\n"}
    BY <1>4, <1>6
  <2>3. ASSUME k < n PROVE FALSE
    <3>1. k + 1 \in 1..n /\ k # Len(s)
      BY <2>1, <2>3
    <3>2. t[k + 1] = s[k + 1] /\ s[k + 1] \in {"\r", "\n"}
      BY <1>3, <2>2, <3>1
    <3>3. k + 1 \in DOMAIN t
      BY <1>4, <3>1
    <3> QED
      BY <1>2, <3>2, <3>3 DEF ContainsAny
  <2>4. ASSUME n < k PROVE FALSE
    <3>1. n + 1 \in 1..k /\ n # Len(s)
      BY <2>1, <2>4
    <3>2. s[n + 1] \in {"\r", "\n"}
      BY <1>1, <3>1 DEF LineEnds
    <3>3. n + 1 \in DOMAIN SubSeq(s, 1, k) /\ SubSeq(s, 1, k)[n + 1] = s[n + 1]
      BY <1>4, <3>1
    <3> QED
      BY <1>6, <3>2, <3>3 DEF ContainsAny
  <2> QED
    BY <2>1, <2>3, <2>4
<1>7. FirstLine(s)
        = CHOOSE line \in {SubSeq(s, 1, k) : k \in 0..Len(s)} : Line(line)
  BY DEF FirstLine
<1>8. \A line \in {SubSeq(s, 1, k) : k \in 0..Len(s)} : Line(line) => line = t
  BY <1>6
<1> HIDE DEF Line, t
<1>9. FirstLine(s) = t
  BY <1>5, <1>7, <1>8
<1>10. Len(t) > 0
  <2>1. Len(t) \in Nat
    BY <1>3, LenProperties
  <2> QED
    BY <1>2, <2>1, ConfigAssumption
<1> QED
  BY <1>2, <1>3, <1>9, <1>10

\* LoadToken takes a token from no file that an administrator would not call
\* one.
LEMMA OnlyValidLoaded ==
    ASSUME NEW s \in Seq(Characters), LoadToken(s) # NoToken
    PROVE  Valid(s)
<1>1. PICK n \in 0..Len(s) :
        /\ trimTrailingLineEnding(s) = SubSeq(s, 1, n)
        /\ SubSeq(s, n + 1, Len(s)) \in {<<>>, <<"\n">>, <<"\r", "\n">>}
  BY TrimmedIsPrefix
<1>2. /\ LoadToken(s) = SubSeq(s, 1, n)
      /\ ~(Len(SubSeq(s, 1, n)) < MinimumTokenLength)
  BY <1>1 DEF LoadToken
<1>3. Len(SubSeq(s, 1, n)) = n
  BY Prefix
<1>4. n \in Nat /\ n >= MinimumTokenLength
  BY <1>2, <1>3, ConfigAssumption, LenProperties
<1>5. Len(FirstLine(s)) = n
  BY <1>2, <1>3, TokenIsFirstLine
<1> QED
  BY <1>1, <1>4, <1>5 DEF Valid

-----------------------------------------------------------------------------
(* What a Pod makes of a header.                                           *)

LEMMA FromThird ==
    ASSUME NEW S, NEW s, NEW n \in Int, \A i \in 3..n : s[i] \in S
    PROVE  /\ SubSeq(s, 3, n) \in Seq(S)
           /\ Len(SubSeq(s, 3, n)) = IF 3 <= n THEN n - 3 + 1 ELSE 0
           /\ \A i \in 1..(n - 3 + 1) : SubSeq(s, 3, n)[i] = s[3 + i - 1]
  BY SubSeqProperties

LEMMA AfterScheme ==
    ASSUME NEW S, NEW scheme \in Seq(S), NEW rest \in Seq(S),
           NEW value, Len(scheme) = 2, value = scheme \o rest
    PROVE  /\ Len(value) = 2 + Len(rest)
           /\ rest # <<>> => value[1] = scheme[1] /\ value[2] = scheme[2]
           /\ SubSeq(value, 3, Len(value)) = rest
<1>1. Len(rest) \in Nat
  BY LenProperties
<1>2. /\ value \in Seq(S)
      /\ Len(value) = 2 + Len(rest)
      /\ \A i \in 1..(2 + Len(rest)) :
           value[i] = IF i <= 2 THEN scheme[i] ELSE rest[i - 2]
  <2>1. /\ scheme \o rest \in Seq(S)
        /\ Len(scheme \o rest) = Len(scheme) + Len(rest)
        /\ \A i \in 1..(Len(scheme) + Len(rest)) :
             (scheme \o rest)[i] = IF i <= Len(scheme) THEN scheme[i]
                                                       ELSE rest[i - Len(scheme)]
    BY ConcatProperties, Zenon
  <2> QED
    BY <2>1, Zenon
<1>3. value[1] = scheme[1] /\ value[2] = scheme[2]
  BY <1>1, <1>2
<1>4. \A i \in 3..Len(value) : value[i] \in S
  <2>1. \A i \in 1..Len(value) : value[i] \in S
    BY <1>2, LenProperties
  <2> QED
    BY <1>1, <1>2, <2>1
<1>5. Len(value) \in Int
  BY <1>1, <1>2
<1>6. /\ SubSeq(value, 3, Len(value)) \in Seq(S)
      /\ Len(SubSeq(value, 3, Len(value)))
           = IF 3 <= Len(value) THEN Len(value) - 3 + 1 ELSE 0
      /\ \A i \in 1..(Len(value) - 3 + 1) :
           SubSeq(value, 3, Len(value))[i] = value[3 + i - 1]
  BY <1>4, <1>5, FromThird
<1>7. Len(SubSeq(value, 3, Len(value))) = Len(rest)
  BY <1>1, <1>2, <1>6
<1>8. ASSUME NEW i \in 1..Len(rest)
      PROVE  SubSeq(value, 3, Len(value))[i] = rest[i]
  <2>1. /\ i \in 1..(Len(value) - 3 + 1)
        /\ 3 + i - 1 = i + 2
        /\ i + 2 \in 1..(2 + Len(rest)) /\ ~(i + 2 <= 2)
        /\ i + 2 - 2 = i
    BY <1>1, <1>2
  <2>2. value[i + 2] = rest[i]
    BY <1>2, <2>1
  <2> QED
    BY <1>6, <2>1, <2>2
<1>9. SubSeq(value, 3, Len(value)) = rest
  BY <1>6, <1>7, <1>8, SeqEqual
<1> QED
  BY <1>2, <1>3, <1>9

\* A Pod accepts the header built from a file exactly if it holds the first
\* line of that file, and the line has no blank.
LEMMA HeaderAccepted ==
    ASSUME NEW s \in Seq(Characters), LoadToken(s) # NoToken, NEW held
    PROVE  authenticated(HeaderOf(s), held)
             <=> ~HasBlank(s) /\ held = FirstLine(s)
<1>1. PICK line : line = FirstLine(s)
  OBVIOUS
<1>2. /\ line \in Seq(Characters)
      /\ Len(line) \in Nat /\ Len(line) > 0
      /\ DOMAIN line = 1..Len(line)
      /\ \A i \in 1..Len(line) : line[i] \in Characters
      /\ ~ContainsAny(line, {"\r", "\n"})
  BY <1>1, TokenIsFirstLine, LenProperties
<1>3. PICK scheme : scheme = <<"Bearer", " ">>
  OBVIOUS
<1>4. Len(scheme) = 2 /\ scheme[1] = "Bearer" /\ scheme[2] = " "
  BY <1>3
<1>5. PICK Letters : Letters = Characters \cup {"Bearer"}
  OBVIOUS
<1>6. line \in Seq(Letters) /\ scheme \in Seq(Letters)
  <2>1. line \in Seq(Letters)
    BY <1>2, <1>5
  <2>2. "Bearer" \in Letters /\ " " \in Letters
    BY <1>5 DEF Characters
  <2>3. \A a, b \in Letters : <<a, b>> \in Seq(Letters)
    OBVIOUS
  <2>4. scheme \in Seq(Letters)
    BY <1>3, <2>2, <2>3, Zenon
  <2> QED
    BY <2>1, <2>4
<1>7. PICK value : value = scheme \o line
  OBVIOUS
<1>8. /\ Len(value) = 2 + Len(line)
      /\ value[1] = "Bearer" /\ value[2] = " "
      /\ SubSeq(value, 3, Len(value)) = line
  <2>1. line # <<>>
    BY <1>2
  <2>2. /\ Len(value) = 2 + Len(line)
        /\ line # <<>> => value[1] = scheme[1] /\ value[2] = scheme[2]
        /\ SubSeq(value, 3, Len(value)) = line
    BY <1>4, <1>6, <1>7, AfterScheme, Zenon
  <2> QED
    BY <1>4, <2>1, <2>2, Zenon
<1>9. HeaderOf(s) = <<value>>
  BY <1>1, <1>3, <1>7 DEF HeaderOf
<1>10. Len(HeaderOf(s)) = 1 /\ HeaderOf(s)[1] = value
  BY <1>9
<1>11. ContainsAny(line, {" ", "\t", "\r", "\n"}) <=> HasBlank(s)
  <2>1. \A i \in DOMAIN line : line[i] \notin {"\r", "\n"}
    BY <1>2 DEF ContainsAny, Characters
  <2> QED
    BY <1>1, <2>1 DEF ContainsAny, HasBlank
<1>12. Len(value) > 2
  <2>1. Len(value) = 2 + Len(line)
    BY <1>8, Zenon
  <2>2. Len(line) \in Nat /\ Len(line) > 0
    BY <1>2, Zenon
  <2> QED
    BY <2>1, <2>2
<1>13. authenticated(HeaderOf(s), held)
         <=> ~ContainsAny(line, {" ", "\t", "\r", "\n"}) /\ line = held
  BY <1>8, <1>10, <1>12, Zenon DEF authenticated
<1> QED
  BY <1>1, <1>11, <1>13

\* A Pod whose token any header can present accepts the header of each file
\* with that token.
LEMMA AcceptedFromAny ==
    ASSUME NEW s \in Seq(Characters), LoadToken(s) # NoToken,
           NEW values, authenticated(values, LoadToken(s))
    PROVE  authenticated(HeaderOf(s), LoadToken(s))
<1>1. ~ContainsAny(LoadToken(s), {" ", "\t"})
  BY DEF authenticated, ContainsAny
<1>2. FirstLine(s) = LoadToken(s)
  BY TokenIsFirstLine
<1>3. ~HasBlank(s)
  BY <1>1, <1>2 DEF HasBlank
<1> QED
  BY <1>2, <1>3, HeaderAccepted

-----------------------------------------------------------------------------
(* The invariant is inductive.                                             *)

LEMMA LoadTokenType ==
    ASSUME NEW s \in Secrets
    PROVE  s \in Seq(Characters) /\ LoadToken(s) \in Seq(Characters)
<1>1. s \in Seq(Characters)
  BY RotationAssumption
<1>2. NoToken \in Seq(Characters)
  BY DEF NoToken
<1> QED
  BY <1>1, <1>2, TokenIsFirstLine

LEMMA InitInv == Init => Inv
<1> SUFFICES ASSUME Init PROVE Inv
  OBVIOUS
<1>1. NoToken \in Seq(Characters)
  BY DEF NoToken
<1>2. TypeOK
  BY <1>1 DEF Init, TypeOK
<1>3. /\ RevisionsBehind /\ LoadedCurrent /\ LoadedEither
      /\ OnlyCurrentPods /\ PreviousWasLoaded
  BY DEF Init, RevisionsBehind, LoadedCurrent, LoadedEither, OnlyCurrentPods,
         PreviousWasLoaded
<1> QED
  BY <1>2, <1>3 DEF Inv

\* A Pod that goes from one phase to another, its process with a token that
\* is current.
LEMMA PodChanges ==
    ASSUME Inv, UNCHANGED adminVars, NEW p \in Pods,
           NEW ph \in {"none", "starting", "loaded", "ready"},
           NEW r \in Nat, r <= revision, NEW t \in Seq(Characters),
           phase' = [phase EXCEPT ![p] = ph],
           podRevision' = [podRevision EXCEPT ![p] = r],
           token' = [token EXCEPT ![p] = t],
           crashes' \in Nat,
           ph # "none" => r = revision \/ (r = podRevision[p] /\ phase[p] # "none"),
           (admin # "replaced" /\ ph \in {"loaded", "ready"} /\ r = revision)
             => t = LoadToken(secret) /\ t # NoToken,
           ph \in {"loaded", "ready"}
             => t \in {LoadToken(secret), LoadToken(previous)} /\ t # NoToken
    PROVE  Inv'
<1>a. /\ secret' = secret /\ previous' = previous
      /\ admin' = admin /\ revision' = revision
  BY DEF adminVars
<1>t. /\ phase \in [Pods -> {"none", "starting", "loaded", "ready"}]
      /\ podRevision \in [Pods -> Nat]
      /\ token \in [Pods -> Seq(Characters)]
  BY DEF Inv, TypeOK
<1>1. TypeOK'
  BY <1>a, <1>t DEF Inv, TypeOK
<1>2. \A q \in Pods :
        IF q = p THEN phase'[q] = ph /\ podRevision'[q] = r /\ token'[q] = t
                 ELSE /\ phase'[q] = phase[q] /\ podRevision'[q] = podRevision[q]
                      /\ token'[q] = token[q]
  BY <1>t
<1>3. RevisionsBehind'
  BY <1>a, <1>2 DEF Inv, RevisionsBehind
<1>4. LoadedCurrent'
  BY <1>a, <1>2 DEF Inv, LoadedCurrent
<1>5. OnlyCurrentPods'
  BY <1>a, <1>2 DEF Inv, OnlyCurrentPods
<1>6. PreviousWasLoaded'
  BY <1>a DEF Inv, PreviousWasLoaded
<1>7. LoadedEither'
  BY <1>a, <1>2 DEF Inv, LoadedEither
<1> QED
  BY <1>1, <1>3, <1>4, <1>5, <1>6, <1>7 DEF Inv

LEMMA NextInv ==
    ASSUME Inv, [Next]_vars
    PROVE  Inv'
<1>t. TypeOK
  BY DEF Inv
<1>s. /\ LoadToken(secret) \in Seq(Characters)
      /\ NoToken \in Seq(Characters)
  BY <1>t, LoadTokenType DEF TypeOK, NoToken
<1>k. crashes \in Nat
  BY <1>t DEF TypeOK
<1>p. ASSUME NEW p \in Pods
      PROVE  /\ podRevision[p] \in Nat /\ podRevision[p] <= revision
             /\ token[p] \in Seq(Characters)
             /\ podRevision = [podRevision EXCEPT ![p] = podRevision[p]]
             /\ token = [token EXCEPT ![p] = token[p]]
             /\ revision \in Nat
  BY <1>t DEF Inv, TypeOK, RevisionsBehind
<1>1. ASSUME NEW p \in Pods, Load(p) PROVE Inv'
  <2>0. PICK contents \in Mounted(p) :
          /\ token' = [token EXCEPT ![p] = LoadToken(contents)]
          /\ phase' = [phase EXCEPT ![p] = IF LoadToken(contents) = NoToken
                                          THEN @ ELSE "loaded"]
    BY <1>1 DEF Load
  <2> DEFINE ph == IF LoadToken(contents) = NoToken THEN "starting" ELSE "loaded"
  <2>1. /\ phase[p] = "starting"
        /\ phase' = [phase EXCEPT ![p] = ph]
        /\ podRevision' = [podRevision EXCEPT ![p] = podRevision[p]]
        /\ UNCHANGED adminVars /\ crashes' \in Nat
    BY <1>1, <1>k, <1>p, <2>0 DEF Load
  <2>2. ph \in {"none", "starting", "loaded", "ready"} /\ ph # "ready"
    OBVIOUS
  <2>3. ph = "loaded" => LoadToken(contents) # NoToken
    OBVIOUS
  <2>4. /\ contents \in {secret, previous}
        /\ admin # "replaced" /\ podRevision[p] = revision => contents = secret
    BY DEF Mounted
  <2>5. LoadToken(contents) \in Seq(Characters)
    BY <1>t, <2>4, LoadTokenType DEF TypeOK
  <2> HIDE DEF ph
  <2> QED
    BY <1>p, <2>0, <2>1, <2>2, <2>3, <2>4, <2>5, PodChanges
<1>2. ASSUME NEW p \in Pods, BecomeReady(p) PROVE Inv'
  <2>1. /\ phase[p] = "loaded"
        /\ phase' = [phase EXCEPT ![p] = "ready"]
        /\ token' = [token EXCEPT ![p] = token[p]]
        /\ podRevision' = [podRevision EXCEPT ![p] = podRevision[p]]
        /\ UNCHANGED adminVars /\ crashes' \in Nat
    BY <1>2, <1>k, <1>p DEF BecomeReady
  <2>2. (admin # "replaced" /\ podRevision[p] = revision)
          => token[p] = LoadToken(secret) /\ token[p] # NoToken
    BY <2>1 DEF Inv, LoadedCurrent
  <2>3. /\ token[p] \in {LoadToken(secret), LoadToken(previous)}
        /\ token[p] # NoToken
    BY <2>1 DEF Inv, LoadedEither
  <2> QED
    BY <1>p, <2>1, <2>2, <2>3, PodChanges
<1>3. ASSUME NEW p \in Pods, Crash(p) PROVE Inv'
  <2>1. /\ phase[p] # "none"
        /\ phase' = [phase EXCEPT ![p] = "starting"]
        /\ token' = [token EXCEPT ![p] = token[p]]
        /\ podRevision' = [podRevision EXCEPT ![p] = podRevision[p]]
        /\ UNCHANGED adminVars /\ crashes' \in Nat
    BY <1>3, <1>k, <1>p DEF Crash
  <2> QED
    BY <1>p, <2>1, PodChanges
<1>4. ASSUME NEW p \in Pods, CreatePod(p) PROVE Inv'
  <2>1. /\ phase' = [phase EXCEPT ![p] = "starting"]
        /\ token' = [token EXCEPT ![p] = token[p]]
        /\ podRevision' = [podRevision EXCEPT ![p] = revision]
        /\ UNCHANGED adminVars /\ crashes' \in Nat
    BY <1>4, <1>k, <1>p DEF CreatePod
  <2>2. revision <= revision
    BY <1>p
  <2> QED
    BY <1>p, <2>1, <2>2, PodChanges
<1>5. ASSUME NEW p \in Pods, RemoveOld(p) PROVE Inv'
  <2>1. /\ phase' = [phase EXCEPT ![p] = "none"]
        /\ token' = [token EXCEPT ![p] = NoToken]
        /\ podRevision' = [podRevision EXCEPT ![p] = 0]
        /\ UNCHANGED adminVars /\ crashes' \in Nat
    BY <1>5, <1>k DEF RemoveOld, Remove
  <2>2. 0 \in Nat /\ 0 <= revision
    BY <1>p
  <2> QED
    BY <1>s, <2>1, <2>2, PodChanges
<1>6. ASSUME NEW s \in Secrets, ReplaceSecret(s) PROVE Inv'
  <2>1. /\ admin = "rest" /\ RolledOut
        /\ secret' = s /\ previous' = secret /\ admin' = "replaced"
        /\ revision' = revision
        /\ phase' = phase /\ podRevision' = podRevision /\ token' = token
        /\ crashes' = crashes
    BY <1>6 DEF ReplaceSecret, podVars
  <2>2. LoadToken(secret) # NoToken
    BY <2>1 DEF RolledOut, Inv, LoadedCurrent
  <2>3. TypeOK'
    BY <1>t, <2>1 DEF TypeOK
  <2> QED
    BY <2>1, <2>2, <2>3 DEF Inv, RevisionsBehind, LoadedCurrent,
                            LoadedEither, OnlyCurrentPods, PreviousWasLoaded
<1>7. CASE RolloutRestart
  <2>1. /\ admin = "replaced" /\ admin' = "waiting"
        /\ revision' = revision + 1
        /\ secret' = secret /\ previous' = previous
        /\ phase' = phase /\ podRevision' = podRevision /\ token' = token
        /\ crashes' = crashes
    BY <1>7 DEF RolloutRestart, podVars
  <2>2. TypeOK'
    BY <1>t, <2>1 DEF TypeOK
  <2>3. \A p \in Pods : podRevision'[p] <= revision' /\ podRevision'[p] # revision'
    BY <1>p, <2>1
  <2> QED
    BY <2>1, <2>2, <2>3 DEF Inv, RevisionsBehind, LoadedCurrent,
                            LoadedEither, OnlyCurrentPods, PreviousWasLoaded
<1>8. CASE RolloutStatus
  <2>1. /\ admin = "waiting" /\ RolledOut /\ admin' = "confirm"
        /\ revision' = revision
        /\ secret' = secret /\ previous' = previous
        /\ phase' = phase /\ podRevision' = podRevision /\ token' = token
        /\ crashes' = crashes
    BY <1>8 DEF RolloutStatus, podVars
  <2>2. TypeOK'
    BY <1>t, <2>1 DEF TypeOK
  <2> QED
    BY <2>1, <2>2 DEF RolledOut, Inv, RevisionsBehind, LoadedCurrent,
                      LoadedEither, OnlyCurrentPods, PreviousWasLoaded
<1>9. CASE Confirmed
  <2>1. /\ admin = "confirm" /\ admin' = "rest"
        /\ revision' = revision
        /\ secret' = secret /\ previous' = previous
        /\ phase' = phase /\ podRevision' = podRevision /\ token' = token
        /\ crashes' = crashes
    BY <1>9 DEF Confirmed, podVars
  <2>2. TypeOK'
    BY <1>t, <2>1 DEF TypeOK
  <2> QED
    BY <2>1, <2>2 DEF Inv, RevisionsBehind, LoadedCurrent,
                      LoadedEither, OnlyCurrentPods, PreviousWasLoaded
<1>10. CASE UNCHANGED vars
  <2>1. /\ revision' = revision /\ admin' = admin
        /\ secret' = secret /\ previous' = previous
        /\ phase' = phase /\ podRevision' = podRevision /\ token' = token
        /\ crashes' = crashes
    BY <1>10 DEF vars, adminVars, podVars
  <2> QED
    BY <2>1 DEF Inv, TypeOK, RevisionsBehind, LoadedCurrent, LoadedEither,
                OnlyCurrentPods, PreviousWasLoaded
<1> QED
  BY <1>1, <1>2, <1>3, <1>4, <1>5, <1>6, <1>7, <1>8, <1>9, <1>10
     DEF Next, PodStep

LEMMA Invariance == Spec => []Inv
  BY InitInv, NextInv, PTL DEF Spec

-----------------------------------------------------------------------------
(* The theorems.                                                           *)

\* When the administrator is told that the rollout is complete, every Pod
\* that takes requests knows the new token and none the old one (LoadToken
\* and authenticated), whatever crashed on the way.
THEOREM RotationEffective == Spec => []RotationTakesEffect
<1>1. ASSUME Inv PROVE RotationTakesEffect
  <2> SUFFICES ASSUME admin = "confirm", NEW p \in Pods, phase[p] = "ready"
               PROVE  /\ authenticated(HeaderOf(secret), token[p])
                           <=> ~HasBlank(secret)
                      /\ HeaderOf(previous) # HeaderOf(secret) =>
                           ~authenticated(HeaderOf(previous), token[p])
    BY DEF RotationTakesEffect
  <2>1. token[p] = LoadToken(secret) /\ LoadToken(secret) # NoToken
    BY <1>1 DEF Inv, OnlyCurrentPods, LoadedCurrent
  <2>2. LoadToken(previous) # NoToken
    BY <1>1 DEF Inv, PreviousWasLoaded
  <2>3. secret \in Seq(Characters) /\ previous \in Seq(Characters)
    BY <1>1, LoadTokenType DEF Inv, TypeOK
  <2>4. token[p] = FirstLine(secret)
    BY <2>1, <2>3, TokenIsFirstLine
  <2>5. authenticated(HeaderOf(secret), token[p])
          <=> ~HasBlank(secret) /\ token[p] = FirstLine(secret)
    BY <2>1, <2>3, HeaderAccepted
  <2>6. authenticated(HeaderOf(previous), token[p])
          => token[p] = FirstLine(previous)
    BY <2>2, <2>3, HeaderAccepted
  <2>7. FirstLine(previous) = FirstLine(secret)
          => HeaderOf(previous) = HeaderOf(secret)
    BY DEF HeaderOf
  <2> QED
    BY <2>4, <2>5, <2>6, <2>7
<1> QED
  BY <1>1, Invariance, PTL

\* Whoever is answered before a step has the token that was replaced, or a
\* valid one.
LEMMA ServedToken ==
    ASSUME Inv, Serves(secret) \/ Serves(previous)
    PROVE  Serves(previous) \/ (Valid(secret) /\ Serves(secret))
<1>1. SUFFICES ASSUME Serves(secret), LoadToken(secret) = NoToken
               PROVE  Serves(previous)
  BY OnlyValidLoaded, LoadTokenType DEF Inv, TypeOK
<1>2. PICK p \in Pods :
        phase[p] = "ready" /\ authenticated(HeaderOf(secret), token[p])
  BY <1>1 DEF Serves
<1>3. token[p] = LoadToken(previous) /\ LoadToken(previous) # NoToken
  BY <1>1, <1>2 DEF Inv, LoadedEither
<1>4. previous \in Seq(Characters)
  BY LoadTokenType DEF Inv, TypeOK
<1>5. authenticated(HeaderOf(previous), token[p])
  BY <1>2, <1>3, <1>4, AcceptedFromAny
<1> QED
  BY <1>2, <1>5 DEF Serves

\* A rotation locks nobody out: as long as some token is accepted, only a crash
\* can leave neither the replaced token accepted nor a new one that is valid
\* (LoadToken, the exit of run without a token, and the rolling update of one
\* replica), whatever the contents of the Secrets.
THEOREM NobodyLockedOut == Spec => KeepsServing
<1> DEFINE Served == Serves(secret) \/ Serves(previous)
           Kept == \/ Serves(previous)'
                   \/ Valid(secret)' /\ (Serves(secret)' \/ HasBlank(secret)')
                   \/ crashes' # crashes
<1>1. ASSUME Inv, [Next]_vars, Served PROVE Kept
  <2>t. /\ phase \in [Pods -> {"none", "starting", "loaded", "ready"}]
        /\ token \in [Pods -> Seq(Characters)]
        /\ secret \in Seq(Characters) /\ previous \in Seq(Characters)
    BY <1>1, LoadTokenType DEF Inv, TypeOK
  <2>k. ASSUME secret' = secret, previous' = previous,
               \A q \in Pods : phase[q] = "ready" =>
                 phase'[q] = "ready" /\ token'[q] = token[q]
        PROVE  Kept
    <3>1. Serves(previous) => Serves(previous)'
      BY <2>k DEF Serves
    <3>2. Serves(secret) => Serves(secret)'
      BY <2>k DEF Serves
    <3>3. Valid(secret) => Valid(secret)'
      BY <2>k
    <3> QED
      BY <1>1, <3>1, <3>2, <3>3, ServedToken
  <2>1. ASSUME NEW p \in Pods, Load(p) PROVE Kept
    <3>1. /\ phase[p] = "starting" /\ secret' = secret /\ previous' = previous
          /\ \A q \in Pods \ {p} : phase'[q] = phase[q] /\ token'[q] = token[q]
      BY <2>t, <2>1 DEF Load, adminVars
    <3>2. \A q \in Pods : phase[q] = "ready" =>
            phase'[q] = "ready" /\ token'[q] = token[q]
      BY <3>1
    <3> QED
      BY <2>k, <3>1, <3>2
  <2>2. ASSUME NEW p \in Pods, BecomeReady(p) \/ CreatePod(p) PROVE Kept
    <3>1. /\ phase[p] # "ready" /\ secret' = secret /\ previous' = previous
          /\ token' = token /\ \A q \in Pods \ {p} : phase'[q] = phase[q]
      BY <2>t, <2>2 DEF BecomeReady, CreatePod, adminVars
    <3>2. \A q \in Pods : phase[q] = "ready" =>
            phase'[q] = "ready" /\ token'[q] = token[q]
      BY <3>1
    <3> QED
      BY <2>k, <3>1, <3>2
  <2>3. ASSUME NEW p \in Pods, RemoveOld(p) PROVE Kept
    <3>1. /\ secret' = secret /\ previous' = previous
          /\ phase[p] # "none" /\ podRevision[p] # revision
          /\ \A q \in Pods \ {p} : phase'[q] = phase[q] /\ token'[q] = token[q]
      BY <2>t, <2>3 DEF RemoveOld, Remove, adminVars
    <3>2. CASE phase[p] # "ready"
      <4>1. \A q \in Pods : phase[q] = "ready" =>
              phase'[q] = "ready" /\ token'[q] = token[q]
        BY <3>1, <3>2
      <4> QED
        BY <2>k, <3>1, <4>1
    <3>3. CASE phase[p] = "ready"
      <4>1. PICK q \in Pods \ {p} : phase[q] = "ready" /\ podRevision[q] = revision
        BY <2>3, <3>3 DEF RemoveOld, Spared
      <4>2. admin = "waiting"
        BY <1>1, <3>1 DEF Inv, OnlyCurrentPods
      <4>3. token[q] = LoadToken(secret) /\ LoadToken(secret) # NoToken
        BY <1>1, <4>1, <4>2 DEF Inv, LoadedCurrent
      <4>4. Valid(secret) /\ token[q] = FirstLine(secret)
        BY <2>t, <4>3, OnlyValidLoaded, TokenIsFirstLine
      <4>5. HasBlank(secret) \/ authenticated(HeaderOf(secret), token[q])
        BY <2>t, <4>3, <4>4, HeaderAccepted
      <4>6. phase'[q] = "ready" /\ token'[q] = token[q]
        BY <3>1, <4>1
      <4>7. authenticated(HeaderOf(secret), token[q]) => Serves(secret)'
        BY <3>1, <4>1, <4>6 DEF Serves
      <4>8. Valid(secret)' /\ (HasBlank(secret) => HasBlank(secret)')
        BY <3>1, <4>4
      <4> QED
        BY <4>5, <4>7, <4>8
    <3> QED
      BY <3>2, <3>3
  <2>4. ASSUME NEW p \in Pods, Crash(p) PROVE Kept
    <3>1. crashes \in Nat /\ crashes' = crashes + 1
      BY <1>1, <2>4 DEF Crash, Inv, TypeOK
    <3>2. crashes' # crashes
      BY <3>1
    <3> QED
      BY <3>2
  <2>5. ASSUME NEW s \in Secrets, ReplaceSecret(s) PROVE Kept
    <3>1. /\ admin = "rest" /\ previous' = secret
          /\ phase' = phase /\ token' = token
      BY <2>5 DEF ReplaceSecret, podVars
    <3>2. PICK p \in Pods, contents \in {secret, previous} :
            phase[p] = "ready" /\ authenticated(HeaderOf(contents), token[p])
      BY <1>1 DEF Serves
    <3>3. token[p] = LoadToken(secret) /\ LoadToken(secret) # NoToken
      BY <1>1, <3>1, <3>2 DEF Inv, OnlyCurrentPods, LoadedCurrent
    <3>4. authenticated(HeaderOf(secret), token[p])
      BY <2>t, <3>2, <3>3, AcceptedFromAny
    <3>5. Serves(previous)'
      BY <3>1, <3>2, <3>4 DEF Serves
    <3> QED
      BY <3>5
  <2>6. CASE RolloutRestart \/ RolloutStatus \/ Confirmed
    BY <2>k, <2>6 DEF RolloutRestart, RolloutStatus, Confirmed, podVars
  <2>7. CASE UNCHANGED vars
    BY <2>k, <2>7 DEF vars, adminVars, podVars
  <2> HIDE DEF Kept
  <2> QED
    BY <1>1, <2>1, <2>2, <2>3, <2>4, <2>5, <2>6, <2>7 DEF Next, PodStep
<1> QED
  BY <1>1, Invariance, PTL DEF Spec, KeepsServing

=============================================================================
