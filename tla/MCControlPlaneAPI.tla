-------------------------- MODULE MCControlPlaneAPI -------------------------
(***************************************************************************)
(* Instances of ControlPlaneAPI for TLC.                                   *)
(***************************************************************************)
EXTENDS ControlPlaneAPI, TLC

\* Nothing tells the clients of an instance apart.
Symmetry == Permutations(Clients)

TwoNames == {"a", "b"}
AllNames == {"a", "b", "Bad_Name"}

\* An authorised GET of the collection.
Good == [path |-> "collection", method |-> "GET", token |-> TRUE,
         query |-> FALSE, name |-> "a", decoding |-> "ok",
         replicas |-> NoReplicas, messageLength |-> 0]

Item(method, name) ==
    [Good EXCEPT !.path = "item", !.method = method, !.name = name]

Post(name, replicas) ==
    [Good EXCEPT !.method = "POST", !.name = name, !.replicas = replicas]

\* Clients that create, read and delete the same service and create another,
\* one of them without the token.
Contending ==
    {Post("a", NoReplicas), Post("a", 3), Post("b", 2), Item("GET", "a"),
     Item("DELETE", "a"), Good, [Item("DELETE", "a") EXCEPT !.token = FALSE]}

\* Every way through the handler, with bodies on both sides of every limit.
EveryRoute ==
    [path : Paths, method : Methods, token : BOOLEAN, query : BOOLEAN,
     name : {"a"}, decoding : {"ok"}, replicas : {3}, messageLength : {0}]
    \cup
    [path : {"collection", "item"}, method : Methods, token : {TRUE},
     query : BOOLEAN, name : {"Bad_Name"}, decoding : {"ok"}, replicas : {3},
     messageLength : {0}]
    \cup
    [path : {"collection"}, method : {"POST"}, token : BOOLEAN,
     query : {FALSE}, name : {"a", "Bad_Name"}, decoding : Decodings,
     replicas : {NoReplicas, 0, 1, 3, 4}, messageLength : {120, 121}]

\* Contention; a service that is created, deleted and created again while it is
\* read; and every single way through the handler while the service it may be
\* about is created, or afterwards.
ContentionAndRoutes ==
    <<<<Contending, Contending, Contending>>,
      <<{Post("a", NoReplicas)}, {Item("DELETE", "a")}, {Post("a", 3)},
        {Item("GET", "a")}>>,
      <<{Post("a", NoReplicas)}, EveryRoute>>>>

=============================================================================
