----------------------------- MODULE MCHandover -----------------------------
(***************************************************************************)
(* An instance of Handover for TLC: two releases of the operator, with     *)
(* different images, and a resource that is edited once.                   *)
(***************************************************************************)
EXTENDS Handover

OneReplica == {1}
TwoMessages == {"", "hello"}

Releases == {"v1", "v2"}

OneEdit ==
    {[kinds |-> {"update"}, left |-> 1, specs |-> SpecValues,
      refused |-> {}, pending |-> 1]}

=============================================================================
