---------------------------- MODULE MCModelClient ----------------------------
(***************************************************************************)
(* Three calls of an account with two keys, one of the two models not      *)
(* taking the schema, and two calls to a window.                           *)
(***************************************************************************)
EXTENDS ModelClient, TLC

CONSTANTS c1, c2, c3

Fit(form, size) == [wants |-> form, malformed |-> FALSE, limit |-> size]

MCAsked == c1 :> {Fit("schema", 0)}
        @@ c2 :> {[wants |-> "schema", malformed |-> TRUE, limit |-> 0]}
        @@ c3 :> {Fit("plain", 1)}
MCStrict == {2}
=============================================================================
