------------------------------- MODULE MCHub -------------------------------
(* Hub on small instances. *)
EXTENDS Hub, TLC

CONSTANTS o1, o2, c1, c2, c3

\* Two connections of one organization, without and with one of another.
TwoOfOne  == (c1 :> o1) @@ (c2 :> o1)
TwoAndOne == TwoOfOne @@ (c3 :> o2)
=============================================================================
