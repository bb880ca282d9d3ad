------------------------------ MODULE MCServer ------------------------------
(* Instances of Server for TLC. *)
EXTENDS Server, TLC

CONSTANTS c1, c2, s1, s2, s3

\* Two connections with one stream each.
OneEach == s1 :> c1 @@ s2 :> c2
\* Two connections, the first with two streams.
TwoAndOne == s1 :> c1 @@ s2 :> c1 @@ s3 :> c2
=============================================================================
