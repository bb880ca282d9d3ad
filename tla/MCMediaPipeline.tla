-------------------------- MODULE MCMediaPipeline --------------------------
(* Instances of MediaPipeline for TLC.  With MaxSize 4 a buffer holds three *)
(* tags of size 1, or one of size 2 and one of size 1: a tag that does not  *)
(* fit comes before and after those that do.                                *)
EXTENDS MediaPipeline

SizeOfKind == [k \in Kinds |-> IF k = "interframe" THEN 1 ELSE 2]
=============================================================================
