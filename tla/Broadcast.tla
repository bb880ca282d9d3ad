----------------------------- MODULE Broadcast -----------------------------
(***************************************************************************)
(* What a mediaStream promises its subscribers, without goroutines,        *)
(* channels or headers: a log of tags and one position per reader.  A      *)
(* reader enters at a key frame that is the newest tag, then takes every   *)
(* tag in order until it leaves for good.  Nothing is buffered: the log    *)
(* grows only when every reader has caught up.                             *)
(***************************************************************************)
EXTENDS Naturals, Sequences

CONSTANTS Readers

VARIABLES log,  \* kinds of the tags published so far
          pos   \* pos[r]: the last tag r was given, 0 when it is not reading

vars == <<log, pos>>

KeyKinds == {"seqHeader", "keyframe"}

Init ==
  /\ log = <<>>
  /\ pos = [r \in Readers |-> 0]

Publish ==
  /\ \A r \in Readers : pos[r] \in {0, Len(log)}
  /\ \E k \in {"seqHeader", "keyframe", "interframe", "aacHeader", "audio", "data"} :
       log' = Append(log, k)
  /\ UNCHANGED pos

Enter(r) ==
  /\ log # <<>>
  /\ log[Len(log)] \in KeyKinds
  /\ pos[r] = 0
  /\ pos' = [pos EXCEPT ![r] = Len(log)]
  /\ UNCHANGED log

Advance(r) ==
  /\ pos[r] # 0
  /\ pos[r] < Len(log)
  /\ pos' = [pos EXCEPT ![r] = @ + 1]
  /\ UNCHANGED log

Leave(R) ==
  /\ pos' = [r \in Readers |-> IF r \in R THEN 0 ELSE pos[r]]
  /\ UNCHANGED log

Next ==
  \/ Publish
  \/ \E r \in Readers : Enter(r) \/ Advance(r)
  \/ \E R \in SUBSET Readers : Leave(R)

Spec == Init /\ [][Next]_vars
=============================================================================
