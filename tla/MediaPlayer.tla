---------------------------- MODULE MediaPlayer ----------------------------
(***************************************************************************)
(* One viewer of a stream: the mediaBuffer that reads a subscription       *)
(* channel (mediabuffer.go) and the mediaPlayer that takes tags out of the *)
(* buffer and sends them to the viewer's connection (mediaplayer.go).      *)
(*                                                                         *)
(* Two goroutines run per viewer.  The buffer's loop() is always ready to  *)
(* receive from the hub, and ready to hand its front tag to Get() when it  *)
(* has one; when a tag does not fit it is dropped.  The player's loop()    *)
(* alternates between Get() and Stream.Send(), which may block for as long *)
(* as the viewer's socket does.                                            *)
(*                                                                         *)
(* Push and EndOfStream are the buffer's part of a send on the channel and *)
(* of its close; MediaPipeline has the hub's part.                         *)
(*                                                                         *)
(* A tag is its position in the subscription channel, with its Size.  The  *)
(* arithmetic on sizes is that of uint32, which it cannot overflow: a size *)
(* on the wire has 24 bits and maxSize is 2^22.                            *)
(***************************************************************************)
EXTENDS Naturals, Sequences

CONSTANTS Players,  \* viewers
          MaxSize   \* maxSize of every buffer, a number

VARIABLES
  buf,      \* buf[s]: mediaBuffer.loop(): "none", "running" or "stopped"
  tags,     \* tags[s]: mb.tags, the tags waiting in the buffer
  size,     \* size[s]: mb.size
  player,   \* player[s]: where mediaPlayer.loop() is
  cur,      \* cur[s]: <<t>>, the tag the player is sending, or <<>>
  offered,  \* history: number of tags the buffer received
  dropped,  \* history: positions of the tags the buffer dropped
  sent      \* history: positions of the tags Stream.Send returned nil for

bufferVars  == <<buf, tags, size, offered, dropped>>
playerLoop  == <<player, cur, sent>>
playerVars  == <<bufferVars, playerLoop>>

\* "new" is created and not started, "exit" has left its loop and is in
\* mp.Close(), which waits for the hub to take the Unsubscribe.
PlayerStates == {"none", "new", "get", "send", "exit", "ended"}

----------------------------------------------------------------------------
(* The buffer.                                                             *)

\* NewMediaPlayer: Subscribe has succeeded; the buffer's goroutine starts.
NewPlayer(s) ==
  /\ player[s] = "none"
  /\ player' = [player EXCEPT ![s] = "new"]
  /\ buf' = [buf EXCEPT ![s] = "running"]
  /\ UNCHANGED <<tags, size, cur, offered, dropped, sent>>

Fits(s, z) == size[s] + z < MaxSize

Grown(s, z) == size[s] + z

\* Fault: the buffer waits for room instead of dropping.
PushWhenRoom(s, z) ==
  /\ buf[s] = "running"
  /\ Fits(s, z)
  /\ offered' = [offered EXCEPT ![s] = @ + 1]
  /\ tags' = [tags EXCEPT ![s] = Append(@, [pos |-> offered[s] + 1, size |-> z])]
  /\ size' = [size EXCEPT ![s] = Grown(s, z)]
  /\ UNCHANGED <<buf, dropped, playerLoop>>

Push(s, z) ==
  /\ buf[s] = "running"
  /\ offered' = [offered EXCEPT ![s] = @ + 1]
  /\ IF Fits(s, z)
       THEN /\ tags' = [tags EXCEPT ![s] = Append(@, [pos |-> offered[s] + 1, size |-> z])]
            /\ size' = [size EXCEPT ![s] = Grown(s, z)]
            /\ UNCHANGED dropped
       ELSE /\ dropped' = [dropped EXCEPT ![s] = @ \cup {offered[s] + 1}]
            /\ UNCHANGED <<tags, size>>
  /\ UNCHANGED <<buf, playerLoop>>

\* The hub closed the channel: what still waits in the buffer is given up.
EndOfStream(s) ==
  /\ buf[s] = "running"
  /\ buf' = [buf EXCEPT ![s] = "stopped"]
  /\ UNCHANGED <<tags, size, offered, dropped, playerLoop>>

----------------------------------------------------------------------------
(* The player.                                                             *)

\* Start: loopOnce makes every Start after the first a no-op.
Start(s) ==
  /\ player[s] = "new"
  /\ player' = [player EXCEPT ![s] = "get"]
  /\ UNCHANGED <<bufferVars, cur, sent>>

\* Faults: one tag always stays behind; mb.remove forgets the size; Get takes the newest tag.
KeepSize(s) == size[s]
Newest(s)   == tags[s][Len(tags[s])]

WaitingTwo(s) == Len(tags[s]) > 1

Waiting(s)   == tags[s] # <<>>
Front(s)     == Head(tags[s])
Remaining(s) == size[s] - Front(s).size

\* mb.out <- front, received by Get.
HandOver(s) ==
  /\ player[s] = "get"
  /\ buf[s] = "running"
  /\ Waiting(s)
  /\ cur' = [cur EXCEPT ![s] = <<Front(s)>>]
  /\ tags' = [tags EXCEPT ![s] = Tail(@)]
  /\ size' = [size EXCEPT ![s] = Remaining(s)]
  /\ player' = [player EXCEPT ![s] = "send"]
  /\ UNCHANGED <<buf, offered, dropped, sent>>

\* Fault: the buffer's loop() returns without close(mb.out).
GetNeverClosed(s) == FALSE /\ player[s] = "get" /\ UNCHANGED playerVars

\* Get finds out closed; the deferred mp.Close follows.
GetClosed(s) ==
  /\ player[s] = "get"
  /\ buf[s] = "stopped"
  /\ player' = [player EXCEPT ![s] = "exit"]
  /\ UNCHANGED <<bufferVars, cur, sent>>

SendReturns(s) ==
  /\ player[s] = "send"
  /\ sent' = [sent EXCEPT ![s] = Append(@, cur[s][1].pos)]
  /\ cur' = [cur EXCEPT ![s] = <<>>]
  /\ player' = [player EXCEPT ![s] = "get"]
  /\ UNCHANGED bufferVars

SendFails(s) ==
  /\ player[s] = "send"
  /\ cur' = [cur EXCEPT ![s] = <<>>]
  /\ player' = [player EXCEPT ![s] = "exit"]
  /\ UNCHANGED <<bufferVars, sent>>

\* mp.Close returned: the goroutine ends.
Unsubscribed(s) ==
  /\ player[s] = "exit"
  /\ player' = [player EXCEPT ![s] = "ended"]
  /\ UNCHANGED <<bufferVars, cur, sent>>

----------------------------------------------------------------------------

Init ==
  /\ buf = [s \in Players |-> "none"]
  /\ tags = [s \in Players |-> <<>>]
  /\ size = [s \in Players |-> 0]
  /\ player = [s \in Players |-> "none"]
  /\ cur = [s \in Players |-> <<>>]
  /\ offered = [s \in Players |-> 0]
  /\ dropped = [s \in Players |-> {}]
  /\ sent = [s \in Players |-> <<>>]

----------------------------------------------------------------------------
(* Properties.                                                             *)

TagType == [pos : Nat, size : Nat]

\* z is the sum of the sizes of the tags of q: f[i] is that of the first i of them.
IsTotal(z, q) ==
  \E f \in [0..Len(q) -> 0..z] :
    /\ f[0] = 0 /\ f[Len(q)] = z
    /\ \A i \in 1..Len(q) : f[i] = f[i - 1] + q[i].size

\* Every variable keeps its type; mb.size in particular never goes below zero,
\* where the uint32 would wrap around and make every later tag be dropped.
TypeOK ==
  /\ buf \in [Players -> {"none", "running", "stopped"}]
  /\ tags \in [Players -> Seq(TagType)]
  /\ size \in [Players -> Nat]
  /\ player \in [Players -> PlayerStates]
  /\ cur \in [Players -> Seq(TagType)]
  /\ offered \in [Players -> Nat]
  /\ dropped \in [Players -> SUBSET Nat]
  /\ sent \in [Players -> Seq(Nat)]

\* A viewer that does not read costs a bounded amount of memory, and the
\* account of it stays exact however pushes and removals alternate: no leak
\* of the budget, after which every tag would be dropped.
BudgetExact ==
  \A s \in Players : /\ IsTotal(size[s], tags[s])
                     /\ tags[s] # <<>> => size[s] < MaxSize

Positions(q) == [i \in DOMAIN q |-> q[i].pos]
\* What became of the tags the buffer did not drop, oldest first.
Kept(s) == sent[s] \o Positions(cur[s]) \o Positions(tags[s])

\* The viewer is sent what the hub sent in the same order, each tag at most
\* once, and the tags missing are exactly those that did not fit in the buffer:
\* none is lost between the two goroutines.
KeptInOrder ==
  \A s \in Players :
    /\ \A i, j \in DOMAIN Kept(s) : i < j => Kept(s)[i] < Kept(s)[j]
    /\ player[s] \in {"none", "new", "get", "send"} =>
         {Kept(s)[i] : i \in DOMAIN Kept(s)} = (1..offered[s]) \ dropped[s]
=============================================================================
