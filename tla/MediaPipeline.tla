--------------------------- MODULE MediaPipeline ---------------------------
(***************************************************************************)
(* A stream with its viewers and watchers: the hub of MediaStream, and on  *)
(* a subscription channel either the buffer and the player of MediaPlayer, *)
(* or the goroutine TrackStarvation of rtmpserver, which reads it directly *)
(* and unsubscribes when it is closed.                                     *)
(*                                                                         *)
(* A send on a subscription channel is a step of the hub and of the buffer *)
(* at once; the close of the channel ends the buffer; Unsubscribe is       *)
(* called by the player that leaves its loop and by the server that        *)
(* destroys the viewer's stream, whichever comes first, or both.           *)
(***************************************************************************)
EXTENDS MediaStream

CONSTANTS Watchers,  \* the channels that TrackStarvation reads
          KindSize,  \* KindSize[k]: the Size of a tag of kind k
          MaxSize    \* maxSize of every buffer

VARIABLES buf, tags, size, player, cur, offered, dropped, sent,
          destroyed  \* the viewers of which the server has called Close

ByReader == "reader"   \* mediaPlayer.loop() in its deferred mp.Close(), TrackStarvation
ByServer == "server"   \* OnDestroyStream, or invokePlay that failed

ASSUME MediaPipelineAssumption ==
  /\ Closers = {ByReader, ByServer}
  /\ Watchers \subseteq Subs
  /\ KindSize \in [Kinds -> Nat]
  /\ MaxSize \in Nat

Viewers == Subs \ Watchers

MP == INSTANCE MediaPlayer WITH Players <- Viewers

playerVars == <<buf, tags, size, player, cur, offered, dropped, sent>>
restVars   == <<playerVars, destroyed>>
pipelineVars == <<vars, restVars>>

----------------------------------------------------------------------------
(* Steps of the hub and of its publishers.                                 *)

Hub ==
  /\ \/ \E p \in Publishers : \/ \E k \in Kinds : CallPublish(p, k)
                              \/ PublishClosed(p)
                              \/ ReceiveTag(p)
     \/ \E s \in Subs : CallSubscribe(s) \/ SubscribeClosed(s)
     \/ \E s \in Subs, c \in Closers : UnsubscribeClosed(s, c) \/ ReceiveUnsub(s, c)
     \/ Close
     \/ Exit
  /\ UNCHANGED restVars

----------------------------------------------------------------------------
(* Steps of the hub and a buffer.                                          *)

Subscribed(s) == ReceiveSub(s) /\ MP!NewPlayer(s) /\ UNCHANGED destroyed

SizeOf(n) == KindSize[published[n]]

Deliver(s) ==
  /\ \/ SendTag(s)    /\ MP!Push(s, SizeOf(Len(published)))
     \/ SendHeader(s) /\ MP!Push(s, SizeOf(Head(replay)))
  /\ UNCHANGED destroyed

ChannelClosed(s) == ReaderEnds(s) /\ MP!EndOfStream(s) /\ UNCHANGED destroyed

----------------------------------------------------------------------------
(* Steps of a player and of the server that owns it.                       *)

PlayerRuns(s) == (MP!Start(s) \/ MP!HandOver(s)) /\ UNCHANGED <<vars, destroyed>>

SendReturns(s) == MP!SendReturns(s) /\ UNCHANGED <<vars, destroyed>>

\* Whatever ends the loop, Unsubscribe is called on the way out.
SendFails(s) == MP!SendFails(s) /\ CallUnsubscribe(s, ByReader) /\ UNCHANGED destroyed
GetClosed(s) == MP!GetClosed(s) /\ CallUnsubscribe(s, ByReader) /\ UNCHANGED destroyed

Unsubscribed(s) ==
  /\ <<s, ByReader>> \notin unsub
  /\ MP!Unsubscribed(s)
  /\ UNCHANGED <<vars, destroyed>>

\* The server holds the player from the time Subscribe returned, and closes it once.
ServerCloses(s) ==
  /\ player[s] # "none"
  /\ s \notin destroyed
  /\ destroyed' = destroyed \cup {s}
  /\ CallUnsubscribe(s, ByServer)
  /\ UNCHANGED playerVars

----------------------------------------------------------------------------
(* Steps of TrackStarvation: what its ticker computes is only logged.      *)

StartsWatching(s) == ReceiveSub(s) /\ UNCHANGED restVars
Watches(s)        == (SendTag(s) \/ SendHeader(s)) /\ UNCHANGED restVars

\* The channel is closed: the deferred Unsubscribe.
WatchEnds(s) ==
  /\ sub[s] = "open"
  /\ Closed(s)
  /\ sub' = [sub EXCEPT ![s] = "ended"]
  /\ unsub' = unsub \cup {<<s, ByReader>>}
  /\ UNCHANGED <<pub, done, loopVars, closes, historyVars, restVars>>

Viewer(s) ==
  \/ Subscribed(s) \/ Deliver(s) \/ ChannelClosed(s)
  \/ PlayerRuns(s) \/ SendReturns(s) \/ SendFails(s) \/ GetClosed(s)
  \/ Unsubscribed(s) \/ ServerCloses(s)

PipelineInit == Init /\ MP!Init /\ destroyed = {}
PipelineNext ==
  \/ Hub
  \/ \E s \in Viewers : Viewer(s)
  \/ \E s \in Watchers : StartsWatching(s) \/ Watches(s) \/ WatchEnds(s)

PipelineSpec == PipelineInit /\ [][PipelineNext]_pipelineVars

\* Goroutines run when they can.  One waits in a select that is ready now and then may be
\* passed over only as often as there are other calls for the hub to take, and MaxTags and
\* destroyed bound these: weak fairness is enough.  Nothing is assumed of Stream.Send: a
\* viewer's socket may be stuck for ever.
HubFairness ==
  /\ \A p \in Publishers : WF_pipelineVars((ReceiveTag(p) \/ PublishClosed(p)) /\ UNCHANGED restVars)
  /\ \A s \in Viewers  : WF_pipelineVars(Subscribed(s) \/ (SubscribeClosed(s) /\ UNCHANGED restVars))
  /\ \A s \in Watchers : WF_pipelineVars((ReceiveSub(s) \/ SubscribeClosed(s)) /\ UNCHANGED restVars)
  /\ \A s \in Subs, c \in Closers :
       WF_pipelineVars((ReceiveUnsub(s, c) \/ UnsubscribeClosed(s, c)) /\ UNCHANGED restVars)
  /\ WF_pipelineVars((\E s \in Viewers : Deliver(s)) \/ \E s \in Watchers : Watches(s))
  /\ WF_pipelineVars(Exit /\ UNCHANGED restVars)

ReaderFairness ==
  /\ \A s \in Viewers : /\ WF_pipelineVars(ChannelClosed(s))
                        /\ WF_pipelineVars(PlayerRuns(s) \/ GetClosed(s) \/ Unsubscribed(s))
  /\ \A s \in Watchers : WF_pipelineVars(WatchEnds(s))

FairPipelineSpec == PipelineSpec /\ HubFairness /\ ReaderFairness

\* What holds of the viewers whose every Send returns, with or without an error.
SendsReturn(s) == WF_pipelineVars(SendReturns(s) \/ SendFails(s))

----------------------------------------------------------------------------
(* Properties.                                                             *)

\* What a viewer that is stuck keeps waiting is bounded, and accounted for exactly.
BudgetExact == MP!BudgetExact

\* A viewer is sent in order what was pushed to its buffer, less what did not fit; and
\* so the live tags of the stream in the order they were published, each at most once,
\* through the hub and both of its own goroutines.
ViewedInOrder ==
  /\ MP!KeptInOrder
  /\ \A s \in Viewers : \A i, j \in DOMAIN sent[s] :
       LET n(x) == received[s][sent[s][x]] IN
         i < j /\ n(i) > joined[s] /\ n(j) > joined[s] => n(i) < n(j)

\* CallsReturn of MediaStream holds here too, where nothing is assumed of
\* Stream.Send: a viewer whose socket is stuck holds up neither the publishers of
\* the stream nor its other viewers, which is what a mediaBuffer is for.

\* Close reaches everybody: the loop of the hub ends, the readers of all channels find
\* them closed, of those accepted after Close too, and no buffer goroutine is left, stuck
\* viewers included.
BuffersEnd ==
  done ~> /\ ~running
          /\ \A s \in Subs : sub[s] # "open"
          /\ \A s \in Viewers : buf[s] # "running"

\* When the stream is closed, or the server closes the player, a started player
\* whose sends return ends its loop and the call it makes on the way out, stuck
\* viewers or not: no goroutine is leaked.
PlayersEnd ==
  \A s \in Viewers : SendsReturn(s) =>
    (((done \/ Closed(s) \/ <<s, ByServer>> \in unsub) /\ player[s] \in {"get", "send", "exit"})
       ~> (player[s] = "ended"))

\* A viewer that keeps reading a stream that stays open gets every tag it was
\* offered, except those dropped.
AllDelivered ==
  \A s \in Viewers : \A n \in 1..MaxTags : SendsReturn(s) =>
    ((player[s] = "get" /\ offered[s] >= n /\ n \notin dropped[s]) ~>
       (\/ \E i \in DOMAIN sent[s] : sent[s][i] = n
        \/ buf[s] = "stopped" \/ player[s] \in {"exit", "ended"}))
=============================================================================
