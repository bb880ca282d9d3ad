---------------------------- MODULE MediaStream ----------------------------
(***************************************************************************)
(* The publish/subscribe hub of one live stream: mediastream.go.           *)
(*                                                                         *)
(* A mediaStream is one goroutine, loop(), that owns the map of            *)
(* subscriptions and the stored sequence headers.  Every other goroutine   *)
(* reaches it over the unbuffered channels pub, sub and unsub, always in a *)
(* select with the done channel that Close() closes.  A rendezvous on an   *)
(* unbuffered channel is one step of both parties, guarded by both being   *)
(* at the operation; a blocked call is a step that is not enabled.         *)
(*                                                                         *)
(* A tag is named by its position in published; published[n] is what       *)
(* GetVideoHeader / GetAudioHeader read from it.  Sizes, timestamps and    *)
(* the byte counters computed from them are left out: nothing in the       *)
(* control of loop() depends on them.                                      *)
(***************************************************************************)
EXTENDS Naturals, Sequences, FiniteSets

CONSTANTS Publishers,  \* goroutines that call Publish
          Subs,        \* subscription channels, each made by one Subscribe call
          Closers,     \* goroutines that call Unsubscribe on a channel
          Kinds,       \* kinds of tag the publishers send
          MaxTags      \* bound: tags offered to the loop

AllKinds == {"seqHeader", "keyframe", "interframe", "aacHeader", "audio", "data"}

ASSUME MediaStreamAssumption ==
  /\ Kinds \subseteq AllKinds
  /\ MaxTags \in Nat

Idle == "idle"

VARIABLES
  pub,        \* pub[p]: the kind p is offering in Publish, or Idle
  sub,        \* sub[s]: the goroutine that subscribes on channel s and reads it
  unsub,      \* the Unsubscribe calls in progress: <<channel, goroutine>>
  done,       \* the done channel is closed
  running,    \* loop() has not returned
  subs,       \* loop(): keys of the map subs
  started,    \* loop(): keys whose value in subs is, or was, true
  header,     \* loop(): dataHeader, videoHeader, audioHeader; 0 is nil
  rest,       \* loop(): channels it must still send to before the next select
  replay,     \* loop(): stored headers still to be sent to a new subscriber
  closes,     \* closes[s]: how often close(s) was executed
  published,  \* history: kinds of the tags the loop received
  joined,     \* history: Len(published) when s was received from sub
  received    \* history: tags sent on channel s, in order

loopVars    == <<running, subs, started, header, rest, replay>>
historyVars == <<published, joined, received>>
vars == <<pub, sub, unsub, done, loopVars, closes, historyVars>>

IsVideo(k) == k \in {"seqHeader", "keyframe", "interframe"}
IsKey(k)   == k \in {"seqHeader", "keyframe"}      \* FrameType == 1
Closed(s)  == closes[s] > 0
AtSelect   == running /\ rest = {}

----------------------------------------------------------------------------
(* Calls made by other goroutines.                                         *)

Offered == Cardinality({p \in Publishers : pub[p] # Idle})

CallPublish(p, k) ==
  /\ pub[p] = Idle
  /\ Len(published) + Offered < MaxTags
  /\ pub' = [pub EXCEPT ![p] = k]
  /\ UNCHANGED <<sub, unsub, done, loopVars, closes, historyVars>>

PublishClosed(p) ==          \* case <-ms.done: return MediaStreamClosed
  /\ pub[p] # Idle
  /\ done
  /\ pub' = [pub EXCEPT ![p] = Idle]
  /\ UNCHANGED <<sub, unsub, done, loopVars, closes, historyVars>>

CallSubscribe(s) ==
  /\ sub[s] = "idle"
  /\ sub' = [sub EXCEPT ![s] = "calling"]
  /\ UNCHANGED <<pub, unsub, done, loopVars, closes, historyVars>>

SubscribeClosed(s) ==        \* case <-ms.done: return nil, MediaStreamClosed
  /\ sub[s] = "calling"
  /\ done
  /\ sub' = [sub EXCEPT ![s] = "refused"]
  /\ UNCHANGED <<pub, unsub, done, loopVars, closes, historyVars>>

\* A channel is unsubscribed after Subscribe returned it, by several goroutines at
\* once and as often as they like.
CallUnsubscribe(s, c) ==
  /\ sub[s] \in {"open", "ended"}
  /\ <<s, c>> \notin unsub
  /\ unsub' = unsub \cup {<<s, c>>}
  /\ UNCHANGED <<pub, sub, done, loopVars, closes, historyVars>>

UnsubscribeClosed(s, c) ==   \* case <-ms.done
  /\ <<s, c>> \in unsub
  /\ done
  /\ unsub' = unsub \ {<<s, c>>}
  /\ UNCHANGED <<pub, sub, done, loopVars, closes, historyVars>>

\* doneOnce makes every Close after the first a no-op.
Close ==
  /\ ~done
  /\ done' = TRUE
  /\ UNCHANGED <<pub, sub, unsub, loopVars, closes, historyVars>>

\* The reader of s finds it closed: it has received all that was sent on s.
ReaderEnds(s) ==
  /\ sub[s] = "open"
  /\ Closed(s)
  /\ sub' = [sub EXCEPT ![s] = "ended"]
  /\ UNCHANGED <<pub, unsub, done, loopVars, closes, historyVars>>

----------------------------------------------------------------------------
(* loop(), one action per case of its select and per send it makes.        *)

\* Fault for the mutation runs: the video header is kept like the others, for the life of the stream.
StoreFirstHeader(n, k) ==
  [header EXCEPT !.audio = IF k = "aacHeader" /\ @ = 0 THEN n ELSE @,
                 !.video = IF k = "seqHeader" /\ @ = 0 THEN n ELSE @,
                 !.data  = IF k = "data" /\ @ = 0 THEN n ELSE @]

\* The last video sequence header is kept, but the first audio and data header.
StoreHeader(n, k) ==
  [header EXCEPT !.audio = IF k = "aacHeader" /\ @ = 0 THEN n ELSE @,
                 !.video = IF k = "seqHeader" THEN n ELSE @,
                 !.data  = IF k = "data" /\ @ = 0 THEN n ELSE @]

\* Faults: any video tag starts a subscriber; a started one needs a key frame too.
TargetsOfAnyVideo(k) == {s \in subs : s \in started \/ IsVideo(k)}
TargetsOfKeys(k)     == {s \in subs : IsKey(k)}

\* Subscribers a tag goes to: the started ones, and all on a key frame.
Targets(k) == {s \in subs : s \in started \/ IsKey(k)}

ReceiveTag(p) ==
  /\ AtSelect
  /\ pub[p] # Idle
  /\ pub' = [pub EXCEPT ![p] = Idle]
  /\ published' = Append(published, pub[p])
  /\ header' = StoreHeader(Len(published) + 1, pub[p])
  /\ rest' = Targets(pub[p])
  /\ UNCHANGED <<sub, unsub, done, running, subs, started, replay, closes, joined, received>>

\* sub <- tag; the map is ranged over in any order.
SendTag(s) ==
  /\ running
  /\ replay = <<>>
  /\ s \in rest
  /\ sub[s] = "open"
  /\ received' = [received EXCEPT ![s] = Append(@, Len(published))]
  /\ started' = started \cup {s}
  /\ rest' = rest \ {s}
  /\ UNCHANGED <<pub, sub, unsub, done, running, subs, header, replay, closes, published, joined>>

\* Fault: the headers are sent without the nil checks.
EvenNil(n) == <<n>>

IfSet(n) == IF n = 0 THEN <<>> ELSE <<n>>
StoredHeaders == IfSet(header.data) \o IfSet(header.video) \o IfSet(header.audio)

ReceiveSub(s) ==
  /\ AtSelect
  /\ sub[s] = "calling"
  /\ sub' = [sub EXCEPT ![s] = "open"]
  /\ subs' = subs \cup {s}
  /\ joined' = [joined EXCEPT ![s] = Len(published)]
  /\ replay' = StoredHeaders
  /\ rest' = IF StoredHeaders = <<>> THEN {} ELSE {s}
  /\ UNCHANGED <<pub, unsub, done, running, started, header, closes, published, received>>

SendHeader(s) ==
  /\ running
  /\ replay # <<>>
  /\ s \in rest
  /\ sub[s] = "open"
  /\ received' = [received EXCEPT ![s] = Append(@, Head(replay))]
  /\ replay' = Tail(replay)
  /\ rest' = IF Tail(replay) = <<>> THEN {} ELSE rest
  /\ UNCHANGED <<pub, sub, unsub, done, running, subs, started, header, closes, published, joined>>

\* Faults: close without deleting; a close that does not look in the map first;
\* a loop that ends without its shutdown defer.
KeepInMap(s)  == subs
AnyChannel(s) == {s}
CloseNone(S)  == closes' = [s \in Subs |-> closes[s]]

\* delete(subs, sub), after which the channels found there are closed.
Without(s) == subs \ {s}
Found(s)   == subs \cap {s}
CloseAll(S) == closes' = [s \in Subs |-> IF s \in S THEN closes[s] + 1 ELSE closes[s]]

ReceiveUnsub(s, c) ==
  /\ AtSelect
  /\ <<s, c>> \in unsub
  /\ unsub' = unsub \ {<<s, c>>}
  /\ subs' = Without(s)
  /\ CloseAll(Found(s))
  /\ UNCHANGED <<pub, sub, done, running, started, header, rest, replay, historyVars>>

\* case <-ms.done, with the deferred loop that closes every remaining channel.
Exit ==
  /\ AtSelect
  /\ done
  /\ running' = FALSE
  /\ CloseAll(subs)
  /\ subs' = {}
  /\ UNCHANGED <<pub, sub, unsub, done, started, header, rest, replay, historyVars>>

----------------------------------------------------------------------------

Init ==
  /\ pub = [p \in Publishers |-> Idle]
  /\ sub = [s \in Subs |-> "idle"]
  /\ unsub = {}
  /\ done = FALSE
  /\ running = TRUE
  /\ subs = {}
  /\ started = {}
  /\ header = [data |-> 0, video |-> 0, audio |-> 0]
  /\ rest = {}
  /\ replay = <<>>
  /\ closes = [s \in Subs |-> 0]
  /\ published = <<>>
  /\ joined = [s \in Subs |-> 0]
  /\ received = [s \in Subs |-> <<>>]

Callers ==
  \/ \E p \in Publishers : (\E k \in Kinds : CallPublish(p, k)) \/ PublishClosed(p)
  \/ \E s \in Subs : \/ CallSubscribe(s)   \/ SubscribeClosed(s)
                     \/ ReaderEnds(s)
                     \/ \E c \in Closers : CallUnsubscribe(s, c) \/ UnsubscribeClosed(s, c)
  \/ Close

Loop ==
  \/ \E p \in Publishers : ReceiveTag(p)
  \/ \E s \in Subs : \/ SendTag(s) \/ ReceiveSub(s) \/ SendHeader(s)
                     \/ \E c \in Closers : ReceiveUnsub(s, c)
  \/ Exit

Next == Callers \/ Loop

Spec == Init /\ [][Next]_vars

----------------------------------------------------------------------------
(* Properties.                                                             *)

SubStates == {"idle", "calling", "refused", "open", "ended"}

Tags == 1..Len(published)

\* Every variable keeps its type; in particular what the loop stores, replays and
\* sends are tags it received, never the nil of a header that is not there yet.
TypeOK ==
  /\ pub \in [Publishers -> AllKinds \cup {Idle}]
  /\ sub \in [Subs -> SubStates]
  /\ unsub \subseteq Subs \X Closers
  /\ done \in BOOLEAN
  /\ running \in BOOLEAN
  /\ subs \subseteq Subs
  /\ started \subseteq Subs
  /\ header \in [data : Tags \cup {0}, video : Tags \cup {0}, audio : Tags \cup {0}]
  /\ rest \subseteq Subs
  /\ replay \in Seq(Tags)
  /\ closes \in [Subs -> Nat]
  /\ published \in Seq(AllKinds)
  /\ joined \in [Subs -> Nat]
  /\ received \in [Subs -> Seq(Tags)]

\* loop() never panics: no channel is closed twice, by Unsubscribe and by the
\* shutdown defer or by two Unsubscribe calls, and no send is pending on a
\* channel that is closed.
NoChannelPanic ==
  \A s \in Subs : closes[s] <= 1 /\ (s \in rest => ~Closed(s))

\* loop() never waits for a reader that has gone: while a send to s is pending
\* the goroutine on the other end is still receiving.  The loop selects on
\* nothing else there, so a lost reader would stop the whole stream.
SendHasReader == \A s \in rest : running /\ sub[s] = "open"

\* What makes the two hold: the map holds open channels only, the sends still to
\* make go to channels of the map, and a loop that has returned left it empty.
LoopInv ==
  /\ \A s \in subs : sub[s] = "open" /\ closes[s] = 0
  /\ \A s \in Subs : /\ closes[s] <= 1
                     /\ sub[s] \in {"idle", "calling", "refused"} =>
                       ~Closed(s) /\ \A c \in Closers : <<s, c>> \notin unsub
  /\ rest \subseteq subs
  /\ rest # {} => published # <<>>
  /\ ~running => subs = {}
  /\ replay # <<>> => \E s \in Subs : rest = {s}

LiveTags(s) == {i \in DOMAIN received[s] : received[s][i] > joined[s]}

\* The first live tag a subscriber gets is the first key frame published since
\* it joined: a decoder is never started in the middle of a group of pictures,
\* nor later than it could have been.
StartsAtFirstKeyFrame ==
  \A s \in Subs : \A i \in LiveTags(s) :
    (\A j \in LiveTags(s) : i <= j) =>
      LET n == received[s][i] IN
        /\ IsKey(published[n])
        /\ \A m \in (joined[s] + 1)..(n - 1) : ~IsKey(published[m])

\* tag h is the last of kind k at or before tag n
IsCurrent(h, k, n) ==
  /\ published[h] = k
  /\ \A m \in (h + 1)..n : published[m] # k

\* Whoever is sent a live video tag was sent before it the sequence header in
\* force when that tag was published, replayed or live, whether the header was
\* changed before or after the subscriber joined.
VideoConfigured ==
  \A s \in Subs : \A i \in LiveTags(s) :
    LET n == received[s][i] IN
      IsVideo(published[n]) =>
        \A h \in 1..n : IsCurrent(h, "seqHeader", n) => \E j \in 1..i : received[s][j] = h

\* The same for AAC: what the stored audio header is there for.
AudioConfigured ==
  \A s \in Subs : \A i \in LiveTags(s) :
    LET n == received[s][i] IN
      published[n] = "audio" =>
        \A h \in 1..n : IsCurrent(h, "aacHeader", n) => \E j \in 1..i : received[s][j] = h

\* Every Publish call returns, whatever the subscribers do and whenever the
\* stream is closed, ...
PublishReturns == \A p \in Publishers : (pub[p] # Idle) ~> (pub[p] = Idle)

\* ... and so does every call of Subscribe and of Unsubscribe.
CallsReturn ==
  /\ PublishReturns
  /\ \A s \in Subs : (sub[s] = "calling") ~> (sub[s] # "calling")
  /\ \A s \in Subs, c \in Closers : (<<s, c>> \in unsub) ~> (<<s, c>> \notin unsub)

\* What the hub promises, as an abstract broadcast log.
Broadcast == INSTANCE Broadcast WITH
  Readers <- Subs,
  log <- published,
  pos <- [s \in Subs |-> IF s \in subs \cap started
                           THEN received[s][Len(received[s])] ELSE 0]

\* Every subscriber reads a gap-free stretch of the published tags in order,
\* and the hub accepts no tag before all of them have the one before it.
ImplementsBroadcast == Broadcast!Spec
=============================================================================
