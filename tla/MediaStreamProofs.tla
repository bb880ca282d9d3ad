------------------------- MODULE MediaStreamProofs -------------------------
(* Theorems about MediaStream, for any publishers, subscribers and tags. *)
EXTENDS MediaStream, SequenceTheorems, TLAPS

\* What is sent or stored stays a tag when the log of tags grows.
LEMMA TagsGrow ==
  ASSUME NEW s \in Seq(AllKinds), NEW k \in AllKinds
  PROVE  /\ Append(s, k) \in Seq(AllKinds)
         /\ Len(Append(s, k)) = Len(s) + 1
         /\ Len(s) \in Nat
  OBVIOUS

\* The stored headers, replayed to a new subscriber, are tags.
LEMMA StoredHeadersType ==
  ASSUME TypeOK
  PROVE  StoredHeaders \in Seq(Tags)
<1>1. \A n \in Tags \cup {0} : IfSet(n) \in Seq(Tags)
  <2> SUFFICES ASSUME NEW n \in Tags \cup {0} PROVE IfSet(n) \in Seq(Tags)
    OBVIOUS
  <2>1. CASE n = 0
    BY <2>1, EmptySeq DEF IfSet
  <2>2. CASE n # 0
    <3>1. n \in Tags
      BY <2>2
    <3> QED BY <2>2, <3>1 DEF IfSet
  <2> QED BY <2>1, <2>2
<1>2. /\ header.data \in Tags \cup {0}
      /\ header.video \in Tags \cup {0}
      /\ header.audio \in Tags \cup {0}
  BY DEF TypeOK
<1>3. IfSet(header.data) \o IfSet(header.video) \in Seq(Tags)
  BY <1>1, <1>2, ConcatProperties
<1> QED BY <1>1, <1>2, <1>3, ConcatProperties DEF StoredHeaders

LEMMA TypeInit == Init => TypeOK
<1> SUFFICES ASSUME Init PROVE TypeOK
  OBVIOUS
<1>1. replay \in Seq(Tags) /\ published \in Seq(AllKinds)
  BY EmptySeq DEF Init
<1>2. received \in [Subs -> Seq(Tags)]
  BY EmptySeq DEF Init
<1>3. header \in [data : Tags \cup {0}, video : Tags \cup {0}, audio : Tags \cup {0}]
  BY DEF Init
<1> QED BY <1>1, <1>2, <1>3 DEF Init, TypeOK, SubStates

LEMMA TypeStep == TypeOK /\ LoopInv /\ [Next]_vars => TypeOK'
<1> SUFFICES ASSUME TypeOK, LoopInv, [Next]_vars PROVE TypeOK'
  OBVIOUS
<1> USE DEF TypeOK, SubStates, Tags, Idle, loopVars, historyVars
<1>1. ASSUME NEW p \in Publishers, NEW k \in Kinds, CallPublish(p, k) PROVE TypeOK'
  BY <1>1, MediaStreamAssumption DEF CallPublish
<1>2. ASSUME NEW p \in Publishers, PublishClosed(p) PROVE TypeOK'
  BY <1>2 DEF PublishClosed
<1>3. ASSUME NEW s \in Subs, CallSubscribe(s) PROVE TypeOK'
  BY <1>3 DEF CallSubscribe
<1>4. ASSUME NEW s \in Subs, SubscribeClosed(s) PROVE TypeOK'
  BY <1>4 DEF SubscribeClosed
<1>5. ASSUME NEW s \in Subs, NEW c \in Closers, CallUnsubscribe(s, c) PROVE TypeOK'
  BY <1>5, SMTT(30) DEF CallUnsubscribe
<1>6. ASSUME NEW s \in Subs, NEW c \in Closers, UnsubscribeClosed(s, c) PROVE TypeOK'
  BY <1>6 DEF UnsubscribeClosed
<1>7. ASSUME NEW s \in Subs, ReaderEnds(s) PROVE TypeOK'
  BY <1>7 DEF ReaderEnds
<1>8. CASE Close
  BY <1>8 DEF Close
<1>9. ASSUME NEW p \in Publishers, ReceiveTag(p) PROVE TypeOK'
  <2>1. pub[p] \in AllKinds
    BY <1>9 DEF ReceiveTag
  <2>2. /\ published' \in Seq(AllKinds)
        /\ Len(published') = Len(published) + 1
        /\ Len(published) \in Nat
    BY <1>9, <2>1, TagsGrow DEF ReceiveTag
  <2>3. Tags \subseteq Tags' /\ Len(published) + 1 \in Tags'
    BY <2>2
  <2>4. header' \in [data : (Tags \cup {0})', video : (Tags \cup {0})', audio : (Tags \cup {0})']
    BY <1>9, <2>2, <2>3 DEF ReceiveTag, StoreHeader
  <2>5. replay' \in Seq(Tags') /\ received' \in [Subs -> Seq(Tags')]
    <3>1. Seq(Tags) \subseteq Seq(Tags')
      BY <2>3
    <3> QED BY <1>9, <3>1 DEF ReceiveTag
  <2>6. rest' \subseteq Subs
    BY <1>9 DEF ReceiveTag, Targets
  <2> QED BY <1>9, <2>2, <2>4, <2>5, <2>6 DEF ReceiveTag
<1>10. ASSUME NEW s \in Subs, SendTag(s) PROVE TypeOK'
  <2>1. rest \subseteq Subs /\ published' = published
    BY <1>10 DEF SendTag
  <2>2. Len(published) \in Tags
    <3>1. published # <<>>
      BY <1>10 DEF SendTag, LoopInv
    <3> QED BY <3>1, EmptySeq
  <2>3. received' \in [Subs -> Seq(Tags)]
    BY <1>10, <2>2 DEF SendTag
  <2> QED BY <1>10, <2>1, <2>3 DEF SendTag
<1>11. ASSUME NEW s \in Subs, ReceiveSub(s) PROVE TypeOK'
  <2>1. replay' \in Seq(Tags)
    BY <1>11, StoredHeadersType DEF ReceiveSub
  <2>2. rest' \subseteq Subs
    BY <1>11 DEF ReceiveSub
  <2>3. joined' \in [Subs -> Nat]
    BY <1>11, LenProperties DEF ReceiveSub
  <2> QED BY <1>11, <2>1, <2>2, <2>3 DEF ReceiveSub
<1>12. ASSUME NEW s \in Subs, SendHeader(s) PROVE TypeOK'
  <2>1. Head(replay) \in Tags /\ Tail(replay) \in Seq(Tags)
    BY <1>12, HeadTailProperties DEF SendHeader
  <2>2. received' \in [Subs -> Seq(Tags)]
    BY <1>12, <2>1 DEF SendHeader
  <2>3. rest' \subseteq Subs /\ replay' \in Seq(Tags) /\ published' = published
    BY <1>12, <2>1 DEF SendHeader
  <2> QED BY <1>12, <2>2, <2>3 DEF SendHeader
<1>13. ASSUME NEW s \in Subs, NEW c \in Closers, ReceiveUnsub(s, c) PROVE TypeOK'
  <2>1. subs' \subseteq Subs /\ unsub' \subseteq Subs \X Closers
    BY <1>13 DEF ReceiveUnsub, Without
  <2>2. closes' \in [Subs -> Nat]
    BY <1>13 DEF ReceiveUnsub, CloseAll
  <2> QED BY <1>13, <2>1, <2>2 DEF ReceiveUnsub
<1>14. CASE Exit
  <2>1. subs' \subseteq Subs /\ running' \in BOOLEAN
    BY <1>14 DEF Exit
  <2>2. closes' \in [Subs -> Nat]
    BY <1>14 DEF Exit, CloseAll
  <2> QED BY <1>14, <2>1, <2>2 DEF Exit
<1>15. CASE UNCHANGED vars
  BY <1>15 DEF vars
<1> QED
  BY <1>1, <1>2, <1>3, <1>4, <1>5, <1>6, <1>7, <1>8, <1>9, <1>10, <1>11, <1>12,
     <1>13, <1>14, <1>15 DEF Next, Callers, Loop

LEMMA LoopInit == Init => LoopInv
BY DEF Init, LoopInv, Closed

\* Headers are replayed only while a send is pending.
LEMMA ReplayPending == LoopInv /\ rest = {} => replay = <<>>
<1> SUFFICES ASSUME LoopInv, rest = {}, replay # <<>> PROVE FALSE
  OBVIOUS
<1>1. PICK s \in Subs : rest = {s}
  BY DEF LoopInv
<1>2. s \in rest
  BY <1>1
<1> QED BY <1>2

LEMMA LoopStep == TypeOK /\ LoopInv /\ [Next]_vars => LoopInv'
<1> SUFFICES ASSUME TypeOK, LoopInv, [Next]_vars PROVE LoopInv'
  OBVIOUS
<1> USE DEF LoopInv, Closed
<1>1. ASSUME NEW p \in Publishers, NEW k \in Kinds, CallPublish(p, k) PROVE LoopInv'
  BY <1>1 DEF CallPublish, loopVars, historyVars
<1>2. ASSUME NEW p \in Publishers, PublishClosed(p) PROVE LoopInv'
  BY <1>2 DEF PublishClosed, loopVars, historyVars
<1>3. ASSUME NEW s \in Subs, CallSubscribe(s) PROVE LoopInv'
  BY <1>3 DEF CallSubscribe, loopVars, historyVars, TypeOK
<1>4. ASSUME NEW s \in Subs, SubscribeClosed(s) PROVE LoopInv'
  BY <1>4 DEF SubscribeClosed, loopVars, historyVars, TypeOK
<1>5. ASSUME NEW s \in Subs, NEW c \in Closers, CallUnsubscribe(s, c) PROVE LoopInv'
  BY <1>5 DEF CallUnsubscribe, loopVars, historyVars
<1>6. ASSUME NEW s \in Subs, NEW c \in Closers, UnsubscribeClosed(s, c) PROVE LoopInv'
  BY <1>6 DEF UnsubscribeClosed, loopVars, historyVars
<1>7. ASSUME NEW s \in Subs, ReaderEnds(s) PROVE LoopInv'
  \* a channel of the map has not been closed, so it is not s
  <2>1. s \notin subs
    BY <1>7 DEF ReaderEnds
  <2> QED BY <1>7, <2>1 DEF ReaderEnds, loopVars, historyVars, TypeOK
<1>8. CASE Close
  BY <1>8 DEF Close, loopVars, historyVars
<1>9. ASSUME NEW p \in Publishers, ReceiveTag(p) PROVE LoopInv'
  <2>1. rest' \subseteq subs' /\ running'
    BY <1>9 DEF ReceiveTag, Targets, AtSelect
  <2>2. published' # <<>>
    <3>1. pub[p] \in AllKinds
      BY <1>9 DEF ReceiveTag, TypeOK
    <3>2. published' \in Seq(AllKinds) /\ Len(published') # 0
      BY <1>9, <3>1, TagsGrow DEF ReceiveTag, TypeOK
    <3> QED BY <3>2, EmptySeq
  <2>3. replay' = <<>>
    BY <1>9, ReplayPending DEF ReceiveTag, AtSelect
  <2> QED BY <1>9, <2>1, <2>2, <2>3 DEF ReceiveTag
<1>10. ASSUME NEW s \in Subs, SendTag(s) PROVE LoopInv'
  BY <1>10 DEF SendTag
<1>11. ASSUME NEW s \in Subs, ReceiveSub(s) PROVE LoopInv'
  <2>1. rest' # {} => published # <<>>
    <3>1. StoredHeaders # <<>> => Head(StoredHeaders) \in Tags
      BY StoredHeadersType, HeadTailProperties
    <3>2. Tags # {} => published # <<>>
      BY EmptySeq DEF Tags, TypeOK
    <3> QED BY <1>11, <3>1, <3>2 DEF ReceiveSub
  <2>2. replay' # <<>> => rest' = {s}
    BY <1>11 DEF ReceiveSub
  <2>3. /\ running' /\ subs' = subs \cup {s} /\ closes[s] = 0
        /\ sub' = [sub EXCEPT ![s] = "open"]
        /\ UNCHANGED <<unsub, closes, published>>
    BY <1>11 DEF ReceiveSub, AtSelect, TypeOK
  <2>4. rest' \subseteq subs'
    BY <1>11 DEF ReceiveSub
  <2> QED BY <2>1, <2>2, <2>3, <2>4 DEF TypeOK
<1>12. ASSUME NEW s \in Subs, SendHeader(s) PROVE LoopInv'
  BY <1>12 DEF SendHeader
<1>13. ASSUME NEW s \in Subs, NEW c \in Closers, ReceiveUnsub(s, c) PROVE LoopInv'
  <2>1. \A r \in Subs : closes'[r] = IF r \in Found(s) THEN closes[r] + 1 ELSE closes[r]
    BY <1>13 DEF ReceiveUnsub, CloseAll
  <2> QED BY <1>13, <2>1 DEF ReceiveUnsub, AtSelect, Without, Found, TypeOK
<1>14. CASE Exit
  <2>1. \A r \in Subs : closes'[r] = IF r \in subs THEN closes[r] + 1 ELSE closes[r]
    BY <1>14 DEF Exit, CloseAll
  <2>2. subs' = {} /\ rest' = {} /\ replay' = <<>>
    BY <1>14, ReplayPending DEF Exit, AtSelect
  <2>3. \A r \in Subs : closes'[r] <= 1
    <3> SUFFICES ASSUME NEW r \in Subs PROVE closes'[r] <= 1
      OBVIOUS
    <3>1. closes[r] <= 1 /\ closes[r] \in Nat /\ (r \in subs => closes[r] = 0)
      BY DEF TypeOK
    <3> QED BY <2>1, <3>1
  <2>4. \A r \in Subs : sub[r] \in {"idle", "calling", "refused"} => closes'[r] = 0 /\ \A c \in Closers : <<r, c>> \notin unsub
    <3> SUFFICES ASSUME NEW r \in Subs, sub[r] \in {"idle", "calling", "refused"}
                 PROVE  closes'[r] = 0 /\ \A c \in Closers : <<r, c>> \notin unsub
      OBVIOUS
    <3>1. closes[r] = 0 /\ \A c \in Closers : <<r, c>> \notin unsub
      BY DEF TypeOK
    <3>2. r \notin subs
      OBVIOUS
    <3> QED BY <2>1, <3>1, <3>2
  <2> QED BY <1>14, <2>2, <2>3, <2>4 DEF Exit
<1>15. CASE UNCHANGED vars
  BY <1>15 DEF vars, loopVars, historyVars
<1> QED
  BY <1>1, <1>2, <1>3, <1>4, <1>5, <1>6, <1>7, <1>8, <1>9, <1>10, <1>11, <1>12,
     <1>13, <1>14, <1>15 DEF Next, Callers, Loop

LEMMA SpecInvariant == Spec => [](TypeOK /\ LoopInv)
<1>1. Init => TypeOK /\ LoopInv
  BY TypeInit, LoopInit
<1>2. TypeOK /\ LoopInv /\ [Next]_vars => (TypeOK /\ LoopInv)'
  BY TypeStep, LoopStep
<1> QED BY <1>1, <1>2, PTL DEF Spec

\* The variables keep their types, and the loop replays and sends received tags
\* only, never a nil header.
THEOREM TypeCorrect == Spec => []TypeOK
BY SpecInvariant, PTL

\* The loop's map and its pending sends stay consistent.
THEOREM LoopCorrect == Spec => []LoopInv
BY SpecInvariant, PTL

\* loop() (mediastream.go:175-260) never closes a channel twice and never has a
\* send pending on a closed one.
THEOREM NoPanic == Spec => []NoChannelPanic
<1>1. TypeOK /\ LoopInv => NoChannelPanic
  BY DEF LoopInv, NoChannelPanic, Closed
<1> QED BY <1>1, SpecInvariant, PTL

\* loop() never waits to send to a subscriber that has stopped reading.
THEOREM SendReaches == Spec => []SendHasReader
<1>1. TypeOK /\ LoopInv => SendHasReader
  BY DEF LoopInv, SendHasReader
<1> QED BY <1>1, SpecInvariant, PTL

----------------------------------------------------------------------------
(* What has been sent.                                                     *)

Newest  == Len(published)
Last(s) == received[s][Len(received[s])]

\* What a subscriber was sent before the first live tag are headers it missed, and a
\* channel is subscribed once.
Entered(s) ==
  /\ joined[s] <= Newest
  /\ sub[s] \in {"idle", "calling", "refused"} => s \notin started
  /\ s \notin started => \A i \in DOMAIN received[s] : received[s][i] <= joined[s]

\* The send that is pending is of a header to a subscriber that has just joined, or of
\* the newest tag, which a subscriber that is not started gets when it is a key frame.
Pending(s) ==
  s \in rest => IF replay = <<>> THEN joined[s] < Newest /\ (s \notin started => IsKey(published[Newest]))
                                 ELSE joined[s] = Newest /\ s \notin started

\* A subscriber that is not started has missed no key frame, ...
Waits(s) ==
  s \in subs /\ s \notin started =>
    \A m \in (joined[s] + 1)..Newest : IsKey(published[m]) => m = Newest /\ s \in rest

\* ... and one that is started has the newest tag, or is about to be sent it.
Follows(s) ==
  s \in subs /\ s \in started =>
    /\ received[s] # <<>>
    /\ Last(s) > joined[s]
    /\ Last(s) = IF s \in rest THEN Newest - 1 ELSE Newest

\* From the first live tag on, nothing is missing.
Contiguous(s) ==
  \A i, j \in DOMAIN received[s] :
    i < j /\ received[s][i] > joined[s] => received[s][j] = received[s][i] + (j - i)

\* The video header in force has been sent to every subscriber, or is about to be.
Configured(s) ==
  s \in subs => \A h \in Tags : IsCurrent(h, "seqHeader", Newest) =>
    \/ \E i \in DOMAIN received[s] : received[s][i] = h
    \/ s \in rest /\ \E i \in DOMAIN replay : replay[i] = h
    \/ s \in rest /\ replay = <<>> /\ h = Newest

VideoStored == \A h \in Tags : IsCurrent(h, "seqHeader", Newest) => header.video = h

HistoryInv ==
  /\ \A s \in Subs : Entered(s) /\ Pending(s) /\ Waits(s) /\ Follows(s) /\ Contiguous(s) /\ Configured(s)
  /\ VideoStored /\ StartsAtFirstKeyFrame /\ VideoConfigured

\* What TypeOK says of the sequences, in the form the steps use it.
LEMMA HubTypes ==
  ASSUME TypeOK
  PROVE  /\ Newest \in Nat /\ DOMAIN published = 1..Newest /\ Tags = 1..Newest
         /\ \A m \in Tags : published[m] \in AllKinds
         /\ DOMAIN replay = 1..Len(replay) /\ Len(replay) \in Nat
         /\ \A i \in DOMAIN replay : replay[i] \in Tags
         /\ \A s \in Subs : /\ received[s] \in Seq(Tags) /\ joined[s] \in Nat
                            /\ DOMAIN received[s] = 1..Len(received[s]) /\ Len(received[s]) \in Nat
                            /\ \A i \in DOMAIN received[s] : received[s][i] \in Tags
<1>1. published \in Seq(AllKinds) /\ replay \in Seq(Tags) /\ \A s \in Subs : received[s] \in Seq(Tags) /\ joined[s] \in Nat
  BY DEF TypeOK
<1>2. /\ Newest \in Nat /\ DOMAIN published = 1..Newest /\ Tags = 1..Newest
      /\ \A m \in Tags : published[m] \in AllKinds
  BY <1>1, LenProperties, ElementOfSeq DEF Newest, Tags
<1>3. DOMAIN replay = 1..Len(replay) /\ Len(replay) \in Nat /\ \A i \in DOMAIN replay : replay[i] \in Tags
  BY <1>1, LenProperties, ElementOfSeq
<1>4. ASSUME NEW s \in Subs
      PROVE  /\ DOMAIN received[s] = 1..Len(received[s]) /\ Len(received[s]) \in Nat
             /\ \A i \in DOMAIN received[s] : received[s][i] \in Tags
  BY <1>1, LenProperties, ElementOfSeq
<1> QED BY <1>1, <1>2, <1>3, <1>4

\* One more tag on the channel of one subscriber.
LEMMA OneMore ==
  ASSUME TypeOK, NEW s \in Subs, NEW n \in Tags, received' = [received EXCEPT ![s] = Append(@, n)]
  PROVE  /\ received'[s] # <<>> /\ Len(received'[s]) = Len(received[s]) + 1
         /\ DOMAIN received'[s] = 1..(Len(received[s]) + 1)
         /\ received'[s][Len(received[s]) + 1] = n
         /\ \A i \in DOMAIN received[s] : received'[s][i] = received[s][i]
         /\ \A r \in Subs : r # s => received'[r] = received[r]
<1>1. received[s] \in Seq(Tags) /\ received'[s] = Append(received[s], n)
  BY DEF TypeOK
<1>2. \A r \in Subs : r # s => received'[r] = received[r]
  BY DEF TypeOK
<1>3. /\ Append(received[s], n) \in Seq(Tags) /\ Append(received[s], n) # <<>>
      /\ Len(Append(received[s], n)) = Len(received[s]) + 1
      /\ Append(received[s], n)[Len(received[s]) + 1] = n
      /\ \A i \in 1..Len(received[s]) : Append(received[s], n)[i] = received[s][i]
  BY <1>1, AppendProperties
<1> QED BY <1>1, <1>2, <1>3, LenProperties

\* One more tag in the log: what was said of the older ones stays true.
LEMMA LogGrows ==
  ASSUME TypeOK, NEW k \in AllKinds, published' = Append(published, k)
  PROVE  /\ Newest' = Newest + 1 /\ Newest \in Nat /\ Tags' = 1..(Newest + 1) /\ published'[Newest + 1] = k
         /\ \A m \in Tags : published'[m] = published[m]
<1>1. published \in Seq(AllKinds)
  BY DEF TypeOK
<1> QED BY <1>1, AppendProperties, LenProperties DEF Newest, Tags

LEMMA HistoryInit == Init => HistoryInv
<1> SUFFICES ASSUME Init PROVE HistoryInv
  OBVIOUS
<1>1. /\ Newest = 0 /\ Tags = {} /\ subs = {} /\ started = {} /\ rest = {}
      /\ \A s \in Subs : joined[s] = 0 /\ received[s] = <<>> /\ DOMAIN received[s] = {}
  BY EmptySeq DEF Init, Newest, Tags
<1>2. \A s \in Subs : Entered(s) /\ Pending(s) /\ Waits(s) /\ Follows(s) /\ Contiguous(s) /\ Configured(s)
  BY <1>1 DEF Entered, Pending, Waits, Follows, Contiguous, Configured
<1>3. VideoStored /\ StartsAtFirstKeyFrame /\ VideoConfigured
  BY <1>1 DEF VideoStored, StartsAtFirstKeyFrame, VideoConfigured, LiveTags
<1> QED BY <1>2, <1>3 DEF HistoryInv

\* A subscriber leaves the map, or a caller makes a step.
LEMMA HistoryQuiet ==
  ASSUME HistoryInv, subs' \subseteq subs, UNCHANGED <<started, header, rest, replay, published, joined, received>>,
         \A s \in Subs : sub'[s] \in {"idle", "calling", "refused"} => sub[s] \in {"idle", "calling", "refused"}
  PROVE  HistoryInv'
<1>1. ASSUME NEW s \in Subs
      PROVE  (Entered(s) /\ Pending(s) /\ Waits(s) /\ Follows(s) /\ Contiguous(s) /\ Configured(s))'
  <2>1. Entered(s)' /\ Contiguous(s)' /\ Pending(s)'
    BY DEF HistoryInv, Entered, Contiguous, Pending, Newest
  <2>2. Waits(s)' /\ Follows(s)'
    BY DEF HistoryInv, Waits, Follows, Last, Newest
  <2>3. Configured(s)'
    BY DEF HistoryInv, Configured, Newest, Tags, IsCurrent
  <2> QED BY <2>1, <2>2, <2>3
<1>2. VideoStored'
  BY DEF HistoryInv, VideoStored, Newest, Tags, IsCurrent
<1>3. StartsAtFirstKeyFrame'
  BY DEF HistoryInv, StartsAtFirstKeyFrame, LiveTags
<1>4. VideoConfigured'
  BY DEF HistoryInv, VideoConfigured, LiveTags, IsCurrent
<1> QED BY <1>1, <1>2, <1>3, <1>4 DEF HistoryInv

\* The loop receives a tag: every started subscriber is to be sent it, and all of them
\* when it is a key frame.
LEMMA HistoryTag ==
  ASSUME TypeOK, LoopInv, HistoryInv, NEW p \in Publishers, ReceiveTag(p)
  PROVE  HistoryInv'
<1> DEFINE k == pub[p]
<1>1. /\ k \in AllKinds /\ published' = Append(published, k) /\ rest = {} /\ replay = <<>> /\ replay' = <<>>
      /\ rest' = {s \in subs : s \in started \/ IsKey(k)}
      /\ UNCHANGED <<sub, subs, started, joined, received>>
  BY ReplayPending DEF ReceiveTag, AtSelect, TypeOK, Targets
<1>2. header'.video = IF k = "seqHeader" THEN Newest + 1 ELSE header.video
  BY DEF ReceiveTag, StoreHeader, TypeOK, Newest
<1> HIDE DEF k
<1>3. /\ Newest' = Newest + 1 /\ Newest \in Nat /\ Tags' = 1..(Newest + 1) /\ Tags = 1..Newest
      /\ published'[Newest + 1] = k /\ \A m \in Tags : published'[m] = published[m]
  BY <1>1, LogGrows, HubTypes
<1>4. \A s \in Subs : /\ joined[s] \in Nat /\ Len(received[s]) \in Nat /\ DOMAIN received[s] = 1..Len(received[s])
                      /\ \A i \in DOMAIN received[s] : received[s][i] \in Tags
  BY HubTypes
<1>5. ASSUME NEW s \in Subs
      PROVE  (Entered(s) /\ Pending(s) /\ Waits(s) /\ Follows(s) /\ Contiguous(s))'
  <2> USE DEF HistoryInv
  <2>1. Entered(s)' /\ Contiguous(s)'
    BY <1>1, <1>3, <1>4 DEF Entered, Contiguous
  <2>2. Pending(s)'
    <3>1. joined[s] <= Newest /\ joined'[s] = joined[s]
      BY <1>1 DEF Entered
    <3> QED BY <1>1, <1>3, <1>4, <3>1 DEF Pending
  <2>3. Waits(s)'
    <3> SUFFICES ASSUME s \in subs, s \notin started, NEW m \in (joined[s] + 1)..(Newest + 1), IsKey(published'[m])
                 PROVE  m = Newest + 1 /\ s \in rest'
      BY <1>1, <1>3 DEF Waits
    <3>1. m = Newest + 1
      <4>1. m # Newest + 1 => m \in (joined[s] + 1)..Newest /\ m \in Tags
        BY <1>3, <1>4
      <4> QED BY <1>1, <1>3, <4>1 DEF Waits
    <3> QED BY <1>1, <1>3, <3>1
  <2>4. Follows(s)'
    BY <1>1, <1>3 DEF Follows, Last
  <2> QED BY <2>1, <2>2, <2>3, <2>4
<1>6. ASSUME NEW h \in Tags', IsCurrent(h, "seqHeader", Newest)', k # "seqHeader"
      PROVE  h \in Tags /\ IsCurrent(h, "seqHeader", Newest)
  <2>1. published'[h] = "seqHeader" /\ h \in 1..(Newest + 1) /\ \A m \in (h + 1)..(Newest + 1) : published'[m] # "seqHeader"
    BY <1>3, <1>6 DEF IsCurrent
  <2>2. h # Newest + 1
    BY <1>3, <1>6, <2>1
  <2>3. h \in Tags /\ published[h] = "seqHeader"
    BY <1>3, <2>1, <2>2
  <2>4. ASSUME NEW m \in (h + 1)..Newest PROVE published[m] # "seqHeader"
    BY <1>3, <2>1, <2>3, <2>4
  <2> QED BY <2>3, <2>4 DEF IsCurrent
<1>7. ASSUME NEW h \in Tags', IsCurrent(h, "seqHeader", Newest)', k = "seqHeader"
      PROVE  h = Newest + 1
  BY <1>3, <1>7 DEF IsCurrent
<1>8. ASSUME NEW s \in Subs PROVE Configured(s)'
  <2> SUFFICES ASSUME s \in subs, NEW h \in Tags', IsCurrent(h, "seqHeader", Newest)'
               PROVE  \/ \E i \in DOMAIN received[s] : received[s][i] = h
                      \/ s \in rest' /\ h = Newest + 1
    BY <1>1, <1>3 DEF Configured
  <2>1. CASE k = "seqHeader"
    BY <1>1, <1>7, <2>1 DEF IsKey
  <2>2. CASE k # "seqHeader"
    BY <1>1, <1>6, <2>2 DEF HistoryInv, Configured
  <2> QED BY <2>1, <2>2
<1>9. VideoStored'
  <2> SUFFICES ASSUME NEW h \in Tags', IsCurrent(h, "seqHeader", Newest)' PROVE header'.video = h
    BY DEF VideoStored
  <2>1. CASE k = "seqHeader"
    BY <1>2, <1>7, <2>1
  <2>2. CASE k # "seqHeader"
    BY <1>2, <1>6, <2>2 DEF HistoryInv, VideoStored
  <2> QED BY <2>1, <2>2
<1>10. StartsAtFirstKeyFrame'
  <2> SUFFICES ASSUME NEW s \in Subs, NEW i \in LiveTags(s), \A j \in LiveTags(s) : i <= j
               PROVE  /\ IsKey(published'[received[s][i]])
                      /\ \A m \in (joined[s] + 1)..(received[s][i] - 1) : ~IsKey(published'[m])
    BY <1>1 DEF StartsAtFirstKeyFrame, LiveTags
  <2>1. received[s][i] \in Tags
    BY <1>4 DEF LiveTags
  <2>2. /\ IsKey(published[received[s][i]])
        /\ \A m \in (joined[s] + 1)..(received[s][i] - 1) : ~IsKey(published[m])
    BY DEF HistoryInv, StartsAtFirstKeyFrame
  <2>3. ASSUME NEW m \in (joined[s] + 1)..(received[s][i] - 1) PROVE m \in Tags
    BY <1>3, <1>4, <2>1
  <2> QED BY <1>3, <2>1, <2>2, <2>3
<1>11. VideoConfigured'
  <2>0. received' = received /\ \A s \in Subs : LiveTags(s)' = LiveTags(s)
    BY <1>1 DEF LiveTags
  <2> SUFFICES ASSUME NEW s \in Subs, NEW i \in LiveTags(s), IsVideo(published'[received[s][i]]),
                      NEW h \in 1..received[s][i], IsCurrent(h, "seqHeader", received[s][i])'
               PROVE  \E j \in 1..i : received[s][j] = h
    BY <2>0 DEF VideoConfigured, IsCurrent
  <2>1. received[s][i] \in Tags
    BY <1>4 DEF LiveTags
  <2>2. IsCurrent(h, "seqHeader", received[s][i])
    <3>1. h \in Tags /\ \A m \in (h + 1)..received[s][i] : m \in Tags
      BY <1>3, <2>1
    <3>2. published'[h] = "seqHeader" /\ \A m \in (h + 1)..received[s][i] : published'[m] # "seqHeader"
      BY <1>1 DEF IsCurrent
    <3> QED BY <1>3, <3>1, <3>2 DEF IsCurrent
  <2>3. IsVideo(published[received[s][i]])
    BY <1>3, <2>1
  <2> QED BY <2>1, <2>2, <2>3 DEF HistoryInv, VideoConfigured
<1> QED BY <1>5, <1>8, <1>9, <1>10, <1>11 DEF HistoryInv

\* The loop accepts a subscriber: it has been sent nothing, and is to be sent the headers.
LEMMA HistorySub ==
  ASSUME TypeOK, LoopInv, HistoryInv, NEW s \in Subs, ReceiveSub(s)
  PROVE  HistoryInv'
<1>1. /\ sub[s] = "calling" /\ rest = {} /\ replay = <<>> /\ sub' = [sub EXCEPT ![s] = "open"] /\ subs' = subs \cup {s}
      /\ joined' = [joined EXCEPT ![s] = Newest] /\ replay' = StoredHeaders
      /\ rest' = (IF StoredHeaders = <<>> THEN {} ELSE {s})
      /\ UNCHANGED <<started, header, published, received>>
  BY ReplayPending DEF ReceiveSub, AtSelect, Newest
<1>2. s \notin started /\ s \notin subs
  BY <1>1 DEF HistoryInv, Entered, LoopInv
<1>3. /\ Newest \in Nat /\ Newest' = Newest /\ Tags' = Tags /\ Tags = 1..Newest
      /\ \A r \in Subs : /\ DOMAIN received[r] = 1..Len(received[r]) /\ joined[r] \in Nat
                         /\ \A i \in DOMAIN received[r] : received[r][i] \in Tags
  BY <1>1, HubTypes DEF Newest, Tags
<1>4. /\ joined'[s] = Newest /\ \A r \in Subs : r # s => joined'[r] = joined[r]
      /\ sub'[s] = "open" /\ \A r \in Subs : r # s => sub'[r] = sub[r]
  BY <1>1 DEF TypeOK
<1>5. ASSUME NEW r \in Subs, r # s
      PROVE  (Entered(r) /\ Pending(r) /\ Waits(r) /\ Follows(r) /\ Contiguous(r) /\ Configured(r))'
  <2>1. r \notin rest /\ r \notin rest' /\ (r \in subs' <=> r \in subs)
    BY <1>1, <1>5
  <2>2. Entered(r)' /\ Contiguous(r)' /\ Pending(r)'
    BY <1>1, <1>3, <1>4, <1>5, <2>1 DEF HistoryInv, Entered, Contiguous, Pending
  <2>3. Waits(r)' /\ Follows(r)'
    BY <1>1, <1>3, <1>4, <1>5, <2>1 DEF HistoryInv, Waits, Follows, Last
  <2>4. Configured(r)'
    BY <1>1, <1>3, <1>5, <2>1 DEF HistoryInv, Configured, IsCurrent
  <2> QED BY <2>2, <2>3, <2>4
<1>6. \A i \in DOMAIN received[s] : received[s][i] <= Newest
  BY <1>3
<1>7. (Entered(s) /\ Pending(s) /\ Waits(s) /\ Follows(s) /\ Contiguous(s))'
  <2>1. Entered(s)' /\ Contiguous(s)'
    BY <1>1, <1>2, <1>3, <1>4, <1>6 DEF Entered, Contiguous
  <2>2. Pending(s)'
    BY <1>1, <1>2, <1>3, <1>4 DEF Pending
  <2>3. Waits(s)' /\ Follows(s)'
    BY <1>1, <1>2, <1>3, <1>4 DEF Waits, Follows
  <2> QED BY <2>1, <2>2, <2>3
<1>8. Configured(s)'
  <2> SUFFICES ASSUME NEW h \in Tags, IsCurrent(h, "seqHeader", Newest)
               PROVE  s \in rest' /\ \E i \in DOMAIN replay' : replay'[i] = h
    BY <1>1, <1>3 DEF Configured, IsCurrent
  <2>1. header.video = h /\ h # 0
    BY <1>3 DEF HistoryInv, VideoStored
  <2>2. StoredHeaders = IfSet(header.data) \o <<h>> \o IfSet(header.audio)
    BY <2>1 DEF StoredHeaders, IfSet
  <2>3. IfSet(header.data) \in Seq(Nat) /\ IfSet(header.audio) \in Seq(Nat) /\ <<h>> \in Seq(Nat)
    <3>1. header.data \in Nat /\ header.audio \in Nat /\ h \in Nat /\ <<>> \in Seq(Nat)
      BY <1>3, EmptySeq DEF TypeOK
    <3>2. \A n \in Nat : <<n>> \in Seq(Nat)
      OBVIOUS
    <3> QED BY <3>1, <3>2 DEF IfSet
  <2>4. \E i \in DOMAIN StoredHeaders : StoredHeaders[i] = h
    <3> DEFINE a == IfSet(header.data)
               b == IfSet(header.audio)
    <3>1. a \in Seq(Nat) /\ b \in Seq(Nat) /\ <<h>> \in Seq(Nat) /\ Len(<<h>>) = 1 /\ <<h>>[1] = h
      BY <2>3
    <3> HIDE DEF a, b
    <3>2. /\ a \o <<h>> \in Seq(Nat) /\ Len(a \o <<h>>) = Len(a) + 1 /\ (a \o <<h>>)[Len(a) + 1] = h
          /\ Len(a) \in Nat /\ Len(b) \in Nat
      BY <3>1, ConcatProperties, LenProperties
    <3>3. /\ (a \o <<h>>) \o b \in Seq(Nat) /\ Len((a \o <<h>>) \o b) = Len(a) + 1 + Len(b)
          /\ ((a \o <<h>>) \o b)[Len(a) + 1] = h
      BY <3>1, <3>2, ConcatProperties
    <3>4. Len(a) + 1 \in DOMAIN ((a \o <<h>>) \o b)
      BY <3>2, <3>3, LenProperties
    <3> QED BY <2>2, <3>3, <3>4 DEF a, b
  <2>5. StoredHeaders # <<>>
    BY <2>4, EmptySeq
  <2> QED BY <1>1, <2>4, <2>5
<1>9. VideoStored'
  BY <1>1, <1>3 DEF HistoryInv, VideoStored, IsCurrent
\* what was sent to s, if anything, is no live tag
<1>10. LiveTags(s)' = {} /\ \A r \in Subs : r # s => LiveTags(r)' = LiveTags(r)
  BY <1>1, <1>3, <1>4, <1>6 DEF LiveTags
<1>11. StartsAtFirstKeyFrame'
  BY <1>1, <1>4, <1>10 DEF HistoryInv, StartsAtFirstKeyFrame
<1>12. VideoConfigured'
  BY <1>1, <1>4, <1>10 DEF HistoryInv, VideoConfigured, IsCurrent
<1> QED BY <1>5, <1>7, <1>8, <1>9, <1>11, <1>12 DEF HistoryInv

\* A stored header is sent to the subscriber that has just joined.
LEMMA HistoryHeader ==
  ASSUME TypeOK, LoopInv, HistoryInv, NEW s \in Subs, SendHeader(s)
  PROVE  HistoryInv'
<1>1. /\ replay # <<>> /\ s \in rest /\ rest = {s} /\ received' = [received EXCEPT ![s] = Append(@, Head(replay))]
      /\ replay' = Tail(replay) /\ rest' = (IF Tail(replay) = <<>> THEN {} ELSE rest)
      /\ UNCHANGED <<sub, subs, started, header, published, joined>>
  BY DEF SendHeader, LoopInv
<1>2. joined[s] = Newest /\ s \notin started
  BY <1>1 DEF HistoryInv, Pending
<1>3. /\ Newest \in Nat /\ Newest' = Newest /\ Tags' = Tags /\ Tags = 1..Newest
      /\ \A r \in Subs : /\ DOMAIN received[r] = 1..Len(received[r]) /\ joined[r] \in Nat /\ Len(received[r]) \in Nat
                         /\ \A i \in DOMAIN received[r] : received[r][i] \in Tags
  BY <1>1, HubTypes DEF Newest, Tags
<1>4. /\ Head(replay) \in Tags /\ Tail(replay) \in Seq(Tags) /\ DOMAIN replay = 1..Len(replay) /\ Len(replay) \in Nat
      /\ Len(Tail(replay)) = Len(replay) - 1 /\ DOMAIN Tail(replay) = 1..(Len(replay) - 1) /\ Head(replay) = replay[1]
      /\ \A i \in 1..(Len(replay) - 1) : Tail(replay)[i] = replay[i + 1]
  <2>1. replay \in Seq(Tags)
    BY DEF TypeOK
  <2> QED BY <1>1, <2>1, HeadTailProperties, LenProperties
<1>5. PICK n \in Tags : n = Head(replay)
  BY <1>4
<1>6. /\ DOMAIN received'[s] = 1..(Len(received[s]) + 1) /\ received'[s][Len(received[s]) + 1] = n
      /\ \A i \in DOMAIN received[s] : received'[s][i] = received[s][i]
      /\ \A r \in Subs : r # s => received'[r] = received[r]
  BY <1>1, <1>5, OneMore
<1>7. \A i \in DOMAIN received'[s] : received'[s][i] <= Newest
  BY <1>3, <1>6
<1>8. ASSUME NEW r \in Subs, r # s
      PROVE  (Entered(r) /\ Pending(r) /\ Waits(r) /\ Follows(r) /\ Contiguous(r) /\ Configured(r))'
  <2>1. r \notin rest /\ r \notin rest' /\ received'[r] = received[r]
    BY <1>1, <1>6, <1>8
  <2>2. Entered(r)' /\ Contiguous(r)' /\ Pending(r)'
    BY <1>1, <1>3, <2>1 DEF HistoryInv, Entered, Contiguous, Pending
  <2>3. Waits(r)' /\ Follows(r)'
    BY <1>1, <1>3, <2>1 DEF HistoryInv, Waits, Follows, Last
  <2>4. Configured(r)'
    BY <1>1, <1>3, <2>1 DEF HistoryInv, Configured, IsCurrent
  <2> QED BY <2>2, <2>3, <2>4
<1>9. (Entered(s) /\ Pending(s) /\ Waits(s) /\ Follows(s) /\ Contiguous(s))'
  <2>1. Entered(s)' /\ Contiguous(s)'
    BY <1>1, <1>2, <1>3, <1>6, <1>7 DEF HistoryInv, Entered, Contiguous
  <2>2. Pending(s)'
    BY <1>1, <1>2, <1>3 DEF Pending
  <2>3. Waits(s)' /\ Follows(s)'
    BY <1>1, <1>2, <1>3 DEF Waits, Follows
  <2> QED BY <2>1, <2>2, <2>3
<1>10. Configured(s)'
  <2> SUFFICES ASSUME s \in subs, NEW h \in Tags, IsCurrent(h, "seqHeader", Newest)
               PROVE  \/ \E i \in DOMAIN received'[s] : received'[s][i] = h
                      \/ s \in rest' /\ \E i \in DOMAIN replay' : replay'[i] = h
    BY <1>1, <1>3 DEF Configured, IsCurrent
  <2>1. \/ \E i \in DOMAIN received[s] : received[s][i] = h
        \/ \E i \in DOMAIN replay : replay[i] = h
    BY <1>1 DEF HistoryInv, Configured
  <2>2. CASE \E i \in DOMAIN received[s] : received[s][i] = h
    <3>1. PICK i \in DOMAIN received[s] : received[s][i] = h
      BY <2>2
    <3>2. i \in DOMAIN received'[s] /\ received'[s][i] = h
      BY <1>3, <1>6, <3>1
    <3> QED BY <3>2
  <2>3. CASE \E i \in DOMAIN replay : replay[i] = h
    <3>1. PICK i \in DOMAIN replay : replay[i] = h
      BY <2>3
    <3>2. CASE i = 1
      <4>1. Len(received[s]) + 1 \in DOMAIN received'[s] /\ received'[s][Len(received[s]) + 1] = h
        BY <1>3, <1>4, <1>5, <1>6, <3>1, <3>2
      <4> QED BY <4>1
    <3>3. CASE i # 1
      <4>1. i - 1 \in DOMAIN replay' /\ replay'[i - 1] = h
        BY <1>1, <1>4, <3>1, <3>3
      <4>2. replay' # <<>>
        BY <4>1, EmptySeq
      <4> QED BY <1>1, <4>1, <4>2
    <3> QED BY <3>2, <3>3
  <2> QED BY <2>1, <2>2, <2>3
<1>11. VideoStored'
  BY <1>1, <1>3 DEF HistoryInv, VideoStored, IsCurrent
<1>12. LiveTags(s)' = {} /\ \A r \in Subs : r # s => LiveTags(r)' = LiveTags(r)
  BY <1>1, <1>2, <1>3, <1>6, <1>7 DEF LiveTags
<1>13. StartsAtFirstKeyFrame'
  BY <1>1, <1>6, <1>12 DEF HistoryInv, StartsAtFirstKeyFrame
<1>14. VideoConfigured'
  BY <1>1, <1>6, <1>12 DEF HistoryInv, VideoConfigured, IsCurrent
<1> QED BY <1>8, <1>9, <1>10, <1>11, <1>13, <1>14 DEF HistoryInv

\* The newest tag is sent to a subscriber: the next after the last it was sent, or the key
\* frame it starts with.
LEMMA HistorySend ==
  ASSUME TypeOK, LoopInv, HistoryInv, NEW s \in Subs, SendTag(s)
  PROVE  HistoryInv'
<1>1. /\ replay = <<>> /\ s \in rest /\ s \in subs /\ sub[s] = "open" /\ rest' = rest \ {s} /\ started' = started \cup {s}
      /\ received' = [received EXCEPT ![s] = Append(@, Newest)]
      /\ UNCHANGED <<sub, subs, header, replay, published, joined>>
  BY DEF SendTag, LoopInv, Newest
<1>2. joined[s] < Newest /\ (s \notin started => IsKey(published[Newest]))
  BY <1>1 DEF HistoryInv, Pending
<1>3. /\ Newest \in Nat /\ Newest' = Newest /\ Tags' = Tags /\ Tags = 1..Newest
      /\ \A r \in Subs : /\ DOMAIN received[r] = 1..Len(received[r]) /\ joined[r] \in Nat /\ Len(received[r]) \in Nat
                         /\ \A i \in DOMAIN received[r] : received[r][i] \in Tags
  BY <1>1, HubTypes DEF Newest, Tags
<1>4. Newest \in Tags
  BY <1>2, <1>3
<1>5. PICK n \in Tags : n = Newest
  BY <1>4
<1> DEFINE k == Len(received[s]) + 1
<1>6. /\ received'[s] # <<>> /\ Len(received'[s]) = k /\ DOMAIN received'[s] = 1..k /\ received'[s][k] = Newest
      /\ \A i \in DOMAIN received[s] : received'[s][i] = received[s][i]
      /\ \A r \in Subs : r # s => received'[r] = received[r]
  BY <1>1, <1>5, OneMore
<1>7. k \in Nat /\ k \in DOMAIN received'[s] /\ DOMAIN received[s] = 1..(k - 1)
  BY <1>3, <1>6
<1> HIDE DEF k
\* the last tag s was sent is the one before the newest
<1>8. s \in started => k > 1 /\ received[s][k - 1] = Newest - 1 /\ received[s][k - 1] > joined[s]
  <2> SUFFICES ASSUME s \in started PROVE k > 1 /\ received[s][k - 1] = Newest - 1 /\ received[s][k - 1] > joined[s]
    OBVIOUS
  <2>1. received[s] # <<>> /\ Last(s) = Newest - 1 /\ Last(s) > joined[s]
    BY <1>1 DEF HistoryInv, Follows
  <2>2. Len(received[s]) # 0
    BY <2>1, EmptySeq, HubTypes
  <2> QED BY <1>3, <2>1, <2>2 DEF Last, k
<1>9. ASSUME NEW r \in Subs, r # s
      PROVE  (Entered(r) /\ Pending(r) /\ Waits(r) /\ Follows(r) /\ Contiguous(r) /\ Configured(r))'
  <2>1. (r \in rest' <=> r \in rest) /\ (r \in started' <=> r \in started) /\ received'[r] = received[r]
    BY <1>1, <1>6, <1>9
  <2>2. Entered(r)' /\ Contiguous(r)' /\ Pending(r)'
    BY <1>1, <1>3, <2>1 DEF HistoryInv, Entered, Contiguous, Pending
  <2>3. Waits(r)' /\ Follows(r)'
    BY <1>1, <1>3, <2>1 DEF HistoryInv, Waits, Follows, Last
  <2>4. Configured(r)'
    BY <1>1, <1>3, <2>1 DEF HistoryInv, Configured, IsCurrent
  <2> QED BY <2>2, <2>3, <2>4
<1>10. (Entered(s) /\ Pending(s) /\ Waits(s) /\ Follows(s))'
  <2>1. Entered(s)' /\ Pending(s)' /\ Waits(s)'
    BY <1>1, <1>2, <1>3 DEF HistoryInv, Entered, Pending, Waits
  <2>2. Follows(s)'
    BY <1>1, <1>2, <1>3, <1>6 DEF Follows, Last
  <2> QED BY <2>1, <2>2
<1>11. Contiguous(s)'
  <2> SUFFICES ASSUME NEW i \in 1..k, NEW j \in 1..k, i < j, received'[s][i] > joined[s]
               PROVE  received'[s][j] = received'[s][i] + (j - i)
    BY <1>1, <1>6 DEF Contiguous
  <2>1. i \in DOMAIN received[s] /\ received'[s][i] = received[s][i] /\ received[s][i] \in Nat
    BY <1>3, <1>6, <1>7
  <2>2. s \in started
    BY <2>1, <1>3 DEF HistoryInv, Entered
  <2>3. received[s][k - 1] = received[s][i] + (k - 1 - i)
    <3>1. k - 1 \in DOMAIN received[s]
      BY <1>7, <1>8, <2>2
    <3>2. CASE i = k - 1
      BY <1>7, <2>1, <3>2
    <3>3. CASE i # k - 1
      <4>1. i < k - 1
        BY <1>7, <2>1, <3>3
      <4> QED BY <2>1, <3>1, <4>1 DEF HistoryInv, Contiguous
    <3> QED BY <3>2, <3>3
  <2>4. CASE j = k
    <3>1. received[s][i] + (k - 1 - i) = Newest - 1
      BY <1>8, <2>2, <2>3
    <3>2. received'[s][j] = Newest /\ received'[s][i] = received[s][i]
      BY <1>6, <2>1, <2>4
    <3>3. Newest \in Nat /\ k \in Nat /\ i \in Nat /\ received[s][i] \in Nat
      BY <1>3, <1>7, <2>1
    <3> QED BY <2>4, <3>1, <3>2, <3>3
  <2>5. CASE j # k
    <3>1. j \in DOMAIN received[s] /\ received'[s][j] = received[s][j]
      BY <1>6, <1>7, <2>5
    <3> QED BY <2>1, <3>1 DEF HistoryInv, Contiguous
  <2> QED BY <2>4, <2>5
<1>12. ASSUME NEW h \in Tags, IsCurrent(h, "seqHeader", Newest) PROVE \E i \in 1..k : received'[s][i] = h
  <2>1. (\E i \in DOMAIN received[s] : received[s][i] = h) \/ h = Newest
    BY <1>1, <1>12, EmptySeq DEF HistoryInv, Configured
  <2>2. CASE h = Newest
    BY <1>6, <1>7, <2>2
  <2>3. CASE \E i \in DOMAIN received[s] : received[s][i] = h
    <3>1. PICK i \in DOMAIN received[s] : received[s][i] = h
      BY <2>3
    <3>2. i \in 1..k /\ received'[s][i] = h
      BY <1>6, <1>7, <3>1
    <3> QED BY <3>2
  <2> QED BY <2>1, <2>2, <2>3
<1>13. Configured(s)'
  BY <1>1, <1>3, <1>6, <1>12, SMTT(30) DEF Configured, IsCurrent
<1>14. VideoStored'
  BY <1>1, <1>3 DEF HistoryInv, VideoStored, IsCurrent
<1>15. /\ LiveTags(s)' = LiveTags(s) \cup {k} /\ LiveTags(s) \subseteq 1..(k - 1)
       /\ \A r \in Subs : r # s => LiveTags(r)' = LiveTags(r)
  BY <1>1, <1>2, <1>3, <1>6, <1>7 DEF LiveTags
<1>16. StartsAtFirstKeyFrame'
  <2> SUFFICES ASSUME NEW i \in LiveTags(s)', \A j \in LiveTags(s)' : i <= j
               PROVE  /\ IsKey(published[received'[s][i]])
                      /\ \A m \in (joined[s] + 1)..(received'[s][i] - 1) : ~IsKey(published[m])
    BY <1>1, <1>6, <1>15 DEF HistoryInv, StartsAtFirstKeyFrame
  <2>1. CASE s \in started
    <3>1. k - 1 \in LiveTags(s)
      BY <1>7, <1>8, <2>1 DEF LiveTags
    <3>2. i \in LiveTags(s) /\ \A j \in LiveTags(s) : i <= j
      BY <1>7, <1>15, <3>1
    <3>3. received'[s][i] = received[s][i]
      BY <1>6, <3>2 DEF LiveTags
    <3> QED BY <3>2, <3>3 DEF HistoryInv, StartsAtFirstKeyFrame
  <2>2. CASE s \notin started
    <3>1. LiveTags(s) = {}
      BY <1>3, <2>2 DEF HistoryInv, Entered, LiveTags
    <3>2. i = k /\ received'[s][i] = Newest
      BY <1>6, <1>15, <3>1
    <3>3. \A m \in (joined[s] + 1)..(Newest - 1) : ~IsKey(published[m])
      BY <1>1, <1>3, <2>2 DEF HistoryInv, Waits
    <3> QED BY <1>2, <2>2, <3>2, <3>3
  <2> QED BY <2>1, <2>2
<1>17. VideoConfigured'
  <2> SUFFICES ASSUME NEW i \in LiveTags(s)', IsVideo(published[received'[s][i]]),
                      NEW h \in 1..received'[s][i], IsCurrent(h, "seqHeader", received'[s][i])
               PROVE  \E j \in 1..i : received'[s][j] = h
    BY <1>1, <1>6, <1>15 DEF HistoryInv, VideoConfigured, IsCurrent
  <2>1. CASE i = k
    BY <1>3, <1>6, <1>12, <2>1
  <2>2. CASE i # k
    <3>1. i \in LiveTags(s) /\ received'[s][i] = received[s][i] /\ i \in 1..(k - 1)
      BY <1>6, <1>15, <2>2 DEF LiveTags
    <3>2. PICK j \in 1..i : received[s][j] = h
      BY <3>1 DEF HistoryInv, VideoConfigured
    <3>3. received'[s][j] = h
      BY <1>6, <1>7, <3>1, <3>2
    <3> QED BY <3>3
  <2> QED BY <2>1, <2>2
<1> QED BY <1>9, <1>10, <1>11, <1>13, <1>14, <1>16, <1>17 DEF HistoryInv

LEMMA HistoryStep == TypeOK /\ LoopInv /\ HistoryInv /\ [Next]_vars => HistoryInv'
<1> SUFFICES ASSUME TypeOK, LoopInv, HistoryInv, [Next]_vars PROVE HistoryInv'
  OBVIOUS
<1>1. ASSUME Callers \/ UNCHANGED vars PROVE HistoryInv'
  <2>1. UNCHANGED <<subs, started, header, rest, replay, published, joined, received>>
    BY <1>1 DEF Callers, CallPublish, PublishClosed, CallSubscribe, SubscribeClosed, CallUnsubscribe,
       UnsubscribeClosed, Close, ReaderEnds, vars, loopVars, historyVars
  <2>2. \A s \in Subs : sub'[s] \in {"idle", "calling", "refused"} => sub[s] \in {"idle", "calling", "refused"}
    BY <1>1 DEF Callers, CallPublish, PublishClosed, CallSubscribe, SubscribeClosed, CallUnsubscribe,
       UnsubscribeClosed, Close, ReaderEnds, vars, TypeOK
  <2> QED BY <2>1, <2>2, HistoryQuiet
<1>2. ASSUME NEW s \in Subs, NEW c \in Closers, ReceiveUnsub(s, c) PROVE HistoryInv'
  BY <1>2, HistoryQuiet DEF ReceiveUnsub, Without, historyVars
<1>3. CASE Exit
  BY <1>3, HistoryQuiet DEF Exit, historyVars
<1> QED BY <1>1, <1>2, <1>3, HistoryTag, HistorySub, HistoryHeader, HistorySend DEF Next, Loop

HubInv == TypeOK /\ LoopInv /\ HistoryInv

LEMMA HubInvariant == Spec => []HubInv
<1>1. Init => HubInv
  BY TypeInit, LoopInit, HistoryInit DEF HubInv
<1>2. HubInv /\ [Next]_vars => HubInv'
  BY TypeStep, LoopStep, HistoryStep DEF HubInv
<1> QED BY <1>1, <1>2, PTL DEF Spec

\* Whoever subscribes, and whenever, is started by the first key frame published from then
\* on (the map of mediastream.go:175-260).
THEOREM StartsAtKeyFrame == Spec => []StartsAtFirstKeyFrame
<1>1. HubInv => StartsAtFirstKeyFrame
  BY DEF HubInv, HistoryInv
<1> QED BY <1>1, HubInvariant, PTL

\* No subscriber is sent a video tag without the sequence header in force, replayed by the
\* sub case of loop() or sent live.
THEOREM VideoIsConfigured == Spec => []VideoConfigured
<1>1. HubInv => VideoConfigured
  BY DEF HubInv, HistoryInv
<1> QED BY <1>1, HubInvariant, PTL

----------------------------------------------------------------------------
(* The refinement of Broadcast.                                            *)

Pos == [s \in Subs |-> IF s \in subs \cap started THEN received[s][Len(received[s])] ELSE 0]

\* Every step of the hub is a step of the abstract log, or none.
LEMMA BroadcastStep == HubInv /\ [Next]_vars => [Broadcast!Next]_(Broadcast!vars)
<1> SUFFICES ASSUME HubInv, [Next]_vars PROVE Broadcast!Next \/ UNCHANGED Broadcast!vars
  OBVIOUS
<1> USE DEF HubInv
<1>0. ASSUME UNCHANGED published, UNCHANGED Pos PROVE UNCHANGED Broadcast!vars
  BY <1>0 DEF Broadcast!vars, Pos
<1>1. ASSUME NEW p \in Publishers, ReceiveTag(p) PROVE Broadcast!Publish
  <2>1. /\ rest = {} /\ published' = Append(published, pub[p]) /\ pub[p] \in AllKinds
        /\ UNCHANGED <<subs, started, received>>
    BY <1>1 DEF ReceiveTag, AtSelect, TypeOK
  <2>2. \A s \in Subs : Pos[s] \in {0, Len(published)}
    BY <2>1 DEF HistoryInv, Follows, Last, Newest, Pos
  <2> QED BY <2>1, <2>2 DEF Broadcast!Publish, AllKinds, Pos
<1>2. ASSUME NEW s \in Subs, SendTag(s) PROVE Broadcast!Enter(s) \/ Broadcast!Advance(s)
  <2>1. /\ s \in rest /\ s \in subs /\ replay = <<>> /\ subs' = subs /\ started' = started \cup {s}
        /\ received' = [received EXCEPT ![s] = Append(@, Newest)] /\ UNCHANGED published
    BY <1>2 DEF SendTag, LoopInv, Newest
  <2>2. joined[s] < Newest /\ (s \notin started => IsKey(published[Newest])) /\ joined[s] \in Nat /\ Newest \in Nat
    BY <2>1, HubTypes DEF HistoryInv, Pending
  <2>3. PICK n \in Tags : n = Newest
    BY <2>2, HubTypes
  <2>4. /\ Len(received'[s]) = Len(received[s]) + 1 /\ received'[s][Len(received[s]) + 1] = Newest
        /\ \A r \in Subs : r # s => received'[r] = received[r]
    BY <2>1, <2>3, OneMore
  <2>5. Pos' = [Pos EXCEPT ![s] = Newest]
    <3>1. s \in subs' \cap started' /\ received'[s][Len(received'[s])] = Newest
      BY <2>1, <2>4
    <3>2. \A r \in Subs : r # s => (r \in subs' \cap started' <=> r \in subs \cap started)
      BY <2>1
    <3> QED BY <2>4, <3>1, <3>2 DEF Pos
  <2>6. CASE s \notin started
    <3>1. Pos[s] = 0 /\ published # <<>> /\ published[Len(published)] \in {"seqHeader", "keyframe"}
      BY <2>2, <2>6, EmptySeq DEF Pos, Newest, IsKey
    <3> QED BY <2>1, <2>5, <3>1 DEF Broadcast!Enter, Broadcast!KeyKinds, Pos, Newest
  <2>7. CASE s \in started
    <3>1. Pos[s] = Newest - 1 /\ Pos[s] > joined[s]
      BY <2>1, <2>7 DEF Pos, HistoryInv, Follows, Last
    <3>2. Pos' = [Pos EXCEPT ![s] = @ + 1]
      <4>1. Pos[s] + 1 = Newest
        BY <2>2, <3>1
      <4> QED BY <2>5, <4>1 DEF Pos
    <3> QED BY <2>1, <2>2, <3>1, <3>2 DEF Broadcast!Advance, Pos, Newest
  <2> QED BY <2>6, <2>7
<1>3. ASSUME NEW s \in Subs, ReceiveSub(s) PROVE UNCHANGED published /\ UNCHANGED Pos
  <2>1. s \notin started /\ subs' = subs \cup {s} /\ UNCHANGED <<published, started, received>>
    BY <1>3 DEF ReceiveSub, HistoryInv, Entered
  <2> QED BY <2>1 DEF Pos
<1>4. ASSUME NEW s \in Subs, SendHeader(s) PROVE UNCHANGED published /\ UNCHANGED Pos
  <2>1. /\ s \notin started /\ UNCHANGED <<published, started, subs>>
        /\ received' = [received EXCEPT ![s] = Append(@, Head(replay))]
    BY <1>4 DEF SendHeader, HistoryInv, Pending
  <2> QED BY <2>1 DEF Pos, TypeOK
<1>5. ASSUME NEW S \in SUBSET Subs, subs' = subs \ S, UNCHANGED <<published, started, received>>
      PROVE  Broadcast!Leave(S)
  BY <1>5 DEF Broadcast!Leave, Pos
<1>6. ASSUME NEW s \in Subs, NEW c \in Closers, ReceiveUnsub(s, c) PROVE Broadcast!Leave({s})
  BY <1>5, <1>6 DEF ReceiveUnsub, Without, historyVars
<1>7. ASSUME Exit PROVE Broadcast!Leave(Subs)
  <2>1. subs' = subs \ Subs
    BY <1>7 DEF Exit, TypeOK
  <2> QED BY <1>5, <1>7, <2>1 DEF Exit, historyVars
<1>8. ASSUME Callers \/ UNCHANGED vars PROVE UNCHANGED published /\ UNCHANGED Pos
  BY <1>8 DEF Callers, CallPublish, PublishClosed, CallSubscribe, SubscribeClosed, CallUnsubscribe,
     UnsubscribeClosed, Close, ReaderEnds, vars, loopVars, historyVars, Pos
<1> QED BY <1>0, <1>1, <1>2, <1>3, <1>4, <1>6, <1>7, <1>8 DEF Next, Loop, Broadcast!Next

LEMMA BroadcastInit == Init => Broadcast!Init
BY DEF Init, Broadcast!Init

\* The hub implements the abstract broadcast log: a subscriber enters at a key frame that
\* is the newest tag, is sent every tag from then on, in order, until it leaves for good, and
\* no tag is accepted before all have the one before it.
THEOREM HubIsBroadcast == Spec => ImplementsBroadcast
<1> QED BY BroadcastInit, BroadcastStep, HubInvariant, PTL DEF Spec, ImplementsBroadcast, Broadcast!Spec
=============================================================================
