---------------------- MODULE ChunkStreamWriterProofs ----------------------
(* Theorems about ChunkStreamWriter, for any senders, ids and messages. *)
EXTENDS ChunkStreamWriter, SequenceTheorems, FiniteSetTheorems, TLAPS

\* Every call in progress is of a message that has been sent.
CallsAreMessages ==
  /\ call \in [Senders -> 0..Len(msgs)]
  /\ taken \in 0..Len(msgs)
  /\ msgs \in Seq([by : Senders, chunks : Nat, result : Results])

\* A reply changes what Send returned, and nothing else about the messages.
LEMMA ReturnKeepsLength ==
  ASSUME CallsAreMessages, NEW g \in Senders, NEW r \in Results, Calling(g), Return(g, r)
  PROVE  /\ msgs' \in Seq([by : Senders, chunks : Nat, result : Results])
         /\ Len(msgs') = Len(msgs)
         /\ call' = [call EXCEPT ![g] = 0]
<1>1. call[g] \in 1..Len(msgs)
  BY DEF CallsAreMessages, Calling
<1>2. [msgs[call[g]] EXCEPT !.result = r] \in [by : Senders, chunks : Nat, result : Results]
  <2>1. msgs[call[g]] \in [by : Senders, chunks : Nat, result : Results]
    BY <1>1, ElementOfSeq DEF CallsAreMessages
  <2> QED BY <2>1
<1>3. msgs' = [msgs EXCEPT ![call[g]] = [msgs[call[g]] EXCEPT !.result = r]]
  BY DEF Return
<1> QED BY <1>1, <1>2, <1>3, ExceptSeq DEF Return, CallsAreMessages

LEMMA CallsInit == Init => CallsAreMessages /\ ReportIsAwaited
BY EmptySeq DEF Init, CallsAreMessages, ReportIsAwaited

LEMMA CallsStep ==
  CallsAreMessages /\ ReportIsAwaited /\ [Next]_vars => (CallsAreMessages /\ ReportIsAwaited)'
<1> SUFFICES ASSUME CallsAreMessages, ReportIsAwaited, [Next]_vars
             PROVE  CallsAreMessages' /\ ReportIsAwaited'
  OBVIOUS
<1>1. ASSUME NEW g \in Senders, SendClosed(g) PROVE CallsAreMessages' /\ ReportIsAwaited'
  \* the message being written is not the one refused
  <2>1. /\ Len(msgs') = Len(msgs) /\ call' = [call EXCEPT ![g] = 0]
        /\ msgs' \in Seq([by : Senders, chunks : Nat, result : Results])
    BY <1>1, ReturnKeepsLength DEF SendClosed, Results
  <2>2. CallsAreMessages'
    BY <1>1, <2>1 DEF SendClosed, CallsAreMessages
  <2>3. ASSUME taken # 0, NEW h \in Senders, call[h] = taken PROVE call'[h] = taken
    BY <1>1, <2>1, <2>3 DEF SendClosed, CallsAreMessages
  <2>4. taken' = taken
    BY <1>1 DEF SendClosed
  <2> QED BY <2>2, <2>3, <2>4 DEF ReportIsAwaited
<1>2. ASSUME NEW g \in Senders, NEW cs \in Reserved \cup (Base..MaxId), NEW n \in 0..MaxChunks,
             Send(g, cs, n)
      PROVE  CallsAreMessages' /\ ReportIsAwaited'
  <2>1. /\ msgs' \in Seq([by : Senders, chunks : Nat, result : Results])
        /\ Len(msgs') = Len(msgs) + 1
    <3>1. PICK r \in Results : msgs' = Append(msgs, [by |-> g, chunks |-> n, result |-> r])
      BY <1>2 DEF Send, Results
    <3>2. [by |-> g, chunks |-> n, result |-> r] \in [by : Senders, chunks : Nat, result : Results]
      BY ChunkStreamWriterAssumption
    <3>3. PICK m \in [by : Senders, chunks : Nat, result : Results] : msgs' = Append(msgs, m)
      BY <3>1, <3>2
    <3> QED BY <3>3 DEF CallsAreMessages
  <2>2. Len(msgs) \in Nat
    BY LenProperties DEF CallsAreMessages
  <2>3. call' = call \/ call' = [call EXCEPT ![g] = Len(msgs) + 1]
    BY <1>2 DEF Send
  <2>4. CallsAreMessages'
    <3>1. taken' = taken
      BY <1>2 DEF Send
    <3>2. taken' \in 0..Len(msgs')
      BY <2>1, <2>2, <3>1 DEF CallsAreMessages
    <3>3. call' \in [Senders -> 0..Len(msgs')]
      <4>1. 0..Len(msgs) \subseteq 0..Len(msgs') /\ Len(msgs) + 1 \in 0..Len(msgs')
        BY <2>1, <2>2
      <4>2. call \in [Senders -> 0..Len(msgs')]
        BY <4>1 DEF CallsAreMessages
      <4> QED BY <2>3, <4>1, <4>2
    <3> QED BY <2>1, <3>2, <3>3 DEF CallsAreMessages
  \* a goroutine that was waiting for the report cannot be the one that calls
  <2>5. ASSUME taken # 0, NEW h \in Senders, call[h] = taken PROVE call'[h] = taken
    BY <1>2, <2>3, <2>5 DEF Send, Calling, CallsAreMessages
  <2>6. taken' = taken
    BY <1>2 DEF Send
  <2> QED BY <2>4, <2>5, <2>6 DEF ReportIsAwaited
<1>3. CASE CreateChunkStream
  BY <1>3 DEF CreateChunkStream, CallsAreMessages, ReportIsAwaited
<1>4. ASSUME NEW g \in Senders, Take(g) PROVE CallsAreMessages' /\ ReportIsAwaited'
  BY <1>4 DEF Take, CallsAreMessages, ReportIsAwaited
<1>5. CASE WriteChunk
  BY <1>5 DEF WriteChunk, CallsAreMessages, ReportIsAwaited
<1>6. ASSUME taken # 0, NEW r \in Results, Report(r)
      PROVE CallsAreMessages' /\ ReportIsAwaited'
  <2>1. PICK g \in Senders : call[g] = taken /\ Return(g, r) /\ taken' = 0
    BY <1>6 DEF Report
  <2>2. /\ Len(msgs') = Len(msgs) /\ call' = [call EXCEPT ![g] = 0]
        /\ msgs' \in Seq([by : Senders, chunks : Nat, result : Results])
    BY <1>6, <2>1, ReturnKeepsLength DEF Calling
  <2>3. Len(msgs) \in Nat
    BY LenProperties DEF CallsAreMessages
  <2> QED BY <2>1, <2>2, <2>3 DEF CallsAreMessages, ReportIsAwaited
<1>7. CASE Written
  BY <1>6, <1>7 DEF Written, Results
<1>8. CASE WriteFails
  BY <1>6, <1>8 DEF WriteFails, Results
<1>9. CASE WriterEnds
  BY <1>9 DEF WriterEnds, CallsAreMessages, ReportIsAwaited
<1>10. CASE Close
  BY <1>10 DEF Close, CallsAreMessages, ReportIsAwaited
<1>11. CASE FlushFails
  BY <1>11 DEF FlushFails, CallsAreMessages, ReportIsAwaited
<1>12. CASE UNCHANGED vars
  BY <1>12 DEF vars, CallsAreMessages, ReportIsAwaited
<1> QED
  BY <1>1, <1>2, <1>3, <1>4, <1>5, <1>7, <1>8, <1>9, <1>10, <1>11, <1>12 DEF Next, WriteTo

\* Whenever WriteTo (chunkstreamwriter.go:118-138) is writing a message, the Send
\* of that message is still there to receive what it reports.
THEOREM ReportAwaited == Spec => []ReportIsAwaited
<1>1. CallsAreMessages /\ ReportIsAwaited => ReportIsAwaited
  OBVIOUS
<1> QED BY <1>1, CallsInit, CallsStep, PTL DEF Spec

----------------------------------------------------------------------------
(* What is on the wire.                                                    *)

Message == [by : Senders, chunks : Nat, result : Results]

\* A call is of the last message its goroutine sent, which nothing has been reported of.
CallsAreLatest ==
  \A g \in Senders : Calling(g) =>
    /\ msgs[call[g]].by = g /\ msgs[call[g]].result = "none"
    /\ \A m \in (call[g] + 1)..Len(msgs) : msgs[m].by # g

\* A message that has not been taken has nothing on the wire.
OffersAreUnwritten ==
  \A g \in Senders : Calling(g) /\ call[g] # taken => ChunksOf(call[g]) = {}

\* The message being written ends the wire with its chunks, but for those left.
TakenIsLast ==
  taken # 0 =>
    /\ left + Cardinality(ChunksOf(taken)) = msgs[taken].chunks
    /\ \A i \in ChunksOf(taken) : \A k \in i..Len(wire) : wire[k] = taken

WireInv ==
  /\ TypeOK /\ ReportIsAwaited
  /\ CallsAreLatest /\ OffersAreUnwritten /\ TakenIsLast
  /\ ResultIsTrue /\ WireInOrder

\* What TypeOK says of the sequences, in the form the steps use it.
LEMMA WriterTypes ==
  ASSUME TypeOK
  PROVE  /\ call \in [Senders -> 0..Len(msgs)] /\ taken \in 0..Len(msgs) /\ left \in Nat
         /\ msgs \in Seq(Message) /\ DOMAIN msgs = 1..Len(msgs) /\ Len(msgs) \in Nat
         /\ wire \in Seq(1..Len(msgs)) /\ DOMAIN wire = 1..Len(wire) /\ Len(wire) \in Nat
         /\ \A m \in DOMAIN msgs : msgs[m].by \in Senders /\ msgs[m].chunks \in Nat /\ msgs[m].result \in Results
         /\ \A i \in DOMAIN wire : wire[i] \in 1..Len(msgs)
<1>1. msgs \in Seq(Message) /\ wire \in Seq(1..Len(msgs))
  BY DEF TypeOK, Message
<1>2. /\ DOMAIN msgs = 1..Len(msgs) /\ Len(msgs) \in Nat
      /\ DOMAIN wire = 1..Len(wire) /\ Len(wire) \in Nat
  BY <1>1, LenProperties
<1>3. /\ \A m \in DOMAIN msgs : msgs[m] \in Message
      /\ \A i \in DOMAIN wire : wire[i] \in 1..Len(msgs)
  BY <1>1, <1>2, ElementOfSeq
<1>4. \A m \in DOMAIN msgs : msgs[m].by \in Senders /\ msgs[m].chunks \in Nat /\ msgs[m].result \in Results
  BY <1>3 DEF Message
<1> QED BY <1>1, <1>2, <1>3, <1>4 DEF TypeOK

\* The chunks of a message on the wire are finitely many.
LEMMA ChunksFinite ==
  ASSUME TypeOK, NEW m
  PROVE  IsFiniteSet(ChunksOf(m)) /\ Cardinality(ChunksOf(m)) \in Nat
<1>1. ChunksOf(m) \subseteq 1..Len(wire) /\ Len(wire) \in Nat
  BY WriterTypes DEF ChunksOf
<1>2. IsFiniteSet(1..Len(wire))
  BY <1>1, FS_Interval
<1> QED BY <1>1, <1>2, FS_Subset, FS_CardinalityType

LEMMA WireInit == Init => WireInv
<1> SUFFICES ASSUME Init PROVE WireInv
  OBVIOUS
<1>1. TypeOK
  <2>1. msgs = <<>> /\ wire = <<>> /\ Len(msgs) = 0
    BY EmptySeq DEF Init
  <2>2. /\ msgs \in Seq([by : Senders, chunks : Nat, result : Results])
        /\ wire \in Seq(1..Len(msgs))
    BY <2>1, EmptySeq
  <2>3. call \in [Senders -> 0..Len(msgs)] /\ taken \in 0..Len(msgs)
    BY <2>1 DEF Init
  <2>4. chunkStreams \subseteq Nat /\ left \in Nat
    BY ChunkStreamWriterAssumption DEF Init
  <2> QED BY <2>2, <2>3, <2>4 DEF Init, TypeOK
<1> QED BY <1>1, CallsInit DEF Init, WireInv, Calling, CallsAreLatest, OffersAreUnwritten, TakenIsLast, ResultIsTrue, WireInOrder

\* A step that neither sends, writes nor reports.
LEMMA QuietStep ==
  ASSUME WireInv, TypeOK', UNCHANGED <<call, taken, left, msgs, wire>>
  PROVE  WireInv'
BY DEF WireInv, Calling, ChunksOf, ReportIsAwaited, CallsAreLatest, OffersAreUnwritten, TakenIsLast, ResultIsTrue, WireInOrder

\* A goroutine calls Send: the message is the latest and none of it is on the wire.
LEMMA SendStep ==
  ASSUME WireInv, NEW g \in Senders, NEW cs, NEW n \in Nat, Send(g, cs, n)
  PROVE  WireInv' /\ Len(msgs) <= Len(msgs')
<1> USE DEF WireInv
<1>t. /\ msgs \in Seq(Message) /\ DOMAIN msgs = 1..Len(msgs) /\ Len(msgs) \in Nat
      /\ wire \in Seq(1..Len(msgs)) /\ DOMAIN wire = 1..Len(wire) /\ Len(wire) \in Nat
      /\ call \in [Senders -> 0..Len(msgs)] /\ taken \in 0..Len(msgs) /\ left \in Nat
      /\ \A m \in DOMAIN msgs : msgs[m].by \in Senders /\ msgs[m].chunks \in Nat
      /\ \A i \in DOMAIN wire : wire[i] \in 1..Len(msgs)
  BY WriterTypes
<1>1. PICK r \in {"none", "invalid"} :
        /\ msgs' = Append(msgs, [by |-> g, chunks |-> n, result |-> r])
        /\ call' = IF r = "none" THEN [call EXCEPT ![g] = Len(msgs) + 1] ELSE call
  BY DEF Send
<1>2. /\ msgs' \in Seq(Message) /\ Len(msgs') = Len(msgs) + 1 /\ DOMAIN msgs' = 1..(Len(msgs) + 1)
      /\ msgs'[Len(msgs) + 1] = [by |-> g, chunks |-> n, result |-> r]
      /\ \A m \in DOMAIN msgs : msgs'[m] = msgs[m]
  <2>1. [by |-> g, chunks |-> n, result |-> r] \in Message
    BY DEF Message, Results
  <2> HIDE DEF WireInv
  <2>2. msgs \in Seq(Message) /\ DOMAIN msgs = 1..Len(msgs)
    BY <1>t
  <2>3. msgs' \in Seq(Message) /\ Len(msgs') = Len(msgs) + 1
    BY <1>1, <2>1, <2>2, AppendProperties
  <2> QED BY <1>1, <2>1, <2>2, <2>3, AppendProperties, LenProperties
<1>3. ~Calling(g) /\ UNCHANGED <<chunkStreams, taken, left, writer, done, net, wire>>
  BY DEF Send
<1>4. ChunksOf(Len(msgs) + 1) = {} /\ UNCHANGED wire
  BY <1>3, <1>t DEF ChunksOf
<1>5. TypeOK'
  <2>1. wire' \in Seq(1..Len(msgs'))
    <3>1. 1..Len(msgs) \subseteq 1..Len(msgs')
      BY <1>2, <1>t
    <3> QED BY <1>3, <3>1, <1>t, SeqMonotonic
  <2>2. call' \in [Senders -> 0..Len(msgs')] /\ taken' \in 0..Len(msgs')
    BY <1>1, <1>2, <1>3, <1>t
  <2> QED BY <1>2, <1>3, <2>1, <2>2 DEF TypeOK, Message
<1>6. ReportIsAwaited'
  BY <1>1, <1>3, <1>t DEF ReportIsAwaited, Calling
<1>7. CallsAreLatest'
  <2> SUFFICES ASSUME NEW h \in Senders, call'[h] # 0
               PROVE  /\ msgs'[call'[h]].by = h /\ msgs'[call'[h]].result = "none"
                      /\ \A m \in (call'[h] + 1)..Len(msgs') : msgs'[m].by # h
    BY DEF CallsAreLatest, Calling
  <2>1. CASE call'[h] = call[h]
    <3>1. h # g /\ call[h] \in DOMAIN msgs
      BY <1>3, <2>1, <1>t DEF Calling
    <3>2. /\ msgs[call[h]].by = h /\ msgs[call[h]].result = "none"
          /\ \A m \in (call[h] + 1)..Len(msgs) : msgs[m].by # h
      BY <2>1 DEF CallsAreLatest, Calling
    <3>3. msgs'[call[h]] = msgs[call[h]]
      BY <1>2, <3>1
    <3>4. ASSUME NEW m \in (call[h] + 1)..Len(msgs') PROVE msgs'[m].by # h
      <4>1. m \in DOMAIN msgs \/ m = Len(msgs) + 1
        BY <1>2, <1>t, <3>1, <3>4
      <4>2. CASE m \in DOMAIN msgs
        <5>1. msgs'[m] = msgs[m] /\ m \in (call[h] + 1)..Len(msgs)
          BY <1>2, <1>t, <3>1, <3>4, <4>2
        <5> QED BY <3>2, <5>1
      <4>3. CASE m = Len(msgs) + 1
        BY <1>2, <3>1, <4>3
      <4> QED BY <4>1, <4>2, <4>3
    <3> QED BY <2>1, <3>2, <3>3, <3>4
  <2>2. CASE call'[h] # call[h]
    <3>1. h = g /\ call'[h] = Len(msgs) + 1 /\ r = "none"
      BY <1>1, <2>2, <1>t
    <3> QED BY <1>2, <3>1, <1>t
  <2> QED BY <2>1, <2>2
<1>8. OffersAreUnwritten'
  <2> SUFFICES ASSUME NEW h \in Senders, call'[h] # 0, call'[h] # taken PROVE ChunksOf(call'[h]) = {}
    BY <1>3 DEF OffersAreUnwritten, Calling, ChunksOf
  <2> QED BY <1>1, <1>4, <1>t DEF OffersAreUnwritten, Calling
<1>9. TakenIsLast'
  BY <1>2, <1>3, <1>t DEF TakenIsLast, ChunksOf
<1>10. ResultIsTrue'
  <2> SUFFICES ASSUME NEW m \in DOMAIN msgs'
               PROVE  LET k == Cardinality(ChunksOf(m)) IN
                        /\ msgs'[m].result = "ok" => k = msgs'[m].chunks
                        /\ msgs'[m].result \in {"closed", "invalid"} => k = 0
                        /\ msgs'[m].result = "error" => k < msgs'[m].chunks
    BY <1>3 DEF ResultIsTrue, ChunksOf
  <2>1. CASE m \in DOMAIN msgs
    BY <1>2, <2>1 DEF ResultIsTrue
  <2>2. CASE m = Len(msgs) + 1
    <3>1. Cardinality(ChunksOf(m)) = 0
      BY <1>4, <2>2, FS_EmptySet
    <3>2. msgs'[m].result \in {"none", "invalid"}
      BY <1>2, <2>2
    <3> QED BY <3>1, <3>2
  <2> QED BY <1>2, <2>1, <2>2, <1>t
<1>11. WireInOrder'
  BY <1>2, <1>3, <1>t, SMTT(30) DEF WireInOrder
<1>12. Len(msgs) <= Len(msgs')
  BY <1>2, <1>t
<1> QED BY <1>5, <1>6, <1>7, <1>8, <1>9, <1>10, <1>11, <1>12

\* Send returns: what it returns is true of the wire, and the other calls are of other messages.
LEMMA ReplyStep ==
  ASSUME WireInv, NEW g \in Senders, Calling(g), NEW r \in Results, Return(g, r),
         UNCHANGED <<chunkStreams, writer, done, wire>>, net' \in {"up", "failed"},
         \/ r = "closed" /\ call[g] # taken /\ UNCHANGED <<taken, left>>
         \/ /\ call[g] = taken /\ taken' = 0 /\ left' = 0
            /\ (r = "ok" /\ left = 0) \/ (r = "error" /\ left > 0)
  PROVE  WireInv' /\ Len(msgs) <= Len(msgs')
<1> USE DEF WireInv
<1>t. /\ msgs \in Seq(Message) /\ DOMAIN msgs = 1..Len(msgs) /\ Len(msgs) \in Nat
      /\ wire \in Seq(1..Len(msgs)) /\ DOMAIN wire = 1..Len(wire) /\ Len(wire) \in Nat
      /\ call \in [Senders -> 0..Len(msgs)] /\ taken \in 0..Len(msgs) /\ left \in Nat
      /\ \A m \in DOMAIN msgs : msgs[m].by \in Senders /\ msgs[m].chunks \in Nat
      /\ \A i \in DOMAIN wire : wire[i] \in 1..Len(msgs)
  BY WriterTypes
<1>1. call[g] \in DOMAIN msgs
  BY <1>t DEF Calling
<1>2. /\ msgs' \in Seq(Message) /\ Len(msgs') = Len(msgs) /\ DOMAIN msgs' = DOMAIN msgs
      /\ call' = [call EXCEPT ![g] = 0]
      /\ \A m \in DOMAIN msgs : /\ msgs'[m].by = msgs[m].by /\ msgs'[m].chunks = msgs[m].chunks
                                /\ msgs'[m].result = IF m = call[g] THEN r ELSE msgs[m].result
  <2> HIDE DEF WireInv
  <2> DEFINE e == [msgs[call[g]] EXCEPT !.result = r]
  <2>1. /\ msgs \in Seq(Message) /\ call[g] \in 1..Len(msgs) /\ DOMAIN msgs = 1..Len(msgs)
        /\ msgs[call[g]] \in Message
    BY <1>1, <1>t, ElementOfSeq DEF WireInv
  <2>2. /\ e \in Message /\ e.by = msgs[call[g]].by /\ e.chunks = msgs[call[g]].chunks /\ e.result = r
    BY <2>1 DEF Message
  <2>3. msgs' = [msgs EXCEPT ![call[g]] = e] /\ call' = [call EXCEPT ![g] = 0]
    BY DEF Return
  <2> HIDE DEF e
  <2>4. /\ msgs' \in Seq(Message) /\ Len(msgs') = Len(msgs)
        /\ \A m \in 1..Len(msgs) : msgs'[m] = IF m = call[g] THEN e ELSE msgs[m]
    BY <2>1, <2>2, <2>3, ExceptSeq
  <2> QED BY <2>1, <2>2, <2>3, <2>4, LenProperties
\* two goroutines have different messages in hand
<1>3. \A h \in Senders : h # g /\ Calling(h) => call[h] # call[g]
  BY DEF CallsAreLatest
<1>4. \A m : ChunksOf(m)' = ChunksOf(m)
  BY DEF ChunksOf
<1>5. TypeOK'
  BY <1>2, <1>t DEF TypeOK, Message
<1>6. ReportIsAwaited'
  BY <1>2, <1>t DEF ReportIsAwaited
<1>7. CallsAreLatest'
  <2> SUFFICES ASSUME NEW h \in Senders, call'[h] # 0
               PROVE  /\ msgs'[call'[h]].by = h /\ msgs'[call'[h]].result = "none"
                      /\ \A m \in (call'[h] + 1)..Len(msgs') : msgs'[m].by # h
    BY DEF CallsAreLatest, Calling
  <2>1. h # g /\ call'[h] = call[h]
    BY <1>2, <1>t
  <2>2. /\ msgs[call[h]].by = h /\ msgs[call[h]].result = "none" /\ call[h] # call[g]
        /\ \A m \in (call[h] + 1)..Len(msgs) : msgs[m].by # h
    BY <1>3, <2>1 DEF CallsAreLatest, Calling
  <2>3. call[h] \in DOMAIN msgs /\ (call[h] + 1)..Len(msgs) \subseteq DOMAIN msgs
    BY <2>1, <1>t
  <2> QED BY <1>2, <2>1, <2>2, <2>3
<1>8. OffersAreUnwritten'
  BY <1>2, <1>3, <1>4, <1>t DEF OffersAreUnwritten, Calling
<1>9. TakenIsLast'
  <2>1. CASE taken' = 0
    BY <2>1 DEF TakenIsLast
  <2>2. CASE call[g] # taken /\ UNCHANGED <<taken, left>>
    BY <1>2, <1>4, <2>2, <1>t DEF TakenIsLast
  <2> QED BY <2>1, <2>2
<1>10. ResultIsTrue'
  <2> SUFFICES ASSUME NEW m \in DOMAIN msgs
               PROVE  LET k == Cardinality(ChunksOf(m)) IN
                        /\ msgs'[m].result = "ok" => k = msgs'[m].chunks
                        /\ msgs'[m].result \in {"closed", "invalid"} => k = 0
                        /\ msgs'[m].result = "error" => k < msgs'[m].chunks
    BY <1>2, <1>4 DEF ResultIsTrue
  <2>1. CASE m # call[g]
    BY <1>2, <2>1 DEF ResultIsTrue
  <2>2. CASE m = call[g] /\ call[g] # taken
    <3>1. r = "closed" /\ Cardinality(ChunksOf(m)) = 0
      BY <2>2, FS_EmptySet DEF OffersAreUnwritten
    <3> QED BY <1>2, <2>2, <3>1
  <2>3. CASE m = call[g] /\ call[g] = taken
    <3>1. left + Cardinality(ChunksOf(m)) = msgs[m].chunks
      BY <2>3 DEF TakenIsLast, Calling
    <3>2. Cardinality(ChunksOf(m)) \in Nat
      BY ChunksFinite
    <3> QED BY <1>2, <2>3, <3>1, <3>2, <1>t
  <2> QED BY <2>1, <2>2, <2>3
<1>11. WireInOrder'
  <2>1. \A i \in DOMAIN wire : wire[i] \in DOMAIN msgs /\ msgs'[wire[i]].by = msgs[wire[i]].by
    BY <1>2, <1>t
  <2>2. WireInOrder /\ UNCHANGED wire
    OBVIOUS
  <2> QED BY <2>1, <2>2 DEF WireInOrder
<1>12. Len(msgs) <= Len(msgs')
  BY <1>2, <1>t
<1> QED BY <1>5, <1>6, <1>7, <1>8, <1>9, <1>10, <1>11, <1>12

\* WriteTo takes a message of which nothing is on the wire yet.
LEMMA TakeStep ==
  ASSUME WireInv, NEW g \in Senders, Take(g)
  PROVE  WireInv'
<1> USE DEF WireInv
<1>t. /\ msgs \in Seq(Message) /\ DOMAIN msgs = 1..Len(msgs) /\ Len(msgs) \in Nat
      /\ wire \in Seq(1..Len(msgs)) /\ DOMAIN wire = 1..Len(wire) /\ Len(wire) \in Nat
      /\ call \in [Senders -> 0..Len(msgs)] /\ taken \in 0..Len(msgs) /\ left \in Nat
      /\ \A m \in DOMAIN msgs : msgs[m].by \in Senders /\ msgs[m].chunks \in Nat
      /\ \A i \in DOMAIN wire : wire[i] \in 1..Len(msgs)
  BY WriterTypes
<1>1. /\ taken = 0 /\ Calling(g) /\ taken' = call[g] /\ left' = msgs[call[g]].chunks
      /\ call[g] \in DOMAIN msgs /\ UNCHANGED <<chunkStreams, call, writer, done, net, msgs, wire>>
  BY <1>t DEF Take, Selecting, Calling
<1>2. ChunksOf(call[g]) = {} /\ \A m : ChunksOf(m)' = ChunksOf(m)
  BY <1>1 DEF OffersAreUnwritten, ChunksOf, Calling
<1>3. TypeOK'
  BY <1>1, <1>t DEF TypeOK
<1>4. ReportIsAwaited' /\ CallsAreLatest'
  BY <1>1 DEF ReportIsAwaited, CallsAreLatest, Calling
<1>5. OffersAreUnwritten'
  BY <1>1, <1>2 DEF OffersAreUnwritten, Calling
<1>6. TakenIsLast'
  <2>1. Cardinality(ChunksOf(call[g])) = 0
    BY <1>2, FS_EmptySet
  <2>2. left' + Cardinality(ChunksOf(taken)') = msgs[taken'].chunks /\ ChunksOf(taken)' = ChunksOf(call[g])
    BY <1>1, <1>2, <2>1, <1>t DEF ChunksOf
  <2> QED BY <1>1, <1>2, <2>2 DEF TakenIsLast
<1>7. ResultIsTrue' /\ WireInOrder'
  BY <1>1, <1>2 DEF ResultIsTrue, WireInOrder
<1> QED BY <1>3, <1>4, <1>5, <1>6, <1>7

\* A chunk is appended to those of the message being written.
LEMMA WriteStep ==
  ASSUME WireInv, WriteChunk
  PROVE  WireInv'
<1> USE DEF WireInv
<1>t. /\ msgs \in Seq(Message) /\ DOMAIN msgs = 1..Len(msgs) /\ Len(msgs) \in Nat
      /\ wire \in Seq(1..Len(msgs)) /\ DOMAIN wire = 1..Len(wire) /\ Len(wire) \in Nat
      /\ call \in [Senders -> 0..Len(msgs)] /\ taken \in 0..Len(msgs) /\ left \in Nat
      /\ \A m \in DOMAIN msgs : msgs[m].by \in Senders /\ msgs[m].chunks \in Nat
      /\ \A i \in DOMAIN wire : wire[i] \in 1..Len(msgs)
  BY WriterTypes
<1>1. /\ taken \in DOMAIN msgs /\ taken # 0 /\ left > 0 /\ left' = left - 1
      /\ wire' = Append(wire, taken)
      /\ UNCHANGED <<chunkStreams, call, taken, writer, done, net, msgs>>
  BY <1>t DEF WriteChunk, MoreChunks
<1>2. /\ wire' \in Seq(1..Len(msgs)) /\ DOMAIN wire' = 1..(Len(wire) + 1) /\ Len(wire') = Len(wire) + 1
      /\ wire'[Len(wire) + 1] = taken /\ \A i \in DOMAIN wire : wire'[i] = wire[i]
  <2> HIDE DEF WireInv
  <2>1. wire \in Seq(1..Len(msgs)) /\ DOMAIN wire = 1..Len(wire) /\ taken \in 1..Len(msgs)
    BY <1>1, <1>t DEF WireInv
  <2>2. wire' \in Seq(1..Len(msgs)) /\ Len(wire') = Len(wire) + 1
    BY <1>1, <2>1, AppendProperties
  <2> QED BY <1>1, <2>1, <2>2, AppendProperties, LenProperties
<1>3. /\ ChunksOf(taken)' = ChunksOf(taken) \cup {Len(wire) + 1} /\ Len(wire) + 1 \notin ChunksOf(taken)
      /\ \A m : m # taken => ChunksOf(m)' = ChunksOf(m)
  BY <1>1, <1>2, <1>t DEF ChunksOf
<1>4. Cardinality(ChunksOf(taken)') = Cardinality(ChunksOf(taken)) + 1
  BY <1>3, ChunksFinite, FS_AddElement
\* the goroutine that waits for the report, and its message
<1>5. PICK g \in Senders : call[g] = taken
  BY <1>1 DEF ReportIsAwaited
<1>6. /\ msgs[taken].by = g /\ msgs[taken].result = "none"
      /\ \A m \in (taken + 1)..Len(msgs) : msgs[m].by # g
  BY <1>1, <1>5 DEF CallsAreLatest, Calling
<1>7. TypeOK'
  BY <1>1, <1>2, <1>t DEF TypeOK
<1>8. ReportIsAwaited' /\ CallsAreLatest'
  BY <1>1 DEF ReportIsAwaited, CallsAreLatest, Calling
<1>9. OffersAreUnwritten'
  BY <1>1, <1>3 DEF OffersAreUnwritten, Calling
<1>10. TakenIsLast'
  <2>1. left' + Cardinality(ChunksOf(taken)') = msgs[taken].chunks
    BY <1>1, <1>4, ChunksFinite, <1>t DEF TakenIsLast
  <2>2. \A i \in ChunksOf(taken)' : \A k \in i..Len(wire') : wire'[k] = taken
    <3> SUFFICES ASSUME NEW i \in ChunksOf(taken)', NEW k \in i..Len(wire') PROVE wire'[k] = taken
      OBVIOUS
    <3>1. CASE k = Len(wire) + 1
      BY <1>2, <3>1
    <3>2. CASE k # Len(wire) + 1
      <4>1. i \in ChunksOf(taken) /\ i \in 1..Len(wire) /\ k \in i..Len(wire)
        BY <1>2, <1>3, <3>2, <1>t DEF ChunksOf
      <4> QED BY <1>1, <1>2, <4>1, <1>t DEF TakenIsLast
    <3> QED BY <3>1, <3>2
  <2> QED BY <1>1, <2>1, <2>2 DEF TakenIsLast
<1>11. ResultIsTrue'
  <2> SUFFICES ASSUME NEW m \in DOMAIN msgs
               PROVE  LET k == Cardinality(ChunksOf(m)') IN
                        /\ msgs[m].result = "ok" => k = msgs[m].chunks
                        /\ msgs[m].result \in {"closed", "invalid"} => k = 0
                        /\ msgs[m].result = "error" => k < msgs[m].chunks
    BY <1>1 DEF ResultIsTrue
  <2>1. CASE m = taken
    BY <1>6, <2>1
  <2>2. CASE m # taken
    BY <1>3, <2>2 DEF ResultIsTrue
  <2> QED BY <2>1, <2>2
<1>12. WireInOrder'
  <2> SUFFICES ASSUME NEW i \in DOMAIN wire', NEW j \in DOMAIN wire', i < j
               PROVE  /\ wire'[i] = wire'[j] => \A k \in i..j : wire'[k] = wire'[i]
                      /\ msgs[wire'[i]].by = msgs[wire'[j]].by => wire'[i] <= wire'[j]
    BY <1>1 DEF WireInOrder
  <2>1. i \in DOMAIN wire /\ wire'[i] = wire[i]
    BY <1>2, <1>t
  <2>2. CASE j \in DOMAIN wire
    <3>1. \A k \in i..j : k \in DOMAIN wire /\ wire'[k] = wire[k]
      <4> SUFFICES ASSUME NEW k \in i..j PROVE k \in DOMAIN wire /\ wire'[k] = wire[k]
        OBVIOUS
      <4>1. k \in DOMAIN wire
        BY <2>1, <2>2, <1>t
      <4> QED BY <4>1, <1>2
    <3> QED BY <1>2, <2>1, <2>2, <3>1, <1>t DEF WireInOrder
  <2>3. CASE j = Len(wire) + 1
    <3>1. wire'[j] = taken
      BY <1>2, <2>3
    <3>2. wire[i] = taken => \A k \in i..j : wire'[k] = wire'[i]
      <4> SUFFICES ASSUME wire[i] = taken, NEW k \in i..j PROVE wire'[k] = taken
        BY <2>1
      <4>1. i \in ChunksOf(taken)' /\ k \in i..Len(wire')
        BY <1>2, <2>1, <2>3, <1>3, <1>t DEF ChunksOf
      <4> QED BY <1>1, <1>10, <4>1 DEF TakenIsLast
    <3>3. msgs[wire[i]].by = msgs[taken].by => wire[i] <= taken
      BY <1>1, <1>6, <2>1, <1>t
    <3> QED BY <2>1, <3>1, <3>2, <3>3
  <2> QED BY <1>2, <2>2, <2>3, <1>t
<1> QED BY <1>7, <1>8, <1>9, <1>10, <1>11, <1>12

\* Any step of the writer, and a Send of a message of any length.
LEMMA WriterStep ==
  ASSUME WireInv,
         [Next]_vars \/ \E g \in Senders, cs, n \in Nat : Send(g, cs, n)
  PROVE  WireInv' /\ Len(msgs) <= Len(msgs')
<1>0. Len(msgs) \in Nat
  BY WriterTypes DEF WireInv
<1>1. ASSUME NEW g \in Senders, SendClosed(g) PROVE WireInv' /\ Len(msgs) <= Len(msgs')
  BY <1>1, ReplyStep DEF SendClosed, Results, WireInv, TypeOK
<1>2. ASSUME NEW g \in Senders, NEW cs, NEW n \in Nat, Send(g, cs, n)
      PROVE WireInv' /\ Len(msgs) <= Len(msgs')
  BY <1>2, SendStep
<1>3. ASSUME CreateChunkStream PROVE WireInv' /\ Len(msgs) <= Len(msgs')
  <2>1. TypeOK'
    BY <1>3, ChunkStreamWriterAssumption DEF CreateChunkStream, WireInv, TypeOK
  <2> QED BY <1>0, <1>3, <2>1, QuietStep DEF CreateChunkStream
<1>4. ASSUME NEW g \in Senders, Take(g) PROVE WireInv' /\ Len(msgs) <= Len(msgs')
  BY <1>0, <1>4, TakeStep DEF Take
<1>5. ASSUME WriteChunk PROVE WireInv' /\ Len(msgs) <= Len(msgs')
  BY <1>0, <1>5, WriteStep DEF WriteChunk
<1>6. ASSUME Written \/ WriteFails PROVE WireInv' /\ Len(msgs) <= Len(msgs')
  <2>1. /\ taken # 0 /\ UNCHANGED <<chunkStreams, writer, done, wire>> /\ net' \in {"up", "failed"}
        /\ (left = 0 /\ Report("ok")) \/ (left > 0 /\ Report("error"))
    BY <1>6 DEF Written, WriteFails, MoreChunks, WireInv, TypeOK
  <2>2. PICK g \in Senders : \E r \in {"ok", "error"} :
          /\ call[g] = taken /\ Return(g, r) /\ taken' = 0 /\ left' = 0
          /\ (r = "ok" /\ left = 0) \/ (r = "error" /\ left > 0)
    BY <2>1 DEF Report
  <2> QED BY <2>1, <2>2, ReplyStep DEF Calling, Results
<1>7. ASSUME WriterEnds \/ Close \/ FlushFails \/ UNCHANGED vars PROVE WireInv' /\ Len(msgs) <= Len(msgs')
  <2>1. TypeOK' /\ UNCHANGED <<call, taken, left, msgs, wire>>
    BY <1>7 DEF WriterEnds, Close, FlushFails, vars, WireInv, TypeOK
  <2> QED BY <1>0, <2>1, QuietStep
<1> QED BY <1>1, <1>2, <1>3, <1>4, <1>5, <1>6, <1>7, ChunkStreamWriterAssumption DEF Next, WriteTo

LEMMA SpecWireInv == Spec => []WireInv
<1>1. WireInv /\ [Next]_vars => WireInv'
  BY WriterStep
<1> QED BY <1>1, WireInit, PTL DEF Spec

\* Every variable keeps its type.
THEOREM WriterTypeCorrect == Spec => []TypeOK
<1>1. WireInv => TypeOK
  BY DEF WireInv
<1> QED BY <1>1, SpecWireInv, PTL

\* What Send (chunkstreamwriter.go:84-116) returns is true of the wire.
THEOREM ResultsAreTrue == Spec => []ResultIsTrue
<1>1. WireInv => ResultIsTrue
  BY DEF WireInv
<1> QED BY <1>1, SpecWireInv, PTL

\* Messages are whole on the wire, and those of a goroutine in the order it sent them.
THEOREM WireOrdered == Spec => []WireInOrder
<1>1. WireInv => WireInOrder
  BY DEF WireInv
<1> QED BY <1>1, SpecWireInv, PTL
=============================================================================
