----------------------------- MODULE ConnProofs -----------------------------
(* Theorems about Conn, for any number of messages and acknowledgements. *)
EXTENDS Conn, ChunkStreamWriterProofs

CallType == {"connect", "create", "destroy", "close"} \X Nat

\* What the calls depend on keeps its type.
CallsTyped ==
  /\ todo \in [Senders -> Seq(Steps)]
  /\ objects \in Nat
  /\ streams \in [Ids -> Nat]
  /\ calls \in Seq(CallType)

\* Only the reader calls the ConnHandler from its handlers.
AcksDoNotCall == \A a \in Acks : todo[a] \in Seq(Steps \ Callbacks)

\* waitClose gets to its clean-up only after ReadFrom has returned, and ReadFrom
\* returns between two handlers.
WaitsForReader ==
  /\ reader = "returned" => todo[Reader] = <<>>
  /\ "read" \in ended => reader = "returned"
  /\ ended \subseteq {"read", "write"}
  /\ waiter \in {"first", "closeSocket", "closeWriter", "second", "destroy", "ended"}
  /\ waiter \in {"closeSocket", "closeWriter", "second"} => ended # {}
  /\ waiter \in {"destroy", "ended"} => "read" \in ended

ClosedOnce == waiter # "ended" => At("close", 0) = {}

CloseInv == CallsTyped /\ AcksDoNotCall /\ WaitsForReader /\ ClosedOnce /\ NothingAfterClose

\* A call that is not OnClose keeps OnClose from having come; OnClose is last.
LEMMA AnotherCall ==
  ASSUME calls \in Seq(CallType), At("close", 0) = {},
         NEW name \in {"connect", "create", "destroy"}, NEW o \in Nat,
         calls' = Append(calls, <<name, o>>)
  PROVE  calls' \in Seq(CallType) /\ At("close", 0)' = {} /\ NothingAfterClose'
<1>1. <<name, o>> \in CallType /\ <<name, o>> # <<"close", 0>>
  BY DEF CallType
<1>2. calls' \in Seq(CallType)
  BY <1>1, AppendProperties
<1>3. ASSUME NEW i \in DOMAIN calls' PROVE calls'[i] # <<"close", 0>>
  <2>1. /\ DOMAIN calls' = 1..(Len(calls) + 1) /\ DOMAIN calls = 1..Len(calls)
        /\ Len(calls) \in Nat
    BY <1>1, AppendProperties, LenProperties
  <2>2. CASE i = Len(calls) + 1
    BY <1>1, <2>2, AppendProperties
  <2>3. CASE i # Len(calls) + 1
    <3>1. i \in DOMAIN calls /\ calls'[i] = calls[i]
      BY <1>1, <2>1, <2>3, AppendProperties
    <3> QED BY <3>1 DEF At
  <2> QED BY <2>2, <2>3
<1> QED BY <1>2, <1>3 DEF At, NothingAfterClose

\* What a goroutine does first is a step of its sequence.
LEMMA DoingStep ==
  ASSUME NEW S, NEW g \in Senders, todo[g] \in Seq(S), Doing(g) # "nothing"
  PROVE  todo[g] # <<>> /\ Doing(g) \in S /\ Tail(todo[g]) \in Seq(S)
BY HeadTailProperties DEF Doing

\* A handler goes on with steps of its own, or with Fatal.
LEMMA FailingSteps ==
  ASSUME NEW S, NEW g \in Senders, todo[g] \in Seq(S), "fatal" \in S, Doing(g) # "nothing"
  PROVE  Failing(g) \in Seq(S)
<1>1. Tail(todo[g]) \in Seq(S) /\ <<>> \in Seq(S) /\ <<"fatal">> \in Seq(S)
  BY DoingStep, EmptySeq
<1> QED BY <1>1, ConcatProperties DEF Failing

LEMMA CloseInit == ConnInit => CloseInv
BY ConnAssumption, EmptySeq
DEF ConnInit, CloseInv, CallsTyped, AcksDoNotCall, WaitsForReader, ClosedOnce, NothingAfterClose, At, Ids

\* A handler or an acknowledgement makes a step.
LEMMA HandlerStep ==
  ASSUME CloseInv, NEW g \in Senders, Handler(g)
  PROVE  CloseInv'
<1>1. Doing(g) # "nothing"
  BY DEF Handler, Succeeds, Fails, Fatal, Sending, Flushing
<1>2. /\ UNCHANGED <<calls, objects, streams, reader, waiter, ended>>
      /\ todo' = [todo EXCEPT ![g] = Tail(todo[g])] \/ todo' = [todo EXCEPT ![g] = Failing(g)]
  BY DEF Handler, Succeeds, Fails, Fatal, Goes, waitVars
<1>3. todo[g] # <<>>
  BY <1>1 DEF Doing
<1> DEFINE Keeps(S) == todo[g] \in Seq(S) => todo'[g] \in Seq(S)
<1>4. ASSUME NEW S, "fatal" \in S PROVE Keeps(S)
  <2> SUFFICES ASSUME todo[g] \in Seq(S) PROVE todo'[g] \in Seq(S)
    OBVIOUS
  <2>1. Tail(todo[g]) \in Seq(S) /\ Failing(g) \in Seq(S)
    BY <1>1, <1>4, DoingStep, FailingSteps
  <2> QED BY <1>2, <2>1 DEF CloseInv, CallsTyped
<1>5. CallsTyped'
  <2>1. todo[g] \in Seq(Steps) /\ "fatal" \in Steps
    BY DEF CloseInv, CallsTyped, Steps, Sending
  <2>2. Keeps(Steps)
    BY <1>4, <2>1
  <2>3. todo'[g] \in Seq(Steps)
    BY <2>1, <2>2
  <2> QED BY <1>2, <2>3 DEF CloseInv, CallsTyped
<1>6. AcksDoNotCall'
  <2> SUFFICES ASSUME NEW a \in Acks PROVE todo'[a] \in Seq(Steps \ Callbacks)
    BY DEF AcksDoNotCall
  <2>1. a \in Senders /\ "fatal" \in Steps \ Callbacks /\ todo[a] \in Seq(Steps \ Callbacks)
    BY ConnAssumption DEF Steps, Sending, Callbacks, CloseInv, AcksDoNotCall
  <2>2. CASE a = g
    <3>1. Keeps(Steps \ Callbacks)
      BY <1>4, <2>1
    <3> QED BY <2>1, <2>2, <3>1
  <2>3. CASE a # g
    BY <1>2, <2>1, <2>3 DEF CloseInv, CallsTyped
  <2> QED BY <2>2, <2>3
<1>7. WaitsForReader'
  <2>1. reader = "returned" => todo'[Reader] = <<>>
    BY <1>2, <1>3, ConnAssumption DEF CloseInv, WaitsForReader, CallsTyped
  <2> QED BY <1>2, <2>1 DEF CloseInv, WaitsForReader
<1>8. ClosedOnce' /\ NothingAfterClose'
  BY <1>2 DEF CloseInv, ClosedOnce, NothingAfterClose, At
<1> QED BY <1>5, <1>6, <1>7, <1>8 DEF CloseInv

\* A handler calls the ConnHandler: it is the reader's, which has not returned.
LEMMA CallbackStep ==
  ASSUME CloseInv, NEW g \in Senders, Callback(g)
  PROVE  CloseInv'
<1>1. Doing(g) # "nothing" /\ Doing(g) \in {"connect", "create"}
  BY DEF Callback, Callbacks
<1>2. g = Reader
  <2>1. g \notin Acks
    BY <1>1, DoingStep DEF CloseInv, AcksDoNotCall, Callbacks
  <2> QED BY <2>1, ConnAssumption
<1>3. reader # "returned" /\ waiter # "ended"
  BY <1>1, <1>2 DEF CloseInv, WaitsForReader, Doing
<1>4. calls' \in Seq(CallType) /\ At("close", 0)' = {} /\ NothingAfterClose'
  BY <1>1, <1>3, AnotherCall DEF Callback, CloseInv, CallsTyped, ClosedOnce
<1>5. /\ todo' = [todo EXCEPT ![g] = Tail(todo[g])]
      /\ UNCHANGED <<objects, streams, reader, waiter, ended>>
  BY DEF Callback, Goes, waitVars
<1>6. CallsTyped'
  BY <1>1, <1>4, <1>5, DoingStep DEF CloseInv, CallsTyped
<1>7. AcksDoNotCall' /\ WaitsForReader'
  BY <1>2, <1>3, <1>5, ConnAssumption DEF CloseInv, CallsTyped, AcksDoNotCall, WaitsForReader
<1> QED BY <1>4, <1>6, <1>7 DEF CloseInv, ClosedOnce

\* The reader handles a message.
LEMMA ReadStep ==
  ASSUME CloseInv, Read
  PROVE  CloseInv'
<1>1. /\ reader = "running" /\ UNCHANGED <<reader, waiter, ended>>
      /\ "read" \notin ended /\ waiter # "ended" /\ At("close", 0) = {}
  BY DEF Read, ReadConnect, ReadCommand, ReadRefused, ReadCreateStream, ReadCreateStreamRefused,
         ReadDeleteStream, WindowFull, Reads, Handles, CloseInv, WaitsForReader, ClosedOnce, waitVars
<1>2. \/ \E s \in Seq(Steps) : todo' = [todo EXCEPT ![Reader] = s]
      \/ \E a \in Acks : todo' = [todo EXCEPT ![a] = <<"ack", "flush">>]
  <2>1. /\ <<>> \in Seq(Steps) /\ <<"result">> \in Seq(Steps) /\ <<"fatal">> \in Seq(Steps)
        /\ <<"result", "begin", "create">> \in Seq(Steps)
        /\ <<"control", "control", "begin", "control", "result", "connect">> \in Seq(Steps)
    BY DEF Steps, Sending, Flushing, Callbacks
  <2> QED BY <2>1 DEF Read, ReadConnect, ReadCommand, ReadRefused, ReadCreateStream,
                 ReadCreateStreamRefused, ReadDeleteStream, WindowFull, Handles, Goes
<1>3. todo' \in [Senders -> Seq(Steps)]
  <2>1. <<"ack", "flush">> \in Seq(Steps)
    BY DEF Steps, Sending, Flushing
  <2> QED BY <1>2, <2>1 DEF CloseInv, CallsTyped
<1>4. AcksDoNotCall'
  <2>1. <<"ack", "flush">> \in Seq(Steps \ Callbacks)
    BY DEF Steps, Sending, Flushing, Callbacks
  <2> QED BY <1>2, <2>1, ConnAssumption DEF CloseInv, CallsTyped, AcksDoNotCall
<1>5. WaitsForReader'
  BY <1>1 DEF CloseInv, WaitsForReader
<1>6. objects' \in Nat /\ streams' \in [Ids -> Nat]
  <2>1. \/ UNCHANGED <<objects, streams>>
        \/ \E id \in Ids : Allocate(id)
        \/ objects' = objects /\ \E id \in Ids : DropStream(id)
    BY DEF Read, ReadConnect, ReadCommand, ReadRefused, ReadCreateStream, ReadCreateStreamRefused,
           ReadDeleteStream, WindowFull
  <2> QED BY <2>1 DEF Allocate, DropStream, CloseInv, CallsTyped
<1>7. calls' \in Seq(CallType) /\ At("close", 0)' = {} /\ NothingAfterClose'
  <2>1. CASE UNCHANGED calls
    BY <1>1, <2>1 DEF CloseInv, CallsTyped, At, NothingAfterClose
  <2>2. CASE \E id \in Ids : calls' = Append(calls, <<"destroy", streams[id]>>)
    BY <1>1, <2>2, AnotherCall DEF CloseInv, CallsTyped
  <2> QED BY <2>1, <2>2 DEF Read, ReadConnect, ReadCommand, ReadRefused, ReadCreateStream,
                       ReadCreateStreamRefused, ReadDeleteStream, WindowFull
<1> QED BY <1>3, <1>4, <1>5, <1>6, <1>7 DEF CloseInv, CallsTyped, ClosedOnce

\* waitClose makes a step.
LEMMA WaitStep ==
  ASSUME CloseInv, WaitClose
  PROVE  CloseInv'
<1>1. UNCHANGED <<todo, reader, objects, streams>>
  BY DEF WaitClose, Receive, CloseSocket, CloseWriter, DestroyStream, OnClose
<1>2. AcksDoNotCall'
  BY <1>1 DEF CloseInv, AcksDoNotCall
<1>3. ASSUME NEW x \in {"read", "write"}, Receive(x) PROVE CloseInv'
  <2>1. WaitsForReader' /\ (waiter' # "ended") /\ UNCHANGED calls /\ waiter # "ended"
    BY <1>1, <1>3 DEF Receive, CloseInv, WaitsForReader
  <2> QED BY <1>1, <1>2, <2>1 DEF CloseInv, CallsTyped, ClosedOnce, NothingAfterClose, At
<1>4. CASE CloseSocket \/ CloseWriter
  <2>1. WaitsForReader' /\ (waiter' # "ended") /\ UNCHANGED calls /\ waiter # "ended"
    BY <1>1, <1>4 DEF CloseSocket, CloseWriter, CloseInv, WaitsForReader
  <2> QED BY <1>1, <1>2, <2>1 DEF CloseInv, CallsTyped, ClosedOnce, NothingAfterClose, At
<1>5. CASE DestroyStream
  <2>1. PICK id \in Ids \ visited : calls' = Append(calls, <<"destroy", streams[id]>>)
    BY <1>5 DEF DestroyStream
  <2>2. calls' \in Seq(CallType) /\ At("close", 0)' = {} /\ NothingAfterClose'
    BY <1>5, <2>1, AnotherCall DEF DestroyStream, CloseInv, CallsTyped, ClosedOnce
  <2>3. WaitsForReader'
    BY <1>1, <1>5 DEF DestroyStream, CloseInv, WaitsForReader
  <2> QED BY <1>1, <1>2, <2>2, <2>3 DEF CloseInv, CallsTyped, ClosedOnce
<1>6. CASE OnClose
  <2>1. /\ calls' = Append(calls, <<"close", 0>>) /\ <<"close", 0>> \in CallType
        /\ calls \in Seq(CallType) /\ At("close", 0) = {}
    BY <1>6 DEF OnClose, CallType, CloseInv, CallsTyped, ClosedOnce
  <2>2. calls' \in Seq(CallType) /\ Len(calls') = Len(calls) + 1
    BY <2>1, AppendProperties
  <2>3. NothingAfterClose'
    <3> SUFFICES ASSUME NEW i \in DOMAIN calls', calls'[i] = <<"close", 0>> PROVE i = Len(calls')
      BY DEF NothingAfterClose, At
    <3>1. i \in 1..(Len(calls) + 1) /\ DOMAIN calls = 1..Len(calls) /\ Len(calls) \in Nat
      BY <2>1, <2>2, LenProperties
    <3>2. i # Len(calls) + 1 => i \in DOMAIN calls /\ calls'[i] = calls[i]
      BY <2>1, <3>1, AppendProperties
    <3> QED BY <2>1, <2>2, <3>1, <3>2 DEF At
  <2>4. WaitsForReader' /\ waiter' = "ended"
    BY <1>1, <1>6 DEF OnClose, CloseInv, WaitsForReader
  <2> QED BY <1>1, <1>2, <2>2, <2>3, <2>4 DEF CloseInv, CallsTyped, ClosedOnce
<1> QED BY <1>3, <1>4, <1>5, <1>6 DEF WaitClose

\* Nothing else touches what the calls depend on.
LEMMA OtherStep ==
  ASSUME CloseInv, UNCHANGED <<todo, reader, waiter, ended, streams, objects, calls>>
  PROVE  CloseInv'
BY DEF CloseInv, CallsTyped, AcksDoNotCall, WaitsForReader, ClosedOnce, NothingAfterClose, At

LEMMA CloseStep == CloseInv /\ [ConnNext]_allVars => CloseInv'
<1> SUFFICES ASSUME CloseInv, [ConnNext]_allVars PROVE CloseInv'
  OBVIOUS
<1>1. CASE Read
  BY <1>1, ReadStep
<1>2. CASE ReadEnds
  <2>1. WaitsForReader'
    BY <1>2 DEF ReadEnds, HandlerReturned, CloseInv, WaitsForReader, waitVars
  <2>2. UNCHANGED <<todo, waiter, streams, objects, calls>>
    BY <1>2 DEF ReadEnds, waitVars
  <2> QED BY <2>1, <2>2 DEF CloseInv, CallsTyped, AcksDoNotCall, ClosedOnce, NothingAfterClose, At
<1>3. CASE PeerLeaves \/ Writes \/ UNCHANGED allVars
  BY <1>3, OtherStep DEF PeerLeaves, Writes, allVars, connVars, waitVars
<1>4. CASE WaitClose
  BY <1>4, WaitStep
<1>5. ASSUME NEW g \in Senders, StartSend(g) \/ Refused(g) PROVE CloseInv'
  BY <1>5, OtherStep DEF StartSend, Refused, connVars, waitVars
<1>6. ASSUME NEW g \in Senders, Handler(g) PROVE CloseInv'
  BY <1>6, HandlerStep
<1>7. ASSUME NEW g \in Senders, Callback(g) PROVE CloseInv'
  BY <1>7, CallbackStep
<1> QED BY <1>1, <1>2, <1>3, <1>4, <1>5, <1>6, <1>7 DEF ConnNext

\* No call of the ConnHandler follows OnClose (conn.go:407-429).
THEOREM OnCloseIsLast == ConnSpec => []NothingAfterClose
<1>1. CloseInv => NothingAfterClose
  BY DEF CloseInv
<1> QED BY <1>1, CloseInit, CloseStep, PTL DEF ConnSpec

----------------------------------------------------------------------------
(* Types, the writer's included.                                           *)

\* A step of the connection is for its writer a step of WriteTo, of Close or of Send,
\* so the wire keeps its invariant.
LEMMA WriterOfConn ==
  ASSUME WireInv, [ConnNext]_allVars
  PROVE  WireInv' /\ Len(msgs) <= Len(msgs')
<1>1. ASSUME NEW g \in Senders, StartSend(g) PROVE \E h \in Senders, cs, n \in Nat : Send(h, cs, n)
  <2>1. Send(g, Control, 1) /\ Control \in Nat /\ 1 \in Nat
    BY <1>1, ConnAssumption, ChunkStreamWriterAssumption DEF StartSend
  <2> QED BY <2>1
<1>2. ASSUME NEW g \in Senders, Handler(g) PROVE [Next]_vars
  BY <1>2 DEF Handler, Succeeds, Fails, Fatal, Breaks, writerVars, Next
<1>3. ASSUME NEW g \in Senders, Callback(g) \/ Refused(g) PROVE [Next]_vars
  BY <1>3 DEF Callback, Refused, writerVars, Next
<1>4. ASSUME Read \/ ReadEnds \/ PeerLeaves PROVE [Next]_vars
  BY <1>4 DEF Read, ReadConnect, ReadCommand, ReadRefused, ReadCreateStream, ReadCreateStreamRefused,
     ReadDeleteStream, WindowFull, ReadEnds, PeerLeaves, writerVars, Next
<1>5. ASSUME Writes PROVE [Next]_vars
  BY <1>5 DEF Writes, Next, WriteTo
<1>6. ASSUME WaitClose PROVE [Next]_vars
  BY <1>6 DEF WaitClose, Receive, CloseSocket, CloseWriter, DestroyStream, OnClose, writerVars, Next
<1>7. ASSUME UNCHANGED allVars PROVE [Next]_vars
  BY <1>7 DEF allVars, writerVars
<1>8. [Next]_vars \/ \E g \in Senders, cs, n \in Nat : Send(g, cs, n)
  BY <1>1, <1>2, <1>3, <1>4, <1>5, <1>6, <1>7 DEF ConnNext
<1> QED BY <1>8, WriterStep

\* Handlers have six steps at most.
TodoOK == todo \in [Senders -> Seq(Steps)] /\ \A g \in Senders : Len(todo[g]) <= 6

LEMMA GoesTyped ==
  ASSUME TodoOK, NEW g \in Senders, NEW s \in Seq(Steps), Len(s) <= 6, todo' = [todo EXCEPT ![g] = s]
  PROVE  TodoOK'
BY DEF TodoOK

\* A failure takes the place of the step that failed.
LEMMA RestTyped ==
  ASSUME TodoOK, NEW g \in Senders, Doing(g) # "nothing"
  PROVE  /\ Tail(todo[g]) \in Seq(Steps) /\ Len(Tail(todo[g])) <= 6
         /\ Failing(g) \in Seq(Steps) /\ Len(Failing(g)) <= 6
<1>1. todo[g] \in Seq(Steps) /\ Len(todo[g]) <= 6 /\ todo[g] # <<>> /\ "fatal" \in Steps
  BY DEF TodoOK, Doing, Steps, Sending
<1>2. Len(todo[g]) \in Nat /\ Tail(todo[g]) \in Seq(Steps) /\ Len(Tail(todo[g])) = Len(todo[g]) - 1
  BY <1>1, HeadTailProperties, LenProperties
<1>3. Len(todo[g]) >= 1
  BY <1>1, <1>2, EmptySeq
<1>4. Failing(g) \in Seq(Steps)
  BY <1>1, FailingSteps
<1> DEFINE t == IF Doing(g) = "result" THEN <<>> ELSE Tail(todo[g])
<1>5. t \in Seq(Steps) /\ <<"fatal">> \in Seq(Steps) /\ Len(t) <= 5 /\ Len(t) \in Nat
  BY <1>1, <1>2, <1>3, EmptySeq
<1>6. Len(<<"fatal">> \o t) = 1 + Len(t)
  <2> HIDE DEF t
  <2> QED BY <1>5, ConcatProperties
<1> QED BY <1>2, <1>1, <1>4, <1>5, <1>6 DEF Failing

LEMMA TodoStep ==
  ASSUME TodoOK, [ConnNext]_allVars
  PROVE  TodoOK'
<1>1. ASSUME NEW g \in Senders, Handler(g) \/ Callback(g) PROVE TodoOK'
  <2>1. Doing(g) # "nothing"
    BY <1>1 DEF Handler, Succeeds, Fails, Fatal, Callback, Sending, Flushing, Callbacks
  <2>2. todo' = [todo EXCEPT ![g] = Tail(todo[g])] \/ todo' = [todo EXCEPT ![g] = Failing(g)]
    BY <1>1 DEF Handler, Succeeds, Fails, Fatal, Callback, Goes
  <2> QED BY <2>1, <2>2, RestTyped, GoesTyped
<1>2. ASSUME Read PROVE TodoOK'
  <2>1. /\ <<>> \in Seq(Steps) /\ <<"result">> \in Seq(Steps) /\ <<"fatal">> \in Seq(Steps)
        /\ <<"result", "begin", "create">> \in Seq(Steps) /\ <<"ack", "flush">> \in Seq(Steps)
        /\ <<"control", "control", "begin", "control", "result", "connect">> \in Seq(Steps)
    BY DEF Steps, Sending, Flushing, Callbacks
  <2>l. /\ Len(<<>>) <= 6 /\ Len(<<"result">>) <= 6 /\ Len(<<"fatal">>) <= 6
        /\ Len(<<"result", "begin", "create">>) <= 6 /\ Len(<<"ack", "flush">>) <= 6
        /\ Len(<<"control", "control", "begin", "control", "result", "connect">>) <= 6
    OBVIOUS
  <2>2. \E g \in Senders, s \in Seq(Steps) : Len(s) <= 6 /\ todo' = [todo EXCEPT ![g] = s]
    <3>1. CASE WindowFull
      BY <2>1, <2>l, <3>1, ConnAssumption DEF WindowFull, Goes
    <3>2. Reader \in Senders
      BY ConnAssumption
    <3>3. CASE ~WindowFull
      BY <1>2, <2>1, <2>l, <3>2, <3>3 DEF Read, ReadConnect, ReadCommand, ReadRefused, ReadCreateStream,
                 ReadCreateStreamRefused, ReadDeleteStream, Handles, Goes
    <3> QED BY <3>1, <3>3
  <2> QED BY <2>2, GoesTyped
<1>3. ASSUME UNCHANGED todo PROVE TodoOK'
  BY <1>3 DEF TodoOK
<1>4. (\E g \in Senders : Handler(g) \/ Callback(g)) \/ Read \/ UNCHANGED todo
  BY DEF ConnNext, StartSend, Refused, ReadEnds, PeerLeaves, Writes, WaitClose, Receive, CloseSocket,
         CloseWriter, DestroyStream, OnClose, allVars, connVars
<1> QED BY <1>1, <1>2, <1>3, <1>4

LEMMA CurStep ==
  ASSUME WireInv, cur \in [Senders -> 0..Len(msgs)], [ConnNext]_allVars
  PROVE  cur' \in [Senders -> 0..Len(msgs')]
<1>1. /\ msgs \in Seq(Message) /\ Len(msgs) \in Nat /\ Len(msgs') \in Nat /\ Len(msgs) <= Len(msgs')
  <2>1. WireInv' /\ Len(msgs) <= Len(msgs')
    BY WriterOfConn
  <2>2. msgs' \in Seq([by : Senders, chunks : Nat, result : Results])
    BY <2>1 DEF WireInv, TypeOK
  <2> QED BY <2>1, <2>2, WriterTypes, LenProperties DEF WireInv
<1>2. \/ UNCHANGED cur \/ \E g \in Senders : cur' = [cur EXCEPT ![g] = 0]
      \/ \E g \in Senders : Send(g, Control, 1) /\ cur' = [cur EXCEPT ![g] = Len(msgs) + 1]
  <2>1. ASSUME Read PROVE \E g \in Senders : cur' = [cur EXCEPT ![g] = 0]
    BY <2>1, ConnAssumption DEF Read, ReadConnect, ReadCommand, ReadRefused, ReadCreateStream,
       ReadCreateStreamRefused, ReadDeleteStream, WindowFull, Handles, Goes
  <2> QED BY <2>1 DEF ConnNext, StartSend, Handler, Succeeds, Fails, Fatal, Callback, Goes, Refused, ReadEnds,
             PeerLeaves, Writes, WaitClose, Receive, CloseSocket, CloseWriter, DestroyStream, OnClose,
             allVars, connVars
<1>3. ASSUME NEW g \in Senders, Send(g, Control, 1) PROVE Len(msgs') = Len(msgs) + 1
  <2>1. PICK r \in Results : msgs' = Append(msgs, [by |-> g, chunks |-> 1, result |-> r])
    BY <1>3 DEF Send, Results
  <2>2. [by |-> g, chunks |-> 1, result |-> r] \in Message
    BY DEF Message
  <2> QED BY <1>1, <2>1, <2>2, AppendProperties
<1>4. 0..Len(msgs) \subseteq 0..Len(msgs') /\ 0 \in 0..Len(msgs')
  BY <1>1
<1> QED BY <1>1, <1>2, <1>3, <1>4

\* The tables and the history of the calls.
TablesOK ==
  /\ objects \in Nat /\ streams \in [Ids -> 0..objects]
  /\ calls \in Seq((Callbacks \cup {"destroy", "close"}) \X (0..objects))

LEMMA CallTyped ==
  ASSUME TablesOK, NEW name \in Callbacks \cup {"destroy", "close"}, NEW o \in 0..objects,
         calls' = Append(calls, <<name, o>>), UNCHANGED objects
  PROVE  calls' \in Seq((Callbacks \cup {"destroy", "close"}) \X (0..objects'))
BY AppendProperties DEF TablesOK

LEMMA TablesStep ==
  ASSUME TablesOK, [ConnNext]_allVars
  PROVE  TablesOK'
<1>1. ASSUME NEW g \in Senders, Callback(g) PROVE TablesOK'
  <2>1. /\ calls' = Append(calls, <<Doing(g), objects>>) /\ UNCHANGED <<objects, streams>>
        /\ Doing(g) \in Callbacks \cup {"destroy", "close"} /\ objects \in 0..objects
    BY <1>1 DEF Callback, TablesOK
  <2> QED BY <2>1, CallTyped DEF TablesOK
<1>2. ASSUME ReadCreateStream PROVE TablesOK'
  <2>1. PICK id \in Ids : objects' = objects + 1 /\ streams' = [streams EXCEPT ![id] = objects + 1]
    BY <1>2 DEF ReadCreateStream, Allocate
  <2>2. UNCHANGED calls
    BY <1>2 DEF ReadCreateStream
  <2>3. 0..objects \subseteq 0..objects' /\ objects + 1 \in 0..objects' /\ objects' \in Nat
    BY <2>1 DEF TablesOK
  <2>4. streams' \in [Ids -> 0..objects']
    BY <2>1, <2>3 DEF TablesOK
  <2>5. calls' \in Seq((Callbacks \cup {"destroy", "close"}) \X (0..objects'))
    <3>1. (Callbacks \cup {"destroy", "close"}) \X (0..objects)
            \subseteq (Callbacks \cup {"destroy", "close"}) \X (0..objects')
      BY <2>3
    <3> QED BY <2>2, <3>1, SeqMonotonic DEF TablesOK
  <2> QED BY <2>3, <2>4, <2>5 DEF TablesOK
<1>3. ASSUME ReadDeleteStream \/ DestroyStream PROVE TablesOK'
  <2>1. PICK id \in Ids : /\ calls' = Append(calls, <<"destroy", streams[id]>>)
                          /\ streams' = [streams EXCEPT ![id] = 0] \/ UNCHANGED streams
    BY <1>3 DEF ReadDeleteStream, DestroyStream, DropStream
  <2>2. UNCHANGED objects
    BY <1>3 DEF ReadDeleteStream, DestroyStream
  <2>3. streams[id] \in 0..objects /\ streams' \in [Ids -> 0..objects]
    BY <2>1, SMTT(30) DEF TablesOK
  <2> QED BY <2>1, <2>2, <2>3, CallTyped DEF TablesOK
<1>4. ASSUME OnClose PROVE TablesOK'
  <2>1. calls' = Append(calls, <<"close", 0>>) /\ UNCHANGED <<objects, streams>> /\ 0 \in 0..objects
    BY <1>4 DEF OnClose, TablesOK
  <2> QED BY <2>1, CallTyped DEF TablesOK
<1>5. ASSUME UNCHANGED <<objects, streams, calls>> PROVE TablesOK'
  BY <1>5 DEF TablesOK
<1>6. \/ (\E g \in Senders : Callback(g)) \/ ReadCreateStream \/ ReadDeleteStream \/ DestroyStream \/ OnClose
      \/ UNCHANGED <<objects, streams, calls>>
  BY DEF ConnNext, StartSend, Handler, Succeeds, Fails, Fatal, Refused, Read, ReadConnect, ReadCommand, ReadRefused,
         ReadCreateStreamRefused, WindowFull, ReadEnds, PeerLeaves, Writes, WaitClose, Receive, CloseSocket,
         CloseWriter, allVars, connVars
<1> QED BY <1>1, <1>2, <1>3, <1>4, <1>5, <1>6

\* What waitClose and the socket are may change, but not their types.
StatesOK ==
  /\ socket \in {"open", "closed"} /\ peer \in {"there", "gone"}
  /\ reader \in {"running", "returned"}
  /\ waiter \in {"first", "closeSocket", "closeWriter", "second", "destroy", "ended"}
  /\ ended \subseteq {"read", "write"} /\ visited \subseteq Ids

LEMMA StatesStep ==
  ASSUME StatesOK, [ConnNext]_allVars
  PROVE  StatesOK'
<1>1. ASSUME NEW g \in Senders, StartSend(g) \/ Handler(g) \/ Callback(g) \/ Refused(g) PROVE StatesOK'
  BY <1>1 DEF StartSend, Handler, Succeeds, Fails, Fatal, Callback, Refused, connVars, waitVars, StatesOK
<1>2. ASSUME Read PROVE StatesOK'
  BY <1>2 DEF Read, ReadConnect, ReadCommand, ReadRefused, ReadCreateStream, ReadCreateStreamRefused,
     ReadDeleteStream, WindowFull, Handles, waitVars, StatesOK
<1>3. ASSUME WaitClose PROVE StatesOK'
  BY <1>3 DEF WaitClose, Receive, CloseSocket, ShutSocket, CloseWriter, DestroyStream, OnClose, StatesOK
<1>4. ASSUME ReadEnds \/ PeerLeaves \/ Writes \/ UNCHANGED allVars PROVE StatesOK'
  BY <1>4 DEF ReadEnds, PeerLeaves, Writes, allVars, connVars, waitVars, StatesOK
<1> QED BY <1>1, <1>2, <1>3, <1>4 DEF ConnNext

LEMMA ConnTypeParts ==
  ConnTypeOK <=> TypeOK /\ TodoOK /\ cur \in [Senders -> 0..Len(msgs)] /\ StatesOK
                 /\ streams \in [Ids -> 0..objects]
                 /\ calls \in Seq((Callbacks \cup {"destroy", "close"}) \X (0..objects))
BY DEF ConnTypeOK, TodoOK, StatesOK

\* The invariant of the types is of the connection and of its writer together.
ConnTypeInv == WireInv /\ ConnTypeOK /\ objects \in Nat

LEMMA ConnTypeInit == ConnInit => ConnTypeInv
<1> SUFFICES ASSUME ConnInit PROVE ConnTypeInv
  OBVIOUS
<1>1. WireInv /\ TypeOK
  BY WireInit DEF ConnInit, WireInv
<1>2. TodoOK
  BY EmptySeq DEF ConnInit, TodoOK
<1>3. StatesOK
  BY DEF ConnInit, StatesOK
<1>4. TablesOK
  BY EmptySeq DEF ConnInit, TablesOK
<1>5. cur \in [Senders -> 0..Len(msgs)]
  BY <1>1, WriterTypes DEF ConnInit
<1> QED BY <1>1, <1>2, <1>3, <1>4, <1>5, ConnTypeParts DEF ConnTypeInv, TablesOK

LEMMA ConnTypeStep == ConnTypeInv /\ [ConnNext]_allVars => ConnTypeInv'
<1> SUFFICES ASSUME ConnTypeInv, [ConnNext]_allVars PROVE ConnTypeInv'
  OBVIOUS
<1>1. WireInv' /\ TypeOK'
  BY WriterOfConn DEF ConnTypeInv, WireInv
<1>2. TodoOK'
  BY TodoStep, ConnTypeParts DEF ConnTypeInv
<1>3. StatesOK'
  BY StatesStep, ConnTypeParts DEF ConnTypeInv
<1>4. TablesOK'
  BY TablesStep, ConnTypeParts DEF ConnTypeInv, TablesOK
<1>5. cur' \in [Senders -> 0..Len(msgs')]
  BY CurStep, ConnTypeParts DEF ConnTypeInv
<1>6. ConnTypeOK'
  BY <1>1, <1>2, <1>3, <1>4, <1>5, ConnTypeParts DEF ConnTypeOK, TodoOK, StatesOK, TablesOK
<1> QED BY <1>1, <1>4, <1>6 DEF ConnTypeInv, TablesOK

\* Every variable of a connection and of its writer keeps its type, and no failure gives
\* a handler more steps than it had.
THEOREM ConnTypeCorrect == ConnSpec => []ConnTypeOK
<1>1. ConnTypeInv => ConnTypeOK
  BY DEF ConnTypeInv
<1> QED BY <1>1, ConnTypeInit, ConnTypeStep, PTL DEF ConnSpec

\* In a connection too, where Send meets handlers, acknowledgements, Fatal and waitClose,
\* the writer keeps its promises: its results are true of the wire, messages are in order,
\* and the message being written has its Send waiting.
THEOREM ConnKeepsWriter == ConnSpec => [](ResultIsTrue /\ WireInOrder /\ ReportIsAwaited)
<1>1. ConnTypeInv => ResultIsTrue /\ WireInOrder /\ ReportIsAwaited
  BY DEF ConnTypeInv, WireInv
<1> QED BY <1>1, ConnTypeInit, ConnTypeStep, PTL DEF ConnSpec

----------------------------------------------------------------------------
(* The end of every stream object.                                         *)

\* An object is in the table, and not visited by waitClose, exactly as long as the
\* server has not been told of its end; no two ids have the same object.
Distinct      == \A i, j \in Ids : streams[i] # 0 /\ streams[i] = streams[j] => i = j
LiveInTable   == \A o \in 1..objects : At("destroy", o) = {} <=> \E id \in Ids \ visited : streams[id] = o
AtMostOnce    == \A o \in 1..objects : \A i, j \in At("destroy", o) : i = j
CreatedFirst  == \A o \in 1..objects : \A i \in At("create", o), j \in At("destroy", o) : i < j
\* A handler that has still to call OnCreateStream has made the last object, which lives.
CreateIsFresh == todo[Reader] \in Seq(Steps \ {"create"}) \/ At("destroy", objects) = {}
VisitedLate   == visited # {} => waiter \in {"destroy", "ended"}
AllVisited    == waiter = "ended" => \A id \in Ids \ visited : streams[id] = 0

DestroyInv ==
  /\ Distinct /\ LiveInTable /\ AtMostOnce /\ CreatedFirst
  /\ CreateIsFresh /\ VisitedLate /\ AllVisited

\* A call is added to those of its name and object, as the last.
LEMMA CallAdded ==
  ASSUME NEW S, calls \in Seq(S), NEW name, NEW o, <<name, o>> \in S, calls' = Append(calls, <<name, o>>)
  PROVE  /\ Len(calls) \in Nat
         /\ \A n, x : At(n, x) \subseteq 1..Len(calls)
         /\ At(name, o)' = At(name, o) \cup {Len(calls) + 1}
         /\ \A n, x : <<n, x>> # <<name, o>> => At(n, x)' = At(n, x)
<1>1. DOMAIN calls = 1..Len(calls) /\ Len(calls) \in Nat
  BY LenProperties
<1>2. /\ DOMAIN calls' = 1..(Len(calls) + 1) /\ calls'[Len(calls) + 1] = <<name, o>>
      /\ \A i \in 1..Len(calls) : calls'[i] = calls[i]
  <2>1. calls' \in Seq(S) /\ Len(calls') = Len(calls) + 1
    BY AppendProperties
  <2> QED BY <2>1, AppendProperties, LenProperties
<1> QED BY <1>1, <1>2 DEF At

\* The objects of the calls are those that were made.
LEMMA ObjectsOfCalls ==
  ASSUME TablesOK, NEW name, NEW o, At(name, o) # {}
  PROVE  o \in 0..objects
<1>1. PICK i \in DOMAIN calls : calls[i] = <<name, o>>
  BY DEF At
<1>2. calls[i] \in (Callbacks \cup {"destroy", "close"}) \X (0..objects)
  BY <1>1, ElementOfSeq, LenProperties DEF TablesOK
<1> QED BY <1>1, <1>2

LEMMA DestroyInit == ConnInit => DestroyInv
<1> SUFFICES ASSUME ConnInit PROVE DestroyInv
  OBVIOUS
<1>1. At("destroy", objects) = {} /\ objects = 0 /\ 1..objects = {}
  BY DEF ConnInit, At
<1>2. \A id \in Ids : streams[id] = 0
  BY DEF ConnInit
<1>3. visited = {} /\ waiter = "first"
  BY DEF ConnInit
<1> QED BY <1>1, <1>2, <1>3 DEF DestroyInv, Distinct, LiveInTable, AtMostOnce, CreatedFirst, CreateIsFresh, VisitedLate, AllVisited

\* waitClose or deleteStream takes an object out of the table and reports its end.
LEMMA DestroyOne ==
  ASSUME DestroyInv, TablesOK, NEW id \in Ids \ visited, streams[id] # 0,
         calls' = Append(calls, <<"destroy", streams[id]>>), UNCHANGED objects,
         \/ streams' = [streams EXCEPT ![id] = 0] /\ UNCHANGED visited
         \/ visited' = visited \cup {id} /\ UNCHANGED streams
  PROVE  Distinct' /\ LiveInTable' /\ AtMostOnce' /\ CreatedFirst'
<1>0. PICK o : o = streams[id]
  OBVIOUS
<1>1. o \in 1..objects /\ o = streams[id] /\ At("destroy", o) = {} /\ streams \in [Ids -> 0..objects]
  BY <1>0 DEF DestroyInv, LiveInTable, TablesOK
<1>2. <<"destroy", o>> \in (Callbacks \cup {"destroy", "close"}) \X (0..objects)
  BY <1>1
<1>3. /\ Len(calls) \in Nat /\ \A n, x : At(n, x) \subseteq 1..Len(calls)
      /\ At("destroy", o)' = {Len(calls) + 1}
      /\ \A n, x : <<n, x>> # <<"destroy", o>> => At(n, x)' = At(n, x)
  <2>1. calls \in Seq((Callbacks \cup {"destroy", "close"}) \X (0..objects))
    BY DEF TablesOK
  <2>2. calls' = Append(calls, <<"destroy", o>>)
    BY <1>0
  <2>3. /\ Len(calls) \in Nat /\ \A n, x : At(n, x) \subseteq 1..Len(calls)
        /\ At("destroy", o)' = At("destroy", o) \cup {Len(calls) + 1}
        /\ \A n, x : <<n, x>> # <<"destroy", o>> => At(n, x)' = At(n, x)
    BY <1>2, <2>1, <2>2, CallAdded
  <2> QED BY <1>1, <2>3
<1>4. \A x \in 1..objects : x # o => At("destroy", x)' = At("destroy", x)
  BY <1>3
<1>5. \A x \in 1..objects : At("create", x)' = At("create", x)
  BY <1>3
<1>6. Distinct'
  BY <1>1 DEF DestroyInv, Distinct
<1>7. LiveInTable'
  <2> SUFFICES ASSUME NEW x \in 1..objects
               PROVE  At("destroy", x)' = {} <=> \E d \in Ids \ visited' : streams'[d] = x
    BY DEF LiveInTable
  <2>1. CASE x = o
    <3>1. At("destroy", x)' # {}
      BY <1>3, <2>1
    <3>2. \A d \in Ids : d # id => streams[d] # o
      BY <1>1 DEF DestroyInv, Distinct
    <3>3. \A d \in Ids \ visited' : streams'[d] # x
      BY <1>1, <2>1, <3>2
    <3> QED BY <3>1, <3>3
  <2>2. CASE x # o
    <3>1. At("destroy", x)' = {} <=> \E d \in Ids \ visited : streams[d] = x
      BY <1>4, <2>2 DEF DestroyInv, LiveInTable
    <3>2. \A d \in Ids : (d \notin visited /\ streams[d] = x) <=> (d \notin visited' /\ streams'[d] = x)
      BY <1>1, <2>2
    <3> QED BY <3>1, <3>2
  <2> QED BY <2>1, <2>2
<1>8. AtMostOnce'
  <2> SUFFICES ASSUME NEW x \in 1..objects, NEW i \in At("destroy", x)', NEW j \in At("destroy", x)'
               PROVE  i = j
    BY DEF AtMostOnce
  <2>1. CASE x = o
    BY <1>3, <2>1
  <2>2. CASE x # o
    BY <1>4, <2>2 DEF DestroyInv, AtMostOnce
  <2> QED BY <2>1, <2>2
<1>9. CreatedFirst'
  <2> SUFFICES ASSUME NEW x \in 1..objects, NEW i \in At("create", x)', NEW j \in At("destroy", x)'
               PROVE  i < j
    BY DEF CreatedFirst
  <2>1. i \in At("create", x) /\ i \in 1..Len(calls)
    BY <1>3, <1>5
  <2>2. CASE x = o
    <3>1. j = Len(calls) + 1
      BY <1>3, <2>2 DEF At
    <3> QED BY <1>3, <2>1, <3>1
  <2>3. CASE x # o
    BY <1>4, <2>1, <2>3 DEF DestroyInv, CreatedFirst
  <2> QED BY <2>2, <2>3
<1> QED BY <1>6, <1>7, <1>8, <1>9

\* A handler makes a step: only what it has still to do changes.
LEMMA DestroyHandler ==
  ASSUME DestroyInv, ConnTypeInv, NEW g \in Senders, Handler(g)
  PROVE  DestroyInv'
<1>1. /\ UNCHANGED <<streams, objects, visited, waiter, calls>>
      /\ todo' = [todo EXCEPT ![g] = Tail(todo[g])] \/ todo' = [todo EXCEPT ![g] = Failing(g)]
      /\ Doing(g) # "nothing"
  BY DEF Handler, Succeeds, Fails, Fatal, Goes, waitVars, Sending, Flushing
<1>2. \A n, x : At(n, x)' = At(n, x)
  BY <1>1 DEF At
<1>3. CreateIsFresh'
  <2>1. CASE todo[Reader] \in Seq(Steps \ {"create"})
    <3>1. "fatal" \in Steps \ {"create"} /\ todo \in [Senders -> Seq(Steps)] /\ Reader \in Senders
      BY ConnAssumption DEF Steps, Sending, ConnTypeInv, ConnTypeOK
    <3>2. CASE g # Reader
      BY <1>1, <2>1, <3>1, <3>2 DEF CreateIsFresh
    <3>3. CASE g = Reader
      <4>1. Tail(todo[g]) \in Seq(Steps \ {"create"}) /\ Failing(g) \in Seq(Steps \ {"create"})
        BY <1>1, <2>1, <3>1, <3>3, DoingStep, FailingSteps
      <4> QED BY <1>1, <3>1, <3>3, <4>1 DEF CreateIsFresh
    <3> QED BY <3>2, <3>3
  <2>2. CASE At("destroy", objects) = {}
    BY <1>1, <1>2, <2>2 DEF CreateIsFresh
  <2> QED BY <2>1, <2>2 DEF DestroyInv, CreateIsFresh
<1>4. Distinct' /\ LiveInTable' /\ AtMostOnce' /\ CreatedFirst'
  BY <1>1, <1>2 DEF DestroyInv, Distinct, LiveInTable, AtMostOnce, CreatedFirst
<1> QED BY <1>1, <1>3, <1>4 DEF DestroyInv, VisitedLate, AllVisited

\* The reader calls OnConnect or OnCreateStream, of an object whose end nobody was told.
LEMMA DestroyCallback ==
  ASSUME DestroyInv, ConnTypeInv, CloseInv, NEW g \in Senders, Callback(g)
  PROVE  DestroyInv'
<1>1. /\ UNCHANGED <<streams, objects, visited, waiter>> /\ Doing(g) \in {"connect", "create"}
      /\ calls' = Append(calls, <<Doing(g), objects>>) /\ todo' = [todo EXCEPT ![g] = Tail(todo[g])]
  BY DEF Callback, Goes, waitVars, Callbacks
<1>2. g = Reader /\ Reader \in Senders
  <2>1. g \notin Acks
    BY <1>1, DoingStep DEF CloseInv, AcksDoNotCall, Callbacks
  <2> QED BY <2>1, ConnAssumption
<1>3. TablesOK /\ todo \in [Senders -> Seq(Steps)]
  BY DEF ConnTypeInv, ConnTypeOK, TablesOK
<1>4. /\ Len(calls) \in Nat /\ \A n, x : At(n, x) \subseteq 1..Len(calls)
      /\ \A n, x : <<n, x>> # <<Doing(g), objects>> => At(n, x)' = At(n, x)
  <2>1. PICK name, o : name = Doing(g) /\ o = objects
    OBVIOUS
  <2>2. <<name, o>> \in (Callbacks \cup {"destroy", "close"}) \X (0..objects)
    BY <1>1, <1>3, <2>1 DEF Callbacks, TablesOK
  <2>3. calls' = Append(calls, <<name, o>>)
    BY <1>1, <2>1
  <2>4. /\ Len(calls) \in Nat /\ \A n, x : At(n, x) \subseteq 1..Len(calls)
        /\ \A n, x : <<n, x>> # <<name, o>> => At(n, x)' = At(n, x)
    <3>1. calls \in Seq((Callbacks \cup {"destroy", "close"}) \X (0..objects))
      BY <1>3 DEF TablesOK
    <3>2. PICK S : S = (Callbacks \cup {"destroy", "close"}) \X (0..objects)
      OBVIOUS
    <3>3. calls \in Seq(S) /\ <<name, o>> \in S
      BY <2>2, <3>1, <3>2
    <3> QED BY <2>3, <3>3, CallAdded
  <2> QED BY <2>1, <2>4
<1>5. \A x : At("destroy", x)' = At("destroy", x)
  BY <1>1, <1>4
<1>6. Doing(g) = "create" => At("destroy", objects) = {}
  <2> SUFFICES ASSUME Doing(g) = "create", todo[Reader] \in Seq(Steps \ {"create"}) PROVE FALSE
    BY DEF DestroyInv, CreateIsFresh
  <2> QED BY <1>2, DoingStep
<1>7. CreatedFirst'
  <2> SUFFICES ASSUME NEW x \in 1..objects, NEW i \in At("create", x)', NEW j \in At("destroy", x)'
               PROVE  i < j
    BY <1>1 DEF CreatedFirst
  <2>1. j \in At("destroy", x)
    BY <1>5
  <2>2. <<"create", x>> # <<Doing(g), objects>>
    BY <1>6, <2>1
  <2> QED BY <1>4, <2>1, <2>2 DEF DestroyInv, CreatedFirst
<1>8. CreateIsFresh'
  <2>1. CASE todo[Reader] \in Seq(Steps \ {"create"})
    <3>1. Tail(todo[g]) \in Seq(Steps \ {"create"})
      BY <1>1, <1>2, <2>1, DoingStep
    <3> QED BY <1>1, <1>2, <1>3, <3>1 DEF CreateIsFresh
  <2>2. CASE At("destroy", objects) = {}
    BY <1>1, <1>5, <2>2 DEF CreateIsFresh
  <2> QED BY <2>1, <2>2 DEF DestroyInv, CreateIsFresh
<1>9. Distinct' /\ LiveInTable' /\ AtMostOnce'
  BY <1>1, <1>5 DEF DestroyInv, Distinct, LiveInTable, AtMostOnce
<1> QED BY <1>1, <1>7, <1>8, <1>9 DEF DestroyInv, VisitedLate, AllVisited

\* The reader handles a message; waitClose has not come to the streams yet.
LEMMA DestroyRead ==
  ASSUME DestroyInv, ConnTypeInv, CloseInv, Read
  PROVE  DestroyInv'
<1>1. /\ reader = "running" /\ UNCHANGED <<waiter, visited>> /\ todo[Reader] = <<>>
      /\ waiter \notin {"destroy", "ended"} /\ visited = {}
  <2>1. reader = "running" /\ UNCHANGED <<waiter, visited>> /\ todo[Reader] = <<>>
    BY DEF Read, ReadConnect, ReadCommand, ReadRefused, ReadCreateStream, ReadCreateStreamRefused,
           ReadDeleteStream, WindowFull, Reads, HandlerReturned, Handles, waitVars
  <2> QED BY <2>1 DEF CloseInv, WaitsForReader, DestroyInv, VisitedLate
<1>2. TablesOK /\ todo \in [Senders -> Seq(Steps)] /\ Reader \in Senders
  BY ConnAssumption DEF ConnTypeInv, ConnTypeOK, TablesOK
<1>3. VisitedLate' /\ AllVisited'
  BY <1>1 DEF VisitedLate, AllVisited
<1>4. CASE ReadCreateStream
  <2>1. PICK id \in Ids : /\ streams[id] = 0 /\ objects' = objects + 1
                          /\ streams' = [streams EXCEPT ![id] = objects + 1]
    BY <1>4 DEF ReadCreateStream, Allocate
  <2>2. UNCHANGED calls /\ \A n, x : At(n, x)' = At(n, x)
    BY <1>4 DEF ReadCreateStream, At
  <2>3. objects \in Nat /\ streams \in [Ids -> 0..objects]
    BY <1>2 DEF TablesOK
  <2>4. \A n : At(n, objects + 1) = {}
    <3>1. objects + 1 \notin 0..objects
      BY <2>3
    <3> QED BY <1>2, <3>1, ObjectsOfCalls
  <2>5. CreateIsFresh'
    BY <2>1, <2>2, <2>4 DEF CreateIsFresh
  <2>6. Distinct'
    BY <2>1, <2>3 DEF DestroyInv, Distinct
  <2>7. LiveInTable'
    <3> SUFFICES ASSUME NEW x \in 1..(objects + 1)
                 PROVE  At("destroy", x) = {} <=> \E d \in Ids \ visited : streams'[d] = x
      BY <1>1, <2>1, <2>2 DEF LiveInTable
    <3>1. CASE x = objects + 1
      BY <1>1, <2>1, <2>3, <2>4, <3>1
    <3>2. CASE x # objects + 1
      <4>1. x \in 1..objects
        BY <2>3, <3>2
      <4>2. \A d \in Ids : streams'[d] = x <=> streams[d] = x
        BY <2>1, <2>3, <3>2, <4>1
      <4> QED BY <4>1, <4>2 DEF DestroyInv, LiveInTable
    <3> QED BY <3>1, <3>2
  <2>8. AtMostOnce' /\ CreatedFirst'
    <3>1. ASSUME NEW x \in 1..(objects + 1), At("destroy", x) # {} PROVE x \in 1..objects
      <4>1. x # objects + 1
        BY <2>4, <3>1
      <4> QED BY <2>3, <4>1
    <3>2. AtMostOnce'
      BY <2>1, <2>2, <3>1 DEF DestroyInv, AtMostOnce
    <3>3. CreatedFirst'
      BY <2>1, <2>2, <3>1 DEF DestroyInv, CreatedFirst
    <3> QED BY <3>2, <3>3
  <2> QED BY <1>3, <2>5, <2>6, <2>7, <2>8 DEF DestroyInv
<1>5. CASE ReadDeleteStream
  <2>1. PICK id \in Ids : /\ streams[id] # 0 /\ streams' = [streams EXCEPT ![id] = 0]
                          /\ calls' = Append(calls, <<"destroy", streams[id]>>)
    BY <1>5 DEF ReadDeleteStream, DropStream
  <2>2. UNCHANGED <<objects, visited>>
    BY <1>1, <1>5 DEF ReadDeleteStream
  <2>3. Distinct' /\ LiveInTable' /\ AtMostOnce' /\ CreatedFirst'
    BY <1>1, <1>2, <2>1, <2>2, DestroyOne
  <2>4. CreateIsFresh'
    <3>1. todo' = [todo EXCEPT ![Reader] = <<>>]
      BY <1>5 DEF ReadDeleteStream, Handles, Goes
    <3> QED BY <1>2, <3>1, EmptySeq DEF CreateIsFresh
  <2> QED BY <1>3, <2>3, <2>4 DEF DestroyInv
<1>6. CASE ~ReadCreateStream /\ ~ReadDeleteStream
  <2>1. UNCHANGED <<streams, objects, calls>>
    BY <1>6 DEF Read, ReadConnect, ReadCommand, ReadRefused, ReadCreateStreamRefused, WindowFull
  <2>2. \A n, x : At(n, x)' = At(n, x)
    BY <2>1 DEF At
  <2>3. CreateIsFresh'
    <3>1. /\ <<"result">> \in Seq(Steps \ {"create"}) /\ <<"fatal">> \in Seq(Steps \ {"create"})
          /\ <<"control", "control", "begin", "control", "result", "connect">> \in Seq(Steps \ {"create"})
          /\ <<>> \in Seq(Steps \ {"create"})
      BY DEF Steps, Sending, Flushing, Callbacks
    <3>2. \/ \E s \in Seq(Steps \ {"create"}) : todo' = [todo EXCEPT ![Reader] = s]
          \/ \E a \in Acks : todo' = [todo EXCEPT ![a] = <<"ack", "flush">>]
      BY <1>6, <3>1 DEF Read, ReadConnect, ReadCommand, ReadRefused, ReadCreateStreamRefused, WindowFull, Handles, Goes
    <3>3. todo'[Reader] \in Seq(Steps \ {"create"})
      BY <1>1, <1>2, <3>1, <3>2, ConnAssumption
    <3> QED BY <3>3 DEF CreateIsFresh
  <2>4. Distinct' /\ LiveInTable' /\ AtMostOnce' /\ CreatedFirst'
    BY <1>1, <2>1, <2>2 DEF DestroyInv, Distinct, LiveInTable, AtMostOnce, CreatedFirst
  <2> QED BY <1>3, <2>3, <2>4 DEF DestroyInv
<1> QED BY <1>4, <1>5, <1>6

\* waitClose makes a step; from its loop over the streams on, the reader has returned.
LEMMA DestroyWait ==
  ASSUME DestroyInv, ConnTypeInv, CloseInv, WaitClose
  PROVE  DestroyInv'
<1>1. UNCHANGED <<todo, streams, objects>>
  BY DEF WaitClose, Receive, CloseSocket, CloseWriter, DestroyStream, OnClose
<1>2. TablesOK
  BY DEF ConnTypeInv, ConnTypeOK, TablesOK
<1>3. CASE DestroyStream
  <2>1. PICK id \in Ids \ visited : /\ streams[id] # 0 /\ visited' = visited \cup {id}
                                    /\ calls' = Append(calls, <<"destroy", streams[id]>>)
    BY <1>3 DEF DestroyStream
  <2>2. Distinct' /\ LiveInTable' /\ AtMostOnce' /\ CreatedFirst'
    BY <1>1, <1>2, <2>1, DestroyOne
  <2>3. waiter = "destroy" /\ waiter' = "destroy"
    BY <1>3 DEF DestroyStream
  <2>4. todo[Reader] = <<>>
    BY <2>3 DEF CloseInv, WaitsForReader
  <2>5. CreateIsFresh'
    BY <1>1, <2>4, EmptySeq DEF CreateIsFresh
  <2> QED BY <2>2, <2>3, <2>5 DEF DestroyInv, VisitedLate, AllVisited
<1>4. CASE OnClose
  <2>1. /\ waiter = "destroy" /\ waiter' = "ended" /\ calls' = Append(calls, <<"close", 0>>)
        /\ UNCHANGED visited /\ \A id \in Ids \ visited : streams[id] = 0
    BY <1>4 DEF OnClose
  <2>2. \A n, x : <<n, x>> # <<"close", 0>> => At(n, x)' = At(n, x)
    <3>1. /\ <<"close", 0>> \in (Callbacks \cup {"destroy", "close"}) \X (0..objects)
          /\ calls \in Seq((Callbacks \cup {"destroy", "close"}) \X (0..objects))
      BY <1>2 DEF TablesOK
    <3> QED BY <2>1, <3>1, CallAdded
  <2>3. \A x : At("destroy", x)' = At("destroy", x) /\ At("create", x)' = At("create", x)
    BY <2>2
  <2>4. Distinct' /\ LiveInTable' /\ AtMostOnce' /\ CreatedFirst' /\ CreateIsFresh'
    BY <1>1, <2>1, <2>3 DEF DestroyInv, Distinct, LiveInTable, AtMostOnce, CreatedFirst, CreateIsFresh
  <2> QED BY <1>1, <2>1, <2>4 DEF DestroyInv, VisitedLate, AllVisited
<1>5. CASE Receive("read") \/ Receive("write") \/ CloseSocket \/ CloseWriter
  <2>1. UNCHANGED <<visited, calls>> /\ waiter \notin {"destroy", "ended"} /\ waiter' # "ended"
    BY <1>5 DEF Receive, CloseSocket, CloseWriter
  <2>2. \A n, x : At(n, x)' = At(n, x)
    BY <2>1 DEF At
  <2>3. Distinct' /\ LiveInTable' /\ AtMostOnce' /\ CreatedFirst' /\ CreateIsFresh'
    BY <1>1, <2>1, <2>2 DEF DestroyInv, Distinct, LiveInTable, AtMostOnce, CreatedFirst, CreateIsFresh
  <2> QED BY <2>1, <2>3 DEF DestroyInv, VisitedLate, AllVisited
<1> QED BY <1>3, <1>4, <1>5 DEF WaitClose

LEMMA DestroyStep == DestroyInv /\ ConnTypeInv /\ CloseInv /\ [ConnNext]_allVars => DestroyInv'
<1> SUFFICES ASSUME DestroyInv, ConnTypeInv, CloseInv, [ConnNext]_allVars PROVE DestroyInv'
  OBVIOUS
<1>1. ASSUME UNCHANGED <<todo, streams, objects, calls, visited, waiter>> PROVE DestroyInv'
  <2>1. \A n, x : At(n, x)' = At(n, x)
    BY <1>1 DEF At
  <2> QED BY <1>1, <2>1 DEF DestroyInv, Distinct, LiveInTable, AtMostOnce, CreatedFirst, CreateIsFresh,
             VisitedLate, AllVisited
<1>2. CASE ReadEnds \/ PeerLeaves \/ Writes \/ UNCHANGED allVars
  BY <1>1, <1>2 DEF ReadEnds, PeerLeaves, Writes, allVars, connVars, waitVars
<1>3. ASSUME NEW g \in Senders, StartSend(g) \/ Refused(g) PROVE DestroyInv'
  BY <1>1, <1>3 DEF StartSend, Refused, connVars, waitVars
<1> QED BY <1>2, <1>3, DestroyHandler, DestroyCallback, DestroyRead, DestroyWait DEF ConnNext

\* The server is told of the end of every stream object exactly once, by deleteStream
\* (conn.go:519-526) or by waitClose (conn.go:424-428), whatever else the reader, the writer
\* and the acknowledgements are doing.
THEOREM StreamsDestroyedOnce == ConnSpec => []DestroyedOnce
<1>1. ConnTypeInv /\ DestroyInv => DestroyedOnce
  <2> SUFFICES ASSUME ConnTypeInv, DestroyInv, NEW o \in 1..objects
               PROVE  /\ Cardinality(At("destroy", o)) <= 1
                      /\ \A i \in At("create", o), j \in At("destroy", o) : i < j
                      /\ waiter = "ended" => At("destroy", o) # {}
    BY DEF DestroyedOnce
  <2>1. Cardinality(At("destroy", o)) <= 1
    <3>1. CASE At("destroy", o) = {}
      BY <3>1, FS_EmptySet
    <3>2. CASE At("destroy", o) # {}
      <4>1. PICK i : i \in At("destroy", o)
        BY <3>2
      <4>2. At("destroy", o) = {i}
        BY <4>1 DEF DestroyInv, AtMostOnce
      <4>3. Cardinality({i}) = 1
        BY FS_Singleton
      <4> QED BY <4>2, <4>3
    <3> QED BY <3>1, <3>2
  <2>2. waiter = "ended" => At("destroy", o) # {}
    BY DEF DestroyInv, LiveInTable, AllVisited
  <2> QED BY <2>1, <2>2 DEF DestroyInv, CreatedFirst
<1>2. ConnInit => DestroyInv /\ ConnTypeInv /\ CloseInv
  BY DestroyInit, ConnTypeInit, CloseInit
<1>3. DestroyInv /\ ConnTypeInv /\ CloseInv /\ [ConnNext]_allVars => (DestroyInv /\ ConnTypeInv /\ CloseInv)'
  BY DestroyStep, ConnTypeStep, CloseStep
<1> QED BY <1>1, <1>2, <1>3, PTL DEF ConnSpec
=============================================================================
