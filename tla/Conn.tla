-------------------------------- MODULE Conn --------------------------------
(***************************************************************************)
(* The life of one connection: conn.go on top of ChunkStreamWriter.        *)
(*                                                                         *)
(* Three goroutines run for a connection.  readFrom reads messages and     *)
(* runs their handlers, writeTo is WriteTo of ChunkStreamWriter, waitClose *)
(* waits for one of the two to end, closes the socket and the writer,      *)
(* waits for the other, and only then tells the server that the streams    *)
(* and the connection are gone.  An acknowledgement is sent from a         *)
(* goroutine of its own.                                                   *)
(*                                                                         *)
(* What the reader and the acknowledging goroutines have still to do is a  *)
(* sequence of steps, each of which may wait for Send or Flush: todo.      *)
(***************************************************************************)
EXTENDS ChunkStreamWriter

CONSTANTS Reader,    \* the goroutine of readFrom
          Acks,      \* the goroutines of OnWindowFull
          Control,   \* CS_ID_PROTOCOL_CONTROL
          MaxReads   \* bound: messages read, and so the ids of streams

ASSUME ConnAssumption ==
  /\ Senders = {Reader} \cup Acks /\ Reader \notin Acks
  /\ Control \in Reserved
  /\ MaxReads \in Nat

VARIABLES
  todo,     \* todo[g]: the steps g has still to make
  cur,      \* cur[g]: the message g sends in the first of them, or 0
  socket,   \* "open", or "closed" by this side
  peer,     \* "there" or "gone"
  reader,   \* ReadFrom: "running" or "returned"
  waiter,   \* where waitClose is
  ended,    \* which of readDone and writeDone it has received
  streams,  \* c.streams: the stream object of an id, or 0
  visited,  \* the ids the loop over c.streams in waitClose has visited
  reads,    \* messages read
  objects,  \* history: stream objects made
  calls     \* history: the calls of the ConnHandler, each with its stream object

writerVars == vars
waitVars   == <<waiter, ended, visited>>
connVars   == <<todo, cur, socket, peer, reader, waitVars, streams, reads, objects, calls>>
allVars    == <<writerVars, connVars>>

Ids == 1..MaxReads

\* From here on reading ends, and writing does not wait.
Broken == socket = "closed" \/ peer = "gone"

\* The same for the bufio.Writer, which repeats its first error without a write.
Failed == Broken \/ net = "failed"

----------------------------------------------------------------------------
(* The steps of handlers.                                                  *)
(*                                                                         *)
(*   control  SetChunkSize, SetWindowSize, SetPeerBandwidth                *)
(*   begin    SendStreamBegin                                              *)
(*   result   SendCommand of a handler                                     *)
(*   ack      SendAcknowledgement                                          *)
(*   flush    Flush                                                        *)
(*   fatal    Fatal: SendCommand, whatever it returns, then Close          *)
(*   connect, create   a call of the ConnHandler                           *)

Sending   == {"control", "begin", "result", "ack", "fatal"}
Flushing  == {"control", "result", "flush", "fatal"}
Callbacks == {"connect", "create"}
Steps     == Sending \cup Flushing \cup Callbacks

Doing(g) == IF todo[g] = <<>> THEN "nothing" ELSE Head(todo[g])

StartSend(g) ==
  /\ Doing(g) \in Sending
  /\ cur[g] = 0
  /\ Send(g, Control, 1)
  /\ cur' = [cur EXCEPT ![g] = Len(msgs) + 1]
  /\ UNCHANGED <<todo, socket, peer, reader, waitVars, streams, reads, objects, calls>>

\* The first step is over but for its Flush.
Returned(g)  == Doing(g) \in Sending => cur[g] # 0 /\ ~Calling(g)
SendFailed(g) == Doing(g) \in Sending /\ msgs[cur[g]].result # "ok"

Goes(g, steps) ==
  /\ todo' = [todo EXCEPT ![g] = steps]
  /\ cur' = [cur EXCEPT ![g] = 0]

\* Flush may succeed on a connection just broken: another one took the bytes along.
Succeeds(g) ==
  /\ Doing(g) \in (Sending \cup Flushing) \ {"fatal"}
  /\ Returned(g)
  /\ ~SendFailed(g)
  /\ Doing(g) \in Flushing => net = "up"
  /\ Goes(g, Tail(todo[g]))
  /\ UNCHANGED <<writerVars, socket, peer, reader, waitVars, streams, reads, objects, calls>>

\* Fault for the mutation runs: what failed is tried again after Fatal.
Retried(g) == <<"fatal">> \o todo[g]
\* The handler of a command returns the error, and OnCommand calls Fatal; the other
\* steps call Fatal themselves, return nothing, and the handler goes on.
Failing(g) == <<"fatal">> \o (IF Doing(g) = "result" THEN <<>> ELSE Tail(todo[g]))

\* The buffer has no lock: a Flush in the middle of which WriteTo adds a chunk finds that
\* it has written less than there is, which is the error io.ErrShortWrite.
Racing == taken # 0

\* The Send has returned an error, or the Flush that follows it does.
Breaks(g) ==
  \/ SendFailed(g) /\ UNCHANGED writerVars
  \/ /\ ~SendFailed(g)
     /\ Doing(g) \in Flushing
     /\ (FlushFails /\ (Broken \/ Racing)) \/ (net = "failed" /\ UNCHANGED writerVars)

Fails(g) ==
  /\ Doing(g) \in (Sending \cup Flushing) \ {"fatal"}
  /\ Returned(g)
  /\ Breaks(g)
  /\ Goes(g, Failing(g))
  /\ UNCHANGED <<socket, peer, reader, waitVars, streams, reads, objects, calls>>

Fatal(g) ==
  /\ Doing(g) = "fatal"
  /\ Returned(g)
  /\ Breaks(g) \/ (~SendFailed(g) /\ net = "up" /\ UNCHANGED writerVars)
  /\ socket' = "closed"
  /\ Goes(g, Tail(todo[g]))
  /\ UNCHANGED <<peer, reader, waitVars, streams, reads, objects, calls>>

Callback(g) ==
  /\ Doing(g) \in Callbacks
  /\ calls' = Append(calls, <<Doing(g), objects>>)
  /\ Goes(g, Tail(todo[g]))
  /\ UNCHANGED <<writerVars, socket, peer, reader, waitVars, streams, reads, objects>>

----------------------------------------------------------------------------
(* The reader: one message after another.                                  *)

\* Fault: handlers run in goroutines of their own, and reading goes on.
HandlerApart    == TRUE
HandlerReturned == todo[Reader] = <<>>

Reads ==
  /\ reader = "running"
  /\ HandlerReturned
  /\ reads < MaxReads
  /\ reads' = reads + 1

Handles(steps) ==
  /\ Goes(Reader, steps)
  /\ UNCHANGED <<socket, peer, reader, waitVars>>

ReadConnect ==
  /\ Reads
  /\ Handles(<<"control", "control", "begin", "control", "result", "connect">>)
  /\ UNCHANGED <<writerVars, streams, objects, calls>>

\* invokeFCPublish, and the commands the handler of the server answers.
ReadCommand ==
  /\ Reads
  /\ Handles(<<"result">>)
  /\ UNCHANGED <<writerVars, streams, objects, calls>>

\* A handler returns an error, or there is no stream of the id of a message.
ReadRefused ==
  /\ Reads
  /\ Handles(<<"fatal">>)
  /\ UNCHANGED <<writerVars, streams, objects, calls>>

\* allocateStream: the lowest id that is free.
Allocate(id) ==
  /\ streams[id] = 0
  /\ \A j \in Ids : j < id => streams[j] # 0
  /\ objects' = objects + 1
  /\ streams' = [streams EXCEPT ![id] = objects + 1]

\* The stream stays in c.streams whatever becomes of the result.
ReadCreateStream ==
  /\ Reads
  /\ CreateChunkStream
  /\ \E id \in Ids : Allocate(id)
  /\ Handles(<<"result", "begin", "create">>)
  /\ UNCHANGED calls

\* ErrMaxChunkStreams.
ReadCreateStreamRefused ==
  /\ \A i \in Base..(MaxId - 1) : i \in chunkStreams
  /\ ReadRefused

\* Fault: deleteStream leaves the stream in the map.
KeepStream(id) == UNCHANGED streams
DropStream(id) == streams' = [streams EXCEPT ![id] = 0]

ReadDeleteStream ==
  /\ Reads
  /\ \E id \in Ids : /\ streams[id] # 0
                     /\ DropStream(id)
                     /\ calls' = Append(calls, <<"destroy", streams[id]>>)
  /\ Handles(<<>>)
  /\ UNCHANGED <<writerVars, objects>>

\* OnWindowFull, after a message or in the middle of one.  It goes on with Flush
\* when Send has failed.
WindowFull ==
  /\ Reads
  /\ \E a \in Acks : todo[a] = <<>> /\ Goes(a, <<"ack", "flush">>)
  /\ UNCHANGED <<writerVars, socket, peer, reader, waitVars, streams, objects, calls>>

\* The connection is at its end, or what was read is no chunk.
ReadEnds ==
  /\ reader = "running"
  /\ HandlerReturned
  /\ reader' = "returned"
  /\ UNCHANGED <<writerVars, todo, cur, socket, peer, waitVars, streams, reads, objects, calls>>

PeerLeaves ==
  /\ peer = "there"
  /\ peer' = "gone"
  /\ UNCHANGED <<writerVars, todo, cur, socket, reader, waitVars, streams, reads, objects, calls>>

----------------------------------------------------------------------------
(* writeTo: until something failed, a write returns nil or not at all.     *)

Writes ==
  /\ (\E g \in Senders : Take(g)) \/ WriteChunk \/ (Failed /\ WriteFails) \/ Written \/ WriterEnds
  /\ UNCHANGED connVars

Refused(g) == SendClosed(g) /\ UNCHANGED connVars

----------------------------------------------------------------------------
(* waitClose.                                                              *)

Receive(x) ==
  /\ waiter \in {"first", "second"}
  /\ x \notin ended
  /\ (x = "read" /\ reader = "returned") \/ (x = "write" /\ writer = "returned")
  /\ ended' = ended \cup {x}
  /\ waiter' = IF waiter = "first" THEN "closeSocket" ELSE "destroy"
  /\ UNCHANGED <<writerVars, todo, cur, socket, peer, reader, streams, visited, reads, objects, calls>>

\* Fault: the socket is left open.
LeaveSocket == UNCHANGED socket
ShutSocket  == socket' = "closed"

CloseSocket ==
  /\ waiter = "closeSocket"
  /\ ShutSocket
  /\ waiter' = "closeWriter"
  /\ UNCHANGED <<writerVars, todo, cur, peer, reader, ended, streams, visited, reads, objects, calls>>

CloseWriter ==
  /\ waiter = "closeWriter"
  /\ Close \/ (done /\ UNCHANGED writerVars)
  /\ waiter' = "second"
  /\ UNCHANGED <<todo, cur, socket, peer, reader, ended, streams, visited, reads, objects, calls>>

DestroyStream ==
  /\ waiter = "destroy"
  /\ \E id \in Ids \ visited :
       /\ streams[id] # 0
       /\ visited' = visited \cup {id}
       /\ calls' = Append(calls, <<"destroy", streams[id]>>)
  /\ UNCHANGED <<writerVars, todo, cur, socket, peer, reader, waiter, ended, streams, reads, objects>>

OnClose ==
  /\ waiter = "destroy"
  /\ \A id \in Ids \ visited : streams[id] = 0
  /\ waiter' = "ended"
  /\ calls' = Append(calls, <<"close", 0>>)
  /\ UNCHANGED <<writerVars, todo, cur, socket, peer, reader, ended, streams, visited, reads, objects>>

----------------------------------------------------------------------------

ConnInit ==
  /\ Init
  /\ todo = [g \in Senders |-> <<>>]
  /\ cur = [g \in Senders |-> 0]
  /\ socket = "open"
  /\ peer = "there"
  /\ reader = "running"
  /\ waiter = "first"
  /\ ended = {}
  /\ streams = [id \in Ids |-> 0]
  /\ visited = {}
  /\ reads = 0
  /\ objects = 0
  /\ calls = <<>>

Read ==
  \/ ReadConnect \/ ReadCommand \/ ReadRefused \/ ReadCreateStream
  \/ ReadCreateStreamRefused \/ ReadDeleteStream \/ WindowFull

Handler(g) == Succeeds(g) \/ Fails(g) \/ Fatal(g)

WaitClose == Receive("read") \/ Receive("write") \/ CloseSocket \/ CloseWriter \/ DestroyStream \/ OnClose

ConnNext ==
  \/ Read \/ ReadEnds \/ PeerLeaves \/ Writes \/ WaitClose
  \/ \E g \in Senders : StartSend(g) \/ Handler(g) \/ Callback(g) \/ Refused(g)

ConnSpec == ConnInit /\ [][ConnNext]_allVars

\* On a connection that is up, ReadFrom, a write and a Flush may wait for ever; all
\* three return once it is broken.  Select as in ChunkStreamWriter.
FairConnSpec ==
  /\ ConnSpec
  /\ \A g \in Senders : /\ WF_allVars(StartSend(g)) /\ WF_allVars(Callback(g))
                        /\ WF_allVars(Failed /\ Handler(g))
                        /\ WF_allVars(Refused(g))
                        /\ SF_allVars(Take(g) /\ UNCHANGED connVars)
  /\ WF_allVars(Broken /\ ReadEnds)
  /\ WF_allVars(Failed /\ (WriteChunk \/ WriteFails) /\ UNCHANGED connVars)
  /\ WF_allVars(Written /\ UNCHANGED connVars)
  /\ SF_allVars(WriterEnds /\ UNCHANGED connVars)
  /\ WF_allVars(WaitClose)

----------------------------------------------------------------------------
(* Properties.                                                             *)

\* Every variable keeps its type.  Handlers have six steps at most, and a failure
\* never gives them more.
ConnTypeOK ==
  /\ TypeOK
  /\ todo \in [Senders -> Seq(Steps)] /\ \A g \in Senders : Len(todo[g]) <= 6
  /\ cur \in [Senders -> 0..Len(msgs)]
  /\ socket \in {"open", "closed"} /\ peer \in {"there", "gone"}
  /\ reader \in {"running", "returned"}
  /\ waiter \in {"first", "closeSocket", "closeWriter", "second", "destroy", "ended"}
  /\ ended \subseteq {"read", "write"} /\ visited \subseteq Ids
  /\ streams \in [Ids -> 0..objects]
  /\ calls \in Seq((Callbacks \cup {"destroy", "close"}) \X (0..objects))

At(name, o) == {i \in DOMAIN calls : calls[i] = <<name, o>>}

\* The server is told of the end of every stream object exactly once: by the
\* deleteStream of the client or by waitClose, whichever of the two it is, after
\* OnCreateStream when there was one, and before OnClose.
DestroyedOnce ==
  \A o \in 1..objects :
    /\ Cardinality(At("destroy", o)) <= 1
    /\ \A i \in At("create", o), j \in At("destroy", o) : i < j
    /\ waiter = "ended" => At("destroy", o) # {}

\* OnClose is the last call of the handler, and comes once: the reader, whose
\* handlers make the other calls, has ended by then.
NothingAfterClose == \A i \in At("close", 0) : i = Len(calls)

\* A connection of which the socket, the peer or the reader has ended,
\* or whose bufio.Writer two goroutines have broken between them, gets to OnClose, with
\* handlers waiting for Send, acknowledgements on their way and a write that is stuck.
ConnectionEnds == (Failed \/ reader = "returned") ~> (waiter = "ended")

\* No goroutine of the connection is left: each acknowledgement gets an answer from a
\* writer that is gone, even while it reports its failure with another Send.
NoGoroutineLeft ==
  (waiter = "ended") ~> (writer = "returned" /\ \A g \in Senders : todo[g] = <<>>)
=============================================================================
