------------------------- MODULE ChunkStreamWriter -------------------------
(***************************************************************************)
(* The sending half of a connection: chunkstreamwriter.go.                 *)
(*                                                                         *)
(* Any goroutine may call Send: the command handlers, the players, the     *)
(* goroutines that acknowledge a window.  Send looks up the chunk stream,  *)
(* offers a closure on the unbuffered queue of its priority and, once it   *)
(* is taken, waits for the closure to report.  One goroutine runs WriteTo, *)
(* which takes a closure from any of the three queues and runs it: all the *)
(* chunks of a message are written before the next is taken.               *)
(*                                                                         *)
(* Go's select takes any ready case: the three queues are one set of       *)
(* offers here.  What is in a chunk, its header and its size, is left out: *)
(* a message is a number of chunks, none when its payload is empty.        *)
(***************************************************************************)
EXTENDS Naturals, Sequences, FiniteSets

CONSTANTS Senders,    \* goroutines that call Send
          Reserved,   \* ids of the chunk streams there from the start
          MaxId,      \* CS_ID_MAX: created ids are in Base..MaxId-1
          Base,       \* CS_ID_BASE
          MaxChunks,  \* bound: chunks of a message
          MaxMsgs     \* bound: calls of Send

ASSUME ChunkStreamWriterAssumption ==
  /\ Reserved \subseteq Nat
  /\ Base \in Nat /\ MaxId \in Nat
  /\ MaxChunks \in Nat /\ MaxMsgs \in Nat

VARIABLES
  chunkStreams,  \* keys of csw.chunkStreams
  call,          \* call[g]: the message g is sending, or 0
  taken,         \* the message WriteTo is writing, or 0
  left,          \* chunks of it that are not written yet
  writer,        \* WriteTo: "running" or "returned"
  done,          \* the done channel is closed
  net,           \* "up", or "failed" after a write error
  msgs,          \* history: msgs[m] is the m-th message, with what Send returned
  wire           \* history: the message of each chunk written

vars == <<chunkStreams, call, taken, left, writer, done, net, msgs, wire>>

Calling(g) == call[g] # 0

\* Fault: WriteTo takes a message while it is writing another.
Overlapping == writer = "running"
Selecting   == writer = "running" /\ taken = 0

----------------------------------------------------------------------------

\* The first id that is free; ErrMaxChunkStreams when there is none.
CreateChunkStream ==
  \E i \in Base..(MaxId - 1) :
    /\ i \notin chunkStreams
    /\ \A j \in Base..(i - 1) : j \in chunkStreams
    /\ chunkStreams' = chunkStreams \cup {i}
    /\ UNCHANGED <<call, taken, left, writer, done, net, msgs, wire>>

\* A new call: the message has n chunks.
Send(g, cs, n) ==
  /\ ~Calling(g)
  /\ Len(msgs) < MaxMsgs
  /\ IF cs \in chunkStreams
       THEN /\ call' = [call EXCEPT ![g] = Len(msgs) + 1]
            /\ msgs' = Append(msgs, [by |-> g, chunks |-> n, result |-> "none"])
       ELSE /\ msgs' = Append(msgs, [by |-> g, chunks |-> n, result |-> "invalid"])
            /\ UNCHANGED call
  /\ UNCHANGED <<chunkStreams, taken, left, writer, done, net, wire>>

Return(g, r) ==
  /\ msgs' = [msgs EXCEPT ![call[g]].result = r]
  /\ call' = [call EXCEPT ![g] = 0]

\* Fault: a bare send on the queue.
SendUnguarded(g) == FALSE /\ Calling(g)

\* case <-csw.done: only before the closure is taken.
SendClosed(g) ==
  /\ Calling(g)
  /\ call[g] # taken
  /\ done
  /\ Return(g, "closed")
  /\ UNCHANGED <<chunkStreams, taken, left, writer, done, net, wire>>

\* Fault: Send does not wait for the closure once it is taken.
TakeAndReturn(g) ==
  /\ Selecting
  /\ Calling(g)
  /\ taken' = call[g]
  /\ left' = msgs[call[g]].chunks
  /\ Return(g, "ok")
  /\ UNCHANGED <<chunkStreams, writer, done, net, wire>>

Take(g) ==
  /\ Selecting
  /\ Calling(g)
  /\ taken' = call[g]
  /\ left' = msgs[call[g]].chunks
  /\ UNCHANGED <<chunkStreams, call, writer, done, net, msgs, wire>>

\* Fault: the loop over the chunks tests its condition at the end.
AtLeastOnce == TRUE
MoreChunks  == left > 0

WriteChunk ==
  /\ taken # 0
  /\ MoreChunks
  /\ net = "up"
  /\ wire' = Append(wire, taken)
  /\ left' = left - 1
  /\ UNCHANGED <<chunkStreams, call, taken, writer, done, net, msgs>>

\* done <- err, received by the Send that waits for it; WriteTo selects again.
\* The closure reports an error to its Send and nil to WriteTo.
Report(r) ==
  \E g \in Senders :
    /\ call[g] = taken
    /\ Return(g, r)
    /\ taken' = 0
    /\ left' = 0

Written ==
  /\ taken # 0
  /\ left = 0
  /\ Report("ok")
  /\ UNCHANGED <<chunkStreams, writer, done, net, wire>>

\* A write error, which the bufio.Writer below repeats for ever after.
WriteFails ==
  /\ taken # 0
  /\ MoreChunks
  /\ net' = "failed"
  /\ Report("error")
  /\ UNCHANGED <<chunkStreams, writer, done, wire>>

\* Flush is called by whoever has sent a message that should not wait: its error,
\* too, is repeated for ever after.
FlushFails ==
  /\ net = "up"
  /\ net' = "failed"
  /\ UNCHANGED <<chunkStreams, call, taken, left, writer, done, msgs, wire>>

Close ==
  /\ ~done
  /\ done' = TRUE
  /\ UNCHANGED <<chunkStreams, call, taken, left, writer, net, msgs, wire>>

WriterEnds ==
  /\ Selecting
  /\ done
  /\ writer' = "returned"
  /\ UNCHANGED <<chunkStreams, call, taken, left, done, net, msgs, wire>>

----------------------------------------------------------------------------

Init ==
  /\ chunkStreams = Reserved
  /\ call = [g \in Senders |-> 0]
  /\ taken = 0
  /\ left = 0
  /\ writer = "running"
  /\ done = FALSE
  /\ net = "up"
  /\ msgs = <<>>
  /\ wire = <<>>

WriteTo ==
  \/ \E g \in Senders : Take(g)
  \/ WriteChunk \/ WriteFails \/ Written \/ WriterEnds

Next ==
  \/ \E g \in Senders : SendClosed(g)
  \/ \E g \in Senders, cs \in Reserved \cup (Base..MaxId), n \in 0..MaxChunks : Send(g, cs, n)
  \/ CreateChunkStream
  \/ WriteTo
  \/ FlushFails
  \/ Close

Spec == Init /\ [][Next]_vars

\* A write on an open socket may block for ever, but waitClose closes the socket
\* before it calls Close: from then on a pending write returns.
FairSpec ==
  /\ Spec
  /\ \A g \in Senders : WF_vars(SendClosed(g)) /\ SF_vars(Take(g))
  /\ WF_vars(done /\ (WriteChunk \/ WriteFails))
  /\ WF_vars(Written)
  /\ SF_vars(WriterEnds)

----------------------------------------------------------------------------
(* Properties.                                                             *)

Results == {"none", "ok", "error", "closed", "invalid"}

\* Every variable keeps its type.
TypeOK ==
  /\ chunkStreams \subseteq Nat
  /\ call \in [Senders -> 0..Len(msgs)]
  /\ taken \in 0..Len(msgs)
  /\ left \in Nat
  /\ writer \in {"running", "returned"}
  /\ done \in BOOLEAN
  /\ net \in {"up", "failed"}
  /\ msgs \in Seq([by : Senders, chunks : Nat, result : Results])
  /\ wire \in Seq(1..Len(msgs))

ChunksOf(m) == {i \in DOMAIN wire : wire[i] = m}

\* What Send returns is true of the wire: nil when the whole message is there
\* exactly once, ErrClosedChunkStream and ErrInvalidChunkStreamID when nothing of
\* it is and never will be, another error when it is there in part.
ResultIsTrue ==
  \A m \in DOMAIN msgs :
    LET n == Cardinality(ChunksOf(m)) IN
      /\ msgs[m].result = "ok" => n = msgs[m].chunks
      /\ msgs[m].result \in {"closed", "invalid"} => n = 0
      /\ msgs[m].result = "error" => n < msgs[m].chunks

\* The chunks of a message are not interleaved with those of another, and the
\* messages of one goroutine are written in the order in which it sent them.
WireInOrder ==
  \A i, j \in DOMAIN wire :
    i < j =>
      /\ wire[i] = wire[j] => \A k \in i..j : wire[k] = wire[i]
      /\ msgs[wire[i]].by = msgs[wire[j]].by => wire[i] <= wire[j]

\* A call that waits is known to WriteTo or may still be taken or refused: the
\* message being written always has its Send waiting for the report, without
\* which done <- err would block WriteTo for ever.
ReportIsAwaited == taken # 0 => \E g \in Senders : call[g] = taken

\* Close releases every Send, the one being written included, and ends WriteTo,
\* whatever it was doing.
CloseReleases ==
  /\ \A g \in Senders : (done /\ Calling(g)) ~> ~Calling(g)
  /\ done ~> (writer = "returned")

\* A write error that WriteTo meets in a message ends it, which is how the connection
\* learns of the error; Send alone is told otherwise.  A Flush that fails in another
\* goroutine is not meant: only a message WriteTo was writing has the result "error".
WriteErrorEndsWriteTo ==
  (\E m \in DOMAIN msgs : msgs[m].result = "error") ~> (writer = "returned")
=============================================================================
