------------------------------ MODULE Session ------------------------------
(***************************************************************************)
(* A connection from its socket to its commands: the handshake, and then   *)
(* the messages that readFrom passes to OnMessage of conn.go, each parsed, *)
(* routed to the connection or to one of its streams, and handled there.   *)
(*                                                                         *)
(* A handler is one step here, in which all that it sends is sent.  How    *)
(* the sends of a handler meet the writer and the end of the connection is *)
(* the subject of Conn, what publish and play do to the registry that of   *)
(* Server: here the registry may refuse either.                            *)
(***************************************************************************)
EXTENDS Handshake, Command, Sequences

CONSTANTS Commands,  \* what a client that uses this library prints
          Foreign,   \* messages of other clients
          MaxReads   \* bound: messages read, and so the ids of streams

ASSUME SessionAssumption == MaxReads \in Nat

VARIABLES
  status,   \* the reader: "reading", "closed" by Fatal, "panicked"
  streams,  \* the ids in c.streams
  app,      \* c.app
  last,     \* history: the last message, the command it was printed from, who got it (a set)
  answers,  \* history: the commands sent
  reads     \* messages read

sessionVars == <<status, streams, app, last, answers, reads>>
allVars     == <<handshakeVars, sessionVars>>

Ids == 1..MaxReads

\* What a client sends: a command it printed, or a message from elsewhere.
Inbound == {[from |-> c, msg |-> Message(RawCommand(c))] : c \in Commands}
           \cup {[from |-> None, msg |-> m] : m \in Foreign}

----------------------------------------------------------------------------
(* Routing: OnMessage, OnReceive, OnCommand.                               *)

\* A command that does not parse is passed on like any other message.
Unread(msg) == ~IsCommand(msg) \/ ParseCommand(msg) = Failed

\* A command is routed by the stream of the command printed anew.
StreamOf(msg) == IF Unread(msg) THEN msg.stream ELSE RawCommand(ParseCommand(msg)).stream

Reads(in, to) ==
  /\ stage = "established"
  /\ status = "reading"
  /\ reads < MaxReads
  /\ reads' = reads + 1
  /\ last' = [msg |-> in.msg, from |-> in.from, to |-> to]
  /\ UNCHANGED handshakeVars

\* A command that parses, for the connection (stream 0) or for a stream it has.
Gets(in, kind) ==
  /\ IsCommand(in.msg)
  /\ ParseCommand(in.msg).kind = kind
  /\ StreamOf(in.msg) \in {0} \cup streams
  /\ Reads(in, {StreamOf(in.msg)})

Answer(cmds) ==
  /\ answers' = answers \o cmds
  /\ UNCHANGED status

Result(txn, properties, info) ==
  [kind |-> "_result", stream |-> 0, txn |-> txn, properties |-> properties, info |-> info]
OnStatus(stream, txn, info) ==
  [kind |-> "onStatus", stream |-> stream, txn |-> txn, properties |-> Null, info |-> Obj(info)]

\* Fatal: its status, whatever the error was, and the end of the connection.
Fatal ==
  /\ status' = "closed"
  /\ answers' = Append(answers, OnStatus(0, 0, "NetConnection.Connect.Closed"))
  /\ UNCHANGED <<streams, app>>

----------------------------------------------------------------------------
(* Handlers, behind an application that passes every command on.           *)

\* The server takes one name for an application, the connection any.
Connect(in) ==
  LET cmd == ParseCommand(in.msg) IN
    /\ Gets(in, "connect")
    /\ cmd.properties = Obj(Str("app"))
    /\ app' = "app"
    /\ Answer(<<Result(cmd.txn, Obj("properties"), Obj("information"))>>)
    /\ UNCHANGED streams

\* Fault: ids are counted from zero, the id of the connection.
FromZero == 0..MaxReads
FromOne  == 1..MaxReads

\* The lowest id that is free.
CreateStream(in) ==
  /\ Gets(in, "createStream")
  /\ \E id \in FromOne \ streams :
       /\ \A j \in FromOne : j < id => j \in streams
       /\ streams' = streams \cup {id}
       /\ Answer(<<Result(ParseCommand(in.msg).txn, Null, Num(id))>>)
  /\ UNCHANGED app

DeleteStream(in) ==
  LET cmd == ParseCommand(in.msg) IN
    /\ Gets(in, "deleteStream")
    /\ cmd.id \in streams
    /\ streams' = streams \ {cmd.id}
    /\ Answer(<<>>)
    /\ UNCHANGED app

FCPublish(in) ==
  /\ Gets(in, "FCPublish")
  /\ ParseCommand(in.msg).name # ""
  /\ Answer(<<[kind |-> "onFCPublish", status |-> Obj("NetStream.Publish.Start")]>>)
  /\ UNCHANGED <<streams, app>>

Publish(in) ==
  LET cmd == ParseCommand(in.msg) IN
    /\ Gets(in, "publish")
    /\ cmd.stream # 0 /\ cmd.name # ""
    /\ Answer(<<OnStatus(cmd.stream, cmd.txn, "NetStream.Publish.Start")>>)
    /\ UNCHANGED <<streams, app>>

\* stream.Send puts in the id of the stream; the transaction is not copied.
Play(in) ==
  LET cmd == ParseCommand(in.msg) IN
    /\ Gets(in, "play")
    /\ cmd.stream # 0 /\ cmd.name # ""
    /\ Answer(<<OnStatus(cmd.stream, 0, "NetStream.Play.Reset"), OnStatus(cmd.stream, 0, "NetStream.Play.Start")>>)
    /\ UNCHANGED <<streams, app>>

\* What no handler is interested in: other commands, publish and play for stream 0.
Ignore(in) ==
  /\ \/ Gets(in, "raw") \/ Gets(in, "_result")
     \/ (Gets(in, "publish") \/ Gets(in, "play")) /\ ParseCommand(in.msg).stream = 0
  /\ Answer(<<>>)
  /\ UNCHANGED <<streams, app>>

\* The handler returns an error: of the server, of the registry, of the stream.
Refuse(in) ==
  LET cmd == ParseCommand(in.msg) IN
    /\ \/ Gets(in, "connect") /\ cmd.properties # Obj(Str("app"))
       \/ Gets(in, "deleteStream") /\ cmd.id \notin streams
       \/ Gets(in, "FCPublish") /\ cmd.name = ""
       \/ (Gets(in, "publish") \/ Gets(in, "play")) /\ cmd.stream # 0
    /\ Fatal

\* OnReceive of the connection's handler, which does nothing, or of the stream.
Receive(in) ==
  /\ Unread(in.msg)
  /\ in.msg.stream \in {0} \cup streams
  /\ Reads(in, {in.msg.stream})
  /\ Answer(<<>>)
  /\ UNCHANGED <<streams, app>>

NoSuchStream(in) ==
  /\ Unread(in.msg) \/ ParseCommand(in.msg) # Panicked
  /\ StreamOf(in.msg) \notin {0} \cup streams
  /\ Reads(in, {})
  /\ Fatal

\* Nothing recovers: the program is at its end, with all of its connections.
Panic(in) ==
  /\ IsCommand(in.msg)
  /\ ParseCommand(in.msg) = Panicked
  /\ Reads(in, {})
  /\ status' = "panicked"
  /\ UNCHANGED <<streams, app, answers>>

----------------------------------------------------------------------------

SessionInit ==
  /\ HandshakeInit
  /\ status = "reading"
  /\ streams = {}
  /\ app = ""
  /\ last = None
  /\ answers = <<>>
  /\ reads = 0

OnMessage(in) ==
  \/ Connect(in) \/ CreateStream(in) \/ DeleteStream(in) \/ FCPublish(in) \/ Publish(in) \/ Play(in)
  \/ Ignore(in) \/ Refuse(in) \/ Receive(in) \/ NoSuchStream(in) \/ Panic(in)

SessionNext ==
  \/ HandshakeNext /\ UNCHANGED sessionVars
  \/ \E in \in Inbound : OnMessage(in)

SessionSpec == SessionInit /\ [][SessionNext]_allVars

\* The goroutines of the handshake go on when they can; what reads or writes the socket
\* returns for sure only when it is broken.
FairSessionSpec ==
  /\ SessionSpec
  /\ WF_allVars((Broken /\ (ReadHello \/ HelloFails)) /\ UNCHANGED sessionVars)
  /\ WF_allVars(WriteAnswer /\ UNCHANGED sessionVars)
  /\ WF_allVars((Broken /\ (FlushAnswer \/ FlushFails)) /\ UNCHANGED sessionVars)
  /\ WF_allVars((Broken /\ (ReadC2 \/ ReadC2Fails)) /\ UNCHANGED sessionVars)
  /\ \A g \in Workers : WF_allVars(ReceiveReport(g) /\ UNCHANGED sessionVars)
  /\ WF_allVars(HandleFailure /\ UNCHANGED sessionVars)

----------------------------------------------------------------------------
(* Properties.                                                             *)

\* Every variable keeps its type; no stream has the id of the connection.
SessionTypeOK ==
  /\ HandshakeTypeOK
  /\ status \in {"reading", "closed", "panicked"}
  /\ streams \subseteq Ids
  /\ app \in {"", "app"}
  /\ last # None => last.to \subseteq {0} \cup Ids
  /\ \A i \in DOMAIN answers : answers[i].kind \in {"_result", "onStatus", "onFCPublish"}
  /\ reads \in 0..MaxReads

\* A command reaches the handlers of the stream its message was sent on, or of the
\* connection if that is 0, though it is routed by what it prints and the commands of a
\* connection have no stream to print.
RoutedToItsStream == last # None => last.to \subseteq {last.msg.stream}

\* What the other end makes of a command: itself, or its raw form if it has no parser.
Arrives(cmd) ==
  ParseCommand(Message(RawCommand(cmd))) =
    IF cmd.kind \in {"onStatus", "onFCPublish"} THEN RawCommand(cmd) ELSE cmd

\* What does not survive: the name of deleteStream, the zero byte of a flex command, and
\* publish and play without their optional argument, with which the parser panics.
Lossy(cmd) ==
  \/ cmd.kind = "deleteStream"
  \/ cmd.kind = "raw" /\ cmd.flex
  \/ cmd.kind \in {"publish", "play"} /\ cmd.option = Unset

\* Two ends of this library understand each other: a command printed, sent and parsed
\* is the command that was printed, in both directions.
ComesBack ==
  /\ last # None /\ last.from # None /\ ~Lossy(last.from) => Arrives(last.from)
  /\ \A i \in DOMAIN answers : Arrives(answers[i])
=============================================================================
