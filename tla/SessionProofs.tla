--------------------------- MODULE SessionProofs ---------------------------
(***************************************************************************)
(* Theorems about Session, for whatever commands and messages the clients  *)
(* send.                                                                   *)
(***************************************************************************)
EXTENDS Session, HandshakeProofs, SequenceTheorems

----------------------------------------------------------------------------
(* The handshake of a session is that of Handshake.                        *)

\* Whatever is read after it, the handshake of a session takes the steps of SHandshake and
\* no others: what is proved of HandshakeSpec holds of a session.
THEOREM SessionHandshakes == SessionSpec => HandshakeSpec
<1>1. SessionInit => HandshakeInit
  BY DEF SessionInit
<1>2. [SessionNext]_allVars => [HandshakeNext]_handshakeVars
  BY DEF SessionNext, allVars, OnMessage, Connect, CreateStream, DeleteStream, FCPublish, Publish,
         Play, Ignore, Refuse, Receive, NoSuchStream, Panic, Gets, Reads
<1> QED
  BY <1>1, <1>2, PTL DEF SessionSpec, HandshakeSpec

\* So a session reads its first chunk where the handshake of the client ended, with nobody
\* else on the socket, and a client that signed its hello gets an answer that validates.
THEOREM SessionStarts == SessionSpec => [](StartsAligned /\ AnswerValidates)
BY SessionHandshakes, Aligned, AnswersValidate, PTL

----------------------------------------------------------------------------
(* Routing.                                                                *)

\* A command of a stream keeps the stream of what it was parsed from, ...
LEMMA NamedKeepsStream ==
  ASSUME NEW raw, NEW type
  PROVE  LET cmd == ParseNamed(raw, type) IN
           cmd = Failed \/ cmd = Panicked \/ (cmd.kind = raw.name /\ cmd.stream = raw.stream)
BY DEF ParseNamed, Object

LEMMA ResultKeepsStream ==
  ASSUME NEW raw
  PROVE  LET cmd == ParseResultCommand(raw) IN
           cmd = Failed \/ cmd = Panicked \/ (cmd.kind = "_result" /\ cmd.stream = raw.stream)
BY DEF ParseResultCommand, Object

\* ... and a command of the connection is parsed on stream 0 only.
LEMMA ConnectionCommandOnZero ==
  ASSUME NEW raw,
         NEW cmd \in {ParseConnectCommand(raw), ParseCreateStreamCommand(raw),
                      ParseDeleteStreamCommand(raw), ParseFCPublishCommand(raw)}
  PROVE  \/ cmd = Failed \/ cmd = Panicked
         \/ raw.stream = 0 /\ cmd.kind \in {"connect", "createStream", "deleteStream", "FCPublish"}
BY DEF ParseConnectCommand, ParseCreateStreamCommand, ParseDeleteStreamCommand,
       ParseFCPublishCommand, Object, OnStreamZero

\* What is printed of a command parsed from raw goes to the stream of raw.
LEMMA PrintedStream ==
  ASSUME NEW raw, NEW cmd,
         \/ cmd.kind \in {"publish", "play", "_result", "raw"} /\ cmd.stream = raw.stream
         \/ cmd.kind \in {"connect", "createStream", "deleteStream", "FCPublish"} /\ raw.stream = 0
  PROVE  RawCommand(cmd).stream = raw.stream
BY DEF RawCommand, RawWithTxn, Raw

LEMMA RawStream ==
  ASSUME NEW msg, ParseRawCommand(msg) # Failed
  PROVE  ParseRawCommand(msg).stream = msg.stream /\ ParseRawCommand(msg).kind = "raw"
BY DEF ParseRawCommand

LEMMA ParsedStream ==
  ASSUME NEW msg, ParseCommand(msg) # Failed, ParseCommand(msg) # Panicked
  PROVE  RawCommand(ParseCommand(msg)).stream = msg.stream
<1> DEFINE raw == ParseRawCommand(msg)
           cmd == ParseCommand(msg)
<1>1. raw # Failed
  BY DEF ParseCommand
<1>2. raw.stream = msg.stream /\ raw.kind = "raw"
  BY <1>1, RawStream
<1> HIDE DEF raw
<1>3. CASE raw.name = "publish"
  <2>1. cmd = ParseNamed(raw, "string")
    BY <1>1, <1>3 DEF ParseCommand, raw
  <2> QED BY <2>1, <1>2, <1>3, NamedKeepsStream, PrintedStream
<1>4. CASE raw.name = "play"
  <2>1. cmd = ParseNamed(raw, "number")
    BY <1>1, <1>4 DEF ParseCommand, raw
  <2> QED BY <2>1, <1>2, <1>4, NamedKeepsStream, PrintedStream
<1>5. CASE raw.name = "_result"
  <2>1. cmd = ParseResultCommand(raw)
    BY <1>1, <1>5 DEF ParseCommand, raw
  <2> QED BY <2>1, <1>2, ResultKeepsStream, PrintedStream
<1>6. CASE raw.name \in {"connect", "createStream", "deleteStream", "FCPublish"}
  <2>1. cmd \in {ParseConnectCommand(raw), ParseCreateStreamCommand(raw),
                 ParseDeleteStreamCommand(raw), ParseFCPublishCommand(raw)}
    BY <1>1, <1>6 DEF ParseCommand, raw
  <2> QED BY <2>1, <1>2, ConnectionCommandOnZero, PrintedStream
<1>7. CASE raw.name = "_error"
  BY <1>1, <1>7 DEF ParseCommand, raw
<1>8. CASE raw.name \notin {"publish", "play", "connect", "createStream", "deleteStream",
                            "FCPublish", "_result", "_error"}
  <2>1. cmd = raw
    BY <1>1, <1>8 DEF ParseCommand, raw
  <2> QED BY <2>1, <1>2, PrintedStream
<1> QED
  BY <1>3, <1>4, <1>5, <1>6, <1>7, <1>8

Kinds == {"connect", "createStream", "deleteStream", "FCPublish", "publish", "play", "raw", "_result"}

\* What a handler gets was sent on the stream it is of.
LEMMA GetsFromItsStream ==
  ASSUME NEW in, NEW kind \in Kinds, Gets(in, kind)
  PROVE  last'.to = {last'.msg.stream}
<1>1. ParseCommand(in.msg) # Failed /\ ParseCommand(in.msg) # Panicked
  BY DEF Gets, Kinds, Failed, Panicked
<1>2. ~Unread(in.msg)
  BY <1>1 DEF Gets, Unread
<1>3. StreamOf(in.msg) = in.msg.stream
  BY <1>1, <1>2, ParsedStream DEF StreamOf
<1>4. last' = [msg |-> in.msg, from |-> in.from, to |-> {StreamOf(in.msg)}]
  BY DEF Gets, Reads
<1> QED
  BY <1>3, <1>4

\* RoutedToItsStream is an invariant for whatever the clients send: though a command is
\* routed by what it would print, the handlers that get it are those of the stream its
\* message was sent on, or nobody's.
THEOREM Routed == SessionSpec => []RoutedToItsStream
<1>1. SessionInit => RoutedToItsStream
  BY DEF SessionInit, RoutedToItsStream
<1>2. RoutedToItsStream /\ [SessionNext]_allVars => RoutedToItsStream'
  <2> SUFFICES ASSUME RoutedToItsStream, [SessionNext]_allVars
               PROVE  RoutedToItsStream'
    OBVIOUS
  <2>1. CASE UNCHANGED last
    BY <2>1 DEF RoutedToItsStream
  <2>2. ASSUME NEW in \in Inbound, NEW kind \in Kinds, Gets(in, kind)
        PROVE  RoutedToItsStream'
    BY <2>2, GetsFromItsStream DEF RoutedToItsStream
  <2>3. ASSUME NEW in \in Inbound, OnMessage(in), ~Receive(in), ~NoSuchStream(in), ~Panic(in)
        PROVE  \E kind \in Kinds : Gets(in, kind)
    BY <2>3 DEF OnMessage, Connect, CreateStream, DeleteStream, FCPublish, Publish, Play, Ignore, Refuse, Kinds
  <2>4. ASSUME NEW in \in Inbound, Receive(in)
        PROVE  RoutedToItsStream'
    <3>1. last' = [msg |-> in.msg, from |-> in.from, to |-> {in.msg.stream}]
      BY <2>4 DEF Receive, Reads
    <3> QED BY <3>1 DEF RoutedToItsStream
  <2>5. ASSUME NEW in \in Inbound, NoSuchStream(in) \/ Panic(in)
        PROVE  RoutedToItsStream'
    <3>1. last' = [msg |-> in.msg, from |-> in.from, to |-> {}]
      BY <2>5 DEF NoSuchStream, Panic, Reads
    <3> QED BY <3>1 DEF RoutedToItsStream
  <2>6. CASE \E in \in Inbound : OnMessage(in)
    BY <2>2, <2>3, <2>4, <2>5, <2>6
  <2>7. CASE SessionNext
    BY <2>1, <2>6, <2>7 DEF SessionNext, sessionVars
  <2> QED
    BY <2>1, <2>7 DEF allVars, sessionVars
<1> QED
  BY <1>1, <1>2, PTL DEF SessionSpec

----------------------------------------------------------------------------
(* What is printed, sent and parsed.                                       *)

\* An AMF value that is neither a stray byte nor undecodable.
IsValue(v) == ~Unreadable(v)

IsSequence(a) == \E S : a \in Seq(S)

LEMMA ValueTypes ==
  /\ IsValue(Null) /\ \A x : IsValue(Str(x)) /\ IsValue(Num(x)) /\ IsValue(Obj(x)) /\ IsValue(<<"string", x>>)
                             /\ IsValue(<<"number", x>>)
  /\ \A x : /\ IsA(Str(x), "string") /\ IsA(Num(x), "number") /\ IsA(Obj(x), "object")
            /\ Str(x)[2] = x /\ Num(x)[2] = x
BY DEF IsValue, Unreadable, Null, Str, Num, Obj, IsA

\* What is printed of a command is read again as it was printed.
LEMMA RawArrives ==
  ASSUME NEW S, NEW objects \in Seq(S), \A v \in S : IsValue(v), NEW name, NEW stream, NEW txn
  PROVE  ParseRawCommand(Message(Raw(name, stream, txn, objects))) = Raw(name, stream, txn, objects)
<1> DEFINE T == S \cup {Str(name), Num(txn)}
           head == <<Str(name), Num(txn)>>
           body == head \o objects
           msg == Message(Raw(name, stream, txn, objects))
<1>1. head \in Seq(T) /\ objects \in Seq(T) /\ Len(head) = 2 /\ head[1] = Str(name) /\ head[2] = Num(txn)
  <2>2. S \subseteq T /\ Str(name) \in T /\ Num(txn) \in T
    OBVIOUS
  <2> HIDE DEF T
  <2>1. objects \in Seq(T)
    BY <2>2, SeqMonotonic
  <2>3. head \in Seq(T)
    BY <2>2
  <2> QED BY <2>1, <2>3
<1>2. \A v \in T : IsValue(v)
  BY ValueTypes
<1> HIDE DEF T, head
<1>3. /\ body \in Seq(T) /\ Len(body) = 2 + Len(objects) /\ Len(objects) \in Nat
      /\ \A i \in 1..(2 + Len(objects)) : body[i] = IF i <= 2 THEN head[i] ELSE objects[i - 2]
  <2>1. head \in Seq(T) /\ objects \in Seq(T)
    BY <1>1
  <2>2. /\ head \o objects \in Seq(T) /\ Len(head \o objects) = Len(head) + Len(objects)
        /\ \A i \in 1..(Len(head) + Len(objects)) :
             (head \o objects)[i] = IF i <= Len(head) THEN head[i] ELSE objects[i - Len(head)]
    BY <2>1, ConcatProperties
  <2>3. Len(objects) \in Nat
    BY LenProperties
  <2> QED BY <1>1, <2>2, <2>3
<1>4. <<>> \o head = head
  BY <1>1, ConcatEmptySeq
<1>5. msg.type = COMMAND_AMF0 /\ msg.stream = stream /\ msg.body = body
  BY <1>4 DEF Message, Raw, head
<1> HIDE DEF msg
<1>6. body[1] = Str(name) /\ body[2] = Num(txn) /\ ~(Len(body) < 2)
  BY <1>1, <1>3
<1>7. ~\E i \in DOMAIN body : Unreadable(body[i])
  <2>1. \A i \in DOMAIN body : body[i] \in T
    BY <1>3, LenProperties, ElementOfSeq
  <2> QED BY <1>2, <2>1 DEF IsValue
<1>8. SubSeq(body, 3, Len(body)) = objects
  <2>1. PICK b \in Seq(T) : b = body
    BY <1>3
  <2>2. PICK n \in Nat : n = Len(objects)
    BY <1>3
  <2>3. \A i \in 3..(2 + n) : b[i] \in T
    BY <1>3, <2>1, <2>2, ElementOfSeq
  <2>4. 3 \in Int /\ 2 + n \in Int
    OBVIOUS
  <2>5. PICK o : o = SubSeq(b, 3, 2 + n)
    OBVIOUS
  <2>6. /\ o \in Seq(T) /\ Len(o) = IF 3 <= 2 + n THEN (2 + n) - 3 + 1 ELSE 0
        /\ \A i \in 1..((2 + n) - 3 + 1) : o[i] = b[3 + i - 1]
    BY <2>3, <2>4, <2>5, SubSeqProperties
  <2>7. Len(o) = n
    BY <2>6
  <2>8. \A i \in 1..n : o[i] = objects[i]
    <3> SUFFICES ASSUME NEW i \in 1..n PROVE o[i] = objects[i]
      OBVIOUS
    <3>1. 3 + i - 1 \in 1..(2 + n) /\ ~(3 + i - 1 <= 2) /\ (3 + i - 1) - 2 = i /\ i \in 1..((2 + n) - 3 + 1)
      OBVIOUS
    <3>2. b[3 + i - 1] = objects[i]
      BY <1>3, <2>1, <2>2, <3>1
    <3> QED BY <2>6, <3>1, <3>2
  <2>9. o = objects
    BY <1>1, <2>2, <2>6, <2>7, <2>8, SeqEqual
  <2> QED BY <1>3, <2>1, <2>2, <2>5, <2>9
<1> HIDE DEF body
<1>9. msg.type # COMMAND_AMF3
  BY <1>5 DEF COMMAND_AMF0, COMMAND_AMF3
<1>10. /\ ~(Len(body) < 2) /\ IsA(body[1], "string") /\ IsA(body[2], "number")
       /\ body[1][2] = name /\ body[2][2] = txn
  BY <1>6, ValueTypes
<1>11. ParseRawCommand(msg) = [kind |-> "raw", flex |-> FALSE, stream |-> stream, name |-> name, txn |-> txn,
                               objects |-> objects]
  BY <1>5, <1>7, <1>8, <1>9, <1>10 DEF ParseRawCommand
<1> QED BY <1>11 DEF msg, Raw

\* What a client that uses this library prints: one of its commands, or a raw one of a name
\* that no parser has.
Parsed == {"publish", "play", "connect", "createStream", "deleteStream", "FCPublish", "_result", "_error"}

AMFValues(D) == {Null} \cup {Str(x) : x \in D} \cup {Num(x) : x \in D} \cup {Obj(x) : x \in D}

Printable(D) ==
  [kind : {"publish", "play"}, stream : D, txn : D, name : D, option : {Unset} \cup {Set(x) : x \in D}]
  \cup [kind : {"connect"}, txn : D, properties : {Obj(x) : x \in D}]
  \cup [kind : {"createStream"}, txn : D]
  \cup [kind : {"deleteStream"}, txn : D, id : D]
  \cup [kind : {"FCPublish"}, name : D]
  \cup [kind : {"_result"}, stream : D, txn : D, properties : AMFValues(D), info : AMFValues(D)]
  \cup [kind : {"raw"}, flex : BOOLEAN, stream : D, name : D \ Parsed, txn : D, objects : Seq(AMFValues(D))]

\* The objects of a command of one or of two.
LEMMA Pairs ==
  ASSUME NEW a, NEW b
  PROVE  <<a>> \in Seq({a, b}) /\ <<a, b>> \in Seq({a, b}) /\ <<>> \in Seq({a, b})
BY EmptySeq

LEMMA TwoAndOne ==
  ASSUME NEW a, NEW b, NEW c
  PROVE  <<a, b>> \o <<c>> = <<a, b, c>>
<1>1. PICK S : S = {a, b, c}
  OBVIOUS
<1>2. PICK q : q = <<a, b>>
  OBVIOUS
<1>3. PICK r : r = <<c>>
  OBVIOUS
<1>4. PICK t : t = <<a, b, c>>
  OBVIOUS
<1>5. /\ q \in Seq(S) /\ r \in Seq(S) /\ t \in Seq(S) /\ Len(q) = 2 /\ Len(r) = 1 /\ Len(t) = 3
      /\ q[1] = a /\ q[2] = b /\ r[1] = c /\ t[1] = a /\ t[2] = b /\ t[3] = c
  BY <1>1, <1>2, <1>3, <1>4
<1>6. /\ q \o r \in Seq(S) /\ Len(q \o r) = Len(q) + Len(r)
      /\ \A i \in 1..(Len(q) + Len(r)) : (q \o r)[i] = IF i <= Len(q) THEN q[i] ELSE r[i - Len(q)]
  BY <1>5, ConcatProperties
<1>7. \A i \in 1..3 : (q \o r)[i] = t[i]
  BY <1>5, <1>6
<1>8. q \o r = t
  BY <1>5, <1>6, <1>7, SeqEqual
<1> QED BY <1>2, <1>3, <1>4, <1>8

\* A raw command whose name no parser has comes back raw.
LEMMA RawComesBack ==
  ASSUME NEW S, NEW objects \in Seq(S), \A v \in S : IsValue(v), NEW name, name \notin Parsed, NEW stream, NEW txn
  PROVE  ParseCommand(Message(Raw(name, stream, txn, objects))) = Raw(name, stream, txn, objects)
<1> DEFINE raw == Raw(name, stream, txn, objects)
<1>1. ParseRawCommand(Message(raw)) = raw
  BY RawArrives
<1>2. raw # Failed /\ raw.name = name
  BY DEF Failed, Raw
<1> HIDE DEF raw
<1> QED BY <1>1, <1>2 DEF ParseCommand, Parsed, raw

\* The commands of a stream.
LEMMA NamedComesBack ==
  ASSUME NEW kind \in {"publish", "play"}, NEW stream, NEW txn, NEW name, NEW option
  PROVE  LET cmd == [kind |-> kind, stream |-> stream, txn |-> txn, name |-> name, option |-> Set(option)]
         IN  ParseCommand(Message(RawCommand(cmd))) = cmd
<1> DEFINE cmd == [kind |-> kind, stream |-> stream, txn |-> txn, name |-> name, option |-> Set(option)]
           type == IF kind = "publish" THEN "string" ELSE "number"
           three == <<Null, Str(name), <<type, option>> >>
           raw == Raw(kind, stream, txn, three)
           S == {Null, Str(name), <<type, option>>}
<1>1. RawCommand(cmd) = raw
  <2>1. Option(Set(option), "string") = << <<"string", option>> >> /\ Option(Set(option), "number") = << <<"number", option>> >>
    BY DEF Option, Set, Unset
  <2>2. <<Null, Str(name)>> \o << <<type, option>> >> = three
    BY TwoAndOne
  <2> QED BY <2>1, <2>2 DEF RawCommand, RawWithTxn
<1>2. three \in Seq(S)
  OBVIOUS
<1>3. \A v \in S : IsValue(v)
  BY ValueTypes
<1>4. ParseRawCommand(Message(raw)) = raw
  <2> HIDE DEF S, three
  <2> QED BY <1>2, <1>3, RawArrives
<1>5. /\ raw # Failed /\ raw.name = kind /\ raw.stream = stream /\ raw.txn = txn /\ raw.objects = three
  BY DEF Failed, Raw
<1>6. /\ Len(three) = 3 /\ DOMAIN three = 1..3 /\ three[2] = Str(name) /\ three[3] = <<type, option>>
  OBVIOUS
<1>7. IsA(three[2], "string") /\ three[2][2] = name /\ IsA(three[3], type) /\ three[3][2] = option
  BY <1>6, ValueTypes DEF IsA
<1> HIDE DEF raw, three
<1>8. ParseNamed(raw, type) = cmd
  BY <1>5, <1>6, <1>7 DEF ParseNamed, TooFew, Object
<1>9. ParseCommand(Message(raw)) = ParseNamed(raw, type)
  BY <1>4, <1>5 DEF ParseCommand
<1> QED BY <1>1, <1>8, <1>9

\* The commands of a connection.
LEMMA ConnectComesBack ==
  ASSUME NEW txn, NEW x
  PROVE  LET cmd == [kind |-> "connect", txn |-> txn, properties |-> Obj(x)]
         IN  ParseCommand(Message(RawCommand(cmd))) = cmd
<1> DEFINE cmd == [kind |-> "connect", txn |-> txn, properties |-> Obj(x)]
           raw == Raw("connect", 0, txn, <<Obj(x)>>)
<1>1. RawCommand(cmd) = raw
  BY DEF RawCommand, RawWithTxn
<1>2. ParseRawCommand(Message(raw)) = raw
  <2>1. PICK o, S : o = <<Obj(x)>> /\ S = {Obj(x), Obj(x)}
    OBVIOUS
  <2>2. o \in Seq(S) /\ \A v \in S : IsValue(v)
    BY <2>1, ValueTypes, Pairs
  <2>3. ParseRawCommand(Message(Raw("connect", 0, txn, o))) = Raw("connect", 0, txn, o)
    BY <2>2, RawArrives
  <2> QED BY <2>1, <2>3
<1>3. raw # Failed /\ raw.name = "connect" /\ raw.stream = 0 /\ raw.txn = txn /\ raw.objects = <<Obj(x)>>
  BY DEF Failed, Raw
<1>4. <<Obj(x)>> # <<>> /\ 1 \in DOMAIN <<Obj(x)>> /\ <<Obj(x)>>[1] = Obj(x) /\ IsA(Obj(x), "object")
  BY ValueTypes
<1> HIDE DEF raw
<1>5. ParseConnectCommand(raw) = cmd
  BY <1>3, <1>4 DEF ParseConnectCommand, OnStreamZero, Object
<1> QED BY <1>1, <1>2, <1>3, <1>5 DEF ParseCommand

LEMMA CreateComesBack ==
  ASSUME NEW txn
  PROVE  LET cmd == [kind |-> "createStream", txn |-> txn]
         IN  ParseCommand(Message(RawCommand(cmd))) = cmd
<1> DEFINE cmd == [kind |-> "createStream", txn |-> txn]
           raw == Raw("createStream", 0, txn, <<>>)
<1>1. RawCommand(cmd) = raw
  BY DEF RawCommand, RawWithTxn
<1>2. ParseRawCommand(Message(raw)) = raw
  <2>1. PICK o, S : o = <<>> /\ S = {Null}
    OBVIOUS
  <2>2. o \in Seq(S) /\ \A v \in S : IsValue(v)
    BY <2>1, ValueTypes, EmptySeq
  <2>3. ParseRawCommand(Message(Raw("createStream", 0, txn, o))) = Raw("createStream", 0, txn, o)
    BY <2>2, RawArrives
  <2> QED BY <2>1, <2>3
<1>3. raw # Failed /\ raw.name = "createStream" /\ raw.stream = 0 /\ raw.txn = txn
  BY DEF Failed, Raw
<1> HIDE DEF raw
<1> QED BY <1>1, <1>2, <1>3 DEF ParseCommand, ParseCreateStreamCommand, OnStreamZero

LEMMA FCPublishComesBack ==
  ASSUME NEW name
  PROVE  LET cmd == [kind |-> "FCPublish", name |-> name]
         IN  ParseCommand(Message(RawCommand(cmd))) = cmd
<1> DEFINE cmd == [kind |-> "FCPublish", name |-> name]
           two == <<Null, Str(name)>>
           raw == Raw("FCPublish", 0, 0, two)
<1>1. RawCommand(cmd) = raw
  BY DEF RawCommand
<1>2. ParseRawCommand(Message(raw)) = raw
  <2>1. two \in Seq({Null, Str(name)}) /\ \A v \in {Null, Str(name)} : IsValue(v)
    BY ValueTypes, Pairs
  <2> HIDE DEF two
  <2> QED BY <2>1, RawArrives
<1>3. raw # Failed /\ raw.name = "FCPublish" /\ raw.stream = 0 /\ raw.objects = two
  BY DEF Failed, Raw
<1>4. Len(two) = 2 /\ 2 \in DOMAIN two /\ two[2] = Str(name) /\ IsA(Str(name), "string") /\ Str(name)[2] = name
  BY ValueTypes
<1> HIDE DEF raw, two
<1>5. ParseFCPublishCommand(raw) = cmd
  BY <1>3, <1>4 DEF ParseFCPublishCommand, OnStreamZero, TooFew, Object
<1> QED BY <1>1, <1>2, <1>3, <1>5 DEF ParseCommand

\* The answer to a command.
LEMMA ResultComesBack ==
  ASSUME NEW stream, NEW txn, NEW properties, NEW info, IsValue(properties), IsValue(info)
  PROVE  LET cmd == [kind |-> "_result", stream |-> stream, txn |-> txn, properties |-> properties, info |-> info]
         IN  ParseCommand(Message(RawCommand(cmd))) = cmd
<1> DEFINE cmd == [kind |-> "_result", stream |-> stream, txn |-> txn, properties |-> properties, info |-> info]
           two == <<properties, info>>
           raw == Raw("_result", stream, txn, two)
<1>1. RawCommand(cmd) = raw
  BY DEF RawCommand, RawWithTxn
<1>2. ParseRawCommand(Message(raw)) = raw
  <2>1. two \in Seq({properties, info}) /\ \A v \in {properties, info} : IsValue(v)
    BY Pairs
  <2> HIDE DEF two
  <2> QED BY <2>1, RawArrives
<1>3. raw # Failed /\ raw.name = "_result" /\ raw.stream = stream /\ raw.txn = txn /\ raw.objects = two
  BY DEF Failed, Raw
<1>4. Len(two) = 2 /\ 1 \in DOMAIN two /\ 2 \in DOMAIN two /\ two[1] = properties /\ two[2] = info
  OBVIOUS
<1> HIDE DEF raw, two
<1>5. ParseResultCommand(raw) = cmd
  BY <1>3, <1>4 DEF ParseResultCommand, TooFew, Object
<1> QED BY <1>1, <1>2, <1>3, <1>5 DEF ParseCommand

\* What a client prints comes back, but for what Lossy says.
LEMMA PrintedComesBack ==
  ASSUME NEW D, NEW cmd \in Printable(D), ~Lossy(cmd)
  PROVE  Arrives(cmd)
<1>1. ASSUME cmd.kind \in {"publish", "play"}, cmd.option # Unset,
             cmd \in [kind : {"publish", "play"}, stream : D, txn : D, name : D, option : {Unset} \cup {Set(x) : x \in D}]
      PROVE  ParseCommand(Message(RawCommand(cmd))) = cmd
  <2>1. PICK x : cmd.option = Set(x)
    BY <1>1
  <2>2. PICK k, s, t, n : k = cmd.kind /\ s = cmd.stream /\ t = cmd.txn /\ n = cmd.name
    OBVIOUS
  <2>3. cmd = [kind |-> k, stream |-> s, txn |-> t, name |-> n, option |-> Set(x)] /\ k \in {"publish", "play"}
    BY <1>1, <2>1, <2>2
  <2> QED BY <2>3, NamedComesBack
<1>2. ASSUME cmd \in [kind : {"connect"}, txn : D, properties : {Obj(x) : x \in D}]
      PROVE  ParseCommand(Message(RawCommand(cmd))) = cmd
  <2>1. PICK x : cmd.properties = Obj(x)
    BY <1>2
  <2>2. PICK t : t = cmd.txn
    OBVIOUS
  <2>3. cmd = [kind |-> "connect", txn |-> t, properties |-> Obj(x)]
    BY <1>2, <2>1, <2>2
  <2> QED BY <2>3, ConnectComesBack
<1>3. ASSUME cmd \in [kind : {"createStream"}, txn : D]
      PROVE  ParseCommand(Message(RawCommand(cmd))) = cmd
  <2>1. PICK t : t = cmd.txn
    OBVIOUS
  <2>2. cmd = [kind |-> "createStream", txn |-> t]
    BY <1>3, <2>1
  <2> QED BY <2>2, CreateComesBack
<1>4. ASSUME cmd \in [kind : {"FCPublish"}, name : D]
      PROVE  ParseCommand(Message(RawCommand(cmd))) = cmd
  <2>1. PICK n : n = cmd.name
    OBVIOUS
  <2>2. cmd = [kind |-> "FCPublish", name |-> n]
    BY <1>4, <2>1
  <2> QED BY <2>2, FCPublishComesBack
<1>5. \A v \in AMFValues(D) : IsValue(v)
  BY ValueTypes DEF AMFValues
<1>6. ASSUME cmd \in [kind : {"_result"}, stream : D, txn : D, properties : AMFValues(D), info : AMFValues(D)]
      PROVE  ParseCommand(Message(RawCommand(cmd))) = cmd
  <2>1. PICK s, t, p, i : s = cmd.stream /\ t = cmd.txn /\ p = cmd.properties /\ i = cmd.info
    OBVIOUS
  <2>2. cmd = [kind |-> "_result", stream |-> s, txn |-> t, properties |-> p, info |-> i]
    BY <1>6, <2>1
  <2>3. IsValue(p) /\ IsValue(i)
    BY <1>5, <1>6, <2>1
  <2> QED BY <2>2, <2>3, ResultComesBack
<1>7. ASSUME ~cmd.flex, cmd \in [kind : {"raw"}, flex : BOOLEAN, stream : D, name : D \ Parsed, txn : D,
                                 objects : Seq(AMFValues(D))]
      PROVE  ParseCommand(Message(RawCommand(cmd))) = cmd
  <2>1. PICK s, n, t, o : s = cmd.stream /\ n = cmd.name /\ t = cmd.txn /\ o = cmd.objects
    OBVIOUS
  <2>2. cmd = Raw(n, s, t, o) /\ n \notin Parsed
    BY <1>7, <2>1 DEF Raw
  <2>3. PICK S : S = AMFValues(D)
    OBVIOUS
  <2>4. o \in Seq(S) /\ \A v \in S : IsValue(v)
    BY <1>5, <1>7, <2>1, <2>3
  <2>5. ParseCommand(Message(Raw(n, s, t, o))) = Raw(n, s, t, o)
    BY <2>2, <2>4, RawComesBack
  <2>6. RawCommand(cmd) = cmd
    BY <1>7 DEF RawCommand
  <2> QED BY <2>2, <2>5, <2>6
<1>8. ParseCommand(Message(RawCommand(cmd))) = cmd /\ cmd.kind \notin {"onStatus", "onFCPublish"}
  <2>1. CASE cmd \in [kind : {"publish", "play"}, stream : D, txn : D, name : D, option : {Unset} \cup {Set(x) : x \in D}]
    BY <1>1, <2>1 DEF Lossy
  <2>2. CASE cmd \in [kind : {"deleteStream"}, txn : D, id : D]
    BY <2>2 DEF Lossy
  <2>3. CASE cmd \in [kind : {"raw"}, flex : BOOLEAN, stream : D, name : D \ Parsed, txn : D, objects : Seq(AMFValues(D))]
    BY <1>7, <2>3 DEF Lossy
  <2>4. CASE \/ cmd \in [kind : {"connect"}, txn : D, properties : {Obj(x) : x \in D}]
             \/ cmd \in [kind : {"createStream"}, txn : D] \/ cmd \in [kind : {"FCPublish"}, name : D]
             \/ cmd \in [kind : {"_result"}, stream : D, txn : D, properties : AMFValues(D), info : AMFValues(D)]
    BY <1>2, <1>3, <1>4, <1>6, <2>4
  <2> QED BY <2>1, <2>2, <2>3, <2>4 DEF Printable
<1> QED BY <1>8 DEF Arrives

\* What a handler sends arrives: the answer to a command, and as raw commands the statuses.
LEMMA AnswerArrives ==
  ASSUME NEW stream, NEW txn, NEW p, NEW i, IsValue(p), IsValue(i)
  PROVE  /\ Arrives(Result(txn, p, i)) /\ Result(txn, p, i).kind = "_result"
         /\ Arrives([kind |-> "onFCPublish", status |-> i])
         /\ Arrives([kind |-> "onStatus", stream |-> stream, txn |-> txn, properties |-> p, info |-> i])
<1>1. Arrives(Result(txn, p, i)) /\ Result(txn, p, i).kind = "_result"
  <2>1. PICK cmd : cmd = Result(txn, p, i)
    OBVIOUS
  <2>2. cmd = [kind |-> "_result", stream |-> 0, txn |-> txn, properties |-> p, info |-> i] /\ cmd.kind = "_result"
    BY <2>1 DEF Result
  <2>3. ParseCommand(Message(RawCommand(cmd))) = cmd
    BY <2>2, ResultComesBack
  <2> QED BY <2>1, <2>2, <2>3 DEF Arrives
<1>2. ASSUME NEW cmd, NEW n, NEW s, NEW t, NEW a, NEW b, IsValue(a), IsValue(b), cmd.kind \in {"onStatus", "onFCPublish"},
             n \in {"onStatus", "onFCPublish"}, RawCommand(cmd) = Raw(n, s, t, <<a, b>>)
      PROVE  Arrives(cmd)
  <2>1. PICK o, S : o = <<a, b>> /\ S = {a, b}
    OBVIOUS
  <2>2. o \in Seq(S) /\ (\A v \in S : IsValue(v)) /\ n \notin Parsed
    BY <1>2, <2>1, Pairs DEF Parsed
  <2>3. ParseCommand(Message(Raw(n, s, t, o))) = Raw(n, s, t, o)
    BY <2>2, RawComesBack
  <2> QED BY <1>2, <2>1, <2>3 DEF Arrives
<1>3. Arrives([kind |-> "onFCPublish", status |-> i])
  <2>1. PICK cmd : cmd = [kind |-> "onFCPublish", status |-> i]
    OBVIOUS
  <2>2. cmd.kind = "onFCPublish" /\ RawCommand(cmd) = Raw("onFCPublish", 0, 0, <<Null, i>>)
    BY <2>1 DEF RawCommand
  <2> QED BY <1>2, <2>1, <2>2, ValueTypes
<1>4. Arrives([kind |-> "onStatus", stream |-> stream, txn |-> txn, properties |-> p, info |-> i])
  <2>1. PICK cmd : cmd = [kind |-> "onStatus", stream |-> stream, txn |-> txn, properties |-> p, info |-> i]
    OBVIOUS
  <2>2. cmd.kind = "onStatus" /\ RawCommand(cmd) = Raw("onStatus", stream, txn, <<p, i>>)
    BY <2>1 DEF RawCommand, RawWithTxn
  <2> QED BY <1>2, <2>1, <2>2
<1> QED BY <1>1, <1>3, <1>4

----------------------------------------------------------------------------
(* What the parser does not survive.                                       *)

\* The objects of a command are a sequence, if its body is.
LEMMA RawObjects ==
  ASSUME NEW S, NEW msg, msg.body \in Seq(S), ParseRawCommand(msg) # Failed
  PROVE  ParseRawCommand(msg).objects \in Seq(S)
<1>1. PICK body : body = IF msg.type = COMMAND_AMF3 THEN Tail(msg.body) ELSE msg.body
  OBVIOUS
<1>2. body \in Seq(S)
  <2>1. CASE msg.type # COMMAND_AMF3
    BY <1>1, <2>1
  <2>2. CASE msg.type = COMMAND_AMF3
    <3>1. msg.body # <<>>
      BY <2>2 DEF ParseRawCommand
    <3> QED BY <1>1, <2>2, <3>1, HeadTailProperties
  <2> QED BY <2>1, <2>2
<1>3. ParseRawCommand(msg).objects = SubSeq(body, 3, Len(body))
  BY <1>1 DEF ParseRawCommand
<1>4. Len(body) \in Nat
  BY <1>2, LenProperties
<1>5. PICK n \in Int : n = Len(body)
  BY <1>4
<1>6. \A i \in 3..n : body[i] \in S
  BY <1>2, <1>4, <1>5, ElementOfSeq
<1>7. SubSeq(body, 3, n) \in Seq(S)
  BY <1>6, SubSeqProperties
<1> QED BY <1>3, <1>5, <1>7

\* The parser panics on an _error, and on publish and play without their third object.
LEMMA PanicIsShort ==
  ASSUME NEW S, NEW msg, msg.body \in Seq(S), ParseCommand(msg) = Panicked
  PROVE  LET raw == ParseRawCommand(msg)
         IN  raw.name = "_error" \/ (raw.name \in {"publish", "play"} /\ Len(raw.objects) = 2)
<1> DEFINE raw == ParseRawCommand(msg)
<1>1. raw # Failed
  BY DEF ParseCommand, Failed, Panicked
<1>2. raw.objects \in Seq(S) /\ raw.kind = "raw"
  BY <1>1, RawObjects, RawStream
<1>3. PICK n \in Nat : n = Len(raw.objects) /\ DOMAIN raw.objects = 1..n
  BY <1>2, LenProperties
<1> HIDE DEF raw
<1>4. ASSUME NEW type, raw.name \in {"publish", "play"}, ParseNamed(raw, type) = Panicked PROVE n = 2
  <2>1. n >= 2
    BY <1>3, <1>4 DEF ParseNamed, TooFew, Object, Failed, Panicked
  <2>2. 3 \notin 1..n
    BY <1>3, <1>4, <2>1 DEF ParseNamed, TooFew, Object, Failed, Panicked
  <2> QED BY <2>1, <2>2
<1>5. CASE raw.name = "publish"
  <2>1. ParseNamed(raw, "string") = Panicked
    BY <1>1, <1>5 DEF ParseCommand, raw
  <2> QED BY <1>3, <1>4, <1>5, <2>1 DEF raw
<1>6. CASE raw.name = "play"
  <2>1. ParseNamed(raw, "number") = Panicked
    BY <1>1, <1>6 DEF ParseCommand, raw
  <2> QED BY <1>3, <1>4, <1>6, <2>1 DEF raw
<1>7. CASE raw.name \in {"deleteStream", "FCPublish", "_result"}
  <2>1. Panicked \in {ParseDeleteStreamCommand(raw), ParseFCPublishCommand(raw), ParseResultCommand(raw)}
    BY <1>1, <1>7 DEF ParseCommand, raw
  <2>2. ~TooFew(raw) => 1 \in DOMAIN raw.objects /\ 2 \in DOMAIN raw.objects
    BY <1>3 DEF TooFew
  <2> QED BY <2>1, <2>2 DEF ParseDeleteStreamCommand, ParseFCPublishCommand, ParseResultCommand, Object, Failed, Panicked
<1>8. CASE raw.name = "connect"
  <2>1. ParseConnectCommand(raw) = Panicked
    BY <1>1, <1>8 DEF ParseCommand, raw
  <2>2. raw.objects # <<>> => 1 \in DOMAIN raw.objects
    <3>1. raw.objects # <<>> => n # 0
      BY <1>2, <1>3, EmptySeq
    <3> QED BY <1>3, <3>1
  <2> QED BY <2>1, <2>2 DEF ParseConnectCommand, Object, Failed, Panicked
<1>9. CASE raw.name = "createStream"
  BY <1>1, <1>9 DEF ParseCommand, ParseCreateStreamCommand, Failed, Panicked, raw
<1>10. CASE raw.name \notin Parsed
  <2>1. ParseCommand(msg) = raw
    BY <1>1, <1>10 DEF ParseCommand, Parsed, raw
  <2> QED BY <1>2, <2>1 DEF Panicked
<1>11. CASE raw.name = "_error"
  BY <1>11 DEF raw
<1> QED BY <1>5, <1>6, <1>7, <1>8, <1>9, <1>10, <1>11 DEF Parsed

\* What is printed of a command is a sequence of values.
LEMMA MessageBody ==
  ASSUME NEW raw, IsSequence(raw.objects)
  PROVE  IsSequence(Message(raw).body)
<1>1. PICK S : raw.objects \in Seq(S)
  BY DEF IsSequence
<1>2. PICK T : T = S \cup {ZeroByte, Str(raw.name), Num(raw.txn)}
  OBVIOUS
<1>3. PICK o, h, z : o = raw.objects /\ h = <<Str(raw.name), Num(raw.txn)>> /\ z = IF raw.flex THEN <<ZeroByte>> ELSE <<>>
  OBVIOUS
<1>4. h \in Seq(T) /\ z \in Seq(T)
  <2>1. ZeroByte \in T /\ Str(raw.name) \in T /\ Num(raw.txn) \in T
    BY <1>2
  <2>2. h \in Seq(T)
    BY <1>3, <2>1
  <2>3. z \in Seq(T)
    BY <1>3, <2>1, EmptySeq
  <2> QED BY <2>2, <2>3
<1>5. o \in Seq(T)
  <2>1. S \subseteq T
    BY <1>2
  <2> QED BY <1>1, <1>3, <2>1, SeqMonotonic
<1>6. PICK y : y = z \o h
  OBVIOUS
<1>7. y \in Seq(T)
  BY <1>4, <1>6, ConcatProperties
<1>8. y \o o \in Seq(T)
  BY <1>5, <1>7, ConcatProperties
<1>9. Message(raw).body = y \o o
  BY <1>3, <1>6 DEF Message
<1> QED BY <1>8, <1>9 DEF IsSequence

LEMMA PrintedObjects ==
  ASSUME NEW D, NEW cmd \in Printable(D)
  PROVE  IsSequence(RawCommand(cmd).objects)
<1>1. ASSUME NEW a, NEW b PROVE IsSequence(<<>>) /\ IsSequence(<<a>>) /\ IsSequence(<<a, b>>)
  BY Pairs DEF IsSequence
<1>2. CASE cmd.kind \in {"publish", "play"}
  <2>1. PICK p, o, s : /\ p = <<Null, Str(cmd.name)>> /\ o \in {Option(cmd.option, "string"), Option(cmd.option, "number")}
                       /\ RawCommand(cmd).objects = p \o o
    BY <1>2 DEF RawCommand, RawWithTxn, Raw
  <2>2. PICK T : T = {Null, Str(cmd.name), <<"string", cmd.option[1]>>, <<"number", cmd.option[1]>>}
    OBVIOUS
  <2>3. p \in Seq(T)
    <3>1. Null \in T /\ Str(cmd.name) \in T
      BY <2>2
    <3> QED BY <2>1, <3>1
  <2>4. o \in Seq(T)
    <3>1. PICK v : v \in T /\ o \in {<<>>, <<v>>}
      BY <2>1, <2>2 DEF Option
    <3>2. <<>> \in Seq(T) /\ <<v>> \in Seq(T)
      BY <3>1
    <3> QED BY <3>1, <3>2
  <2>5. p \o o \in Seq(T)
    BY <2>3, <2>4, ConcatProperties
  <2> QED BY <2>1, <2>5 DEF IsSequence
<1>3. CASE cmd.kind \in {"connect", "createStream", "deleteStream", "FCPublish", "_result"}
  <2>1. RawCommand(cmd).objects \in {<<cmd.properties>>, <<>>, <<Null, Num(cmd.id)>>, <<Null, Str(cmd.name)>>,
                                     <<cmd.properties, cmd.info>>}
    BY <1>3 DEF RawCommand, RawWithTxn, Raw
  <2> QED BY <1>1, <2>1
<1>4. CASE cmd.kind = "raw"
  <2>1. RawCommand(cmd) = cmd
    BY <1>4 DEF RawCommand
  <2>2. cmd.objects \in Seq(AMFValues(D))
    BY <1>4 DEF Printable
  <2> QED BY <2>1, <2>2 DEF IsSequence
<1>5. cmd.kind \in {"publish", "play", "connect", "createStream", "deleteStream", "FCPublish", "_result", "raw"}
  BY DEF Printable
<1> QED BY <1>2, <1>3, <1>4, <1>5

----------------------------------------------------------------------------
(* The invariant of a session.                                             *)

\* An answer that arrives.
Fine(x) == x.kind \in {"_result", "onStatus", "onFCPublish"} /\ Arrives(x)

AnswersFine(a) == IsSequence(a) /\ \A i \in DOMAIN a : Fine(a[i])

\* The reader stops at the message that made it panic; who gets a message is there.
SessionInv ==
  /\ AnswersFine(answers)
  /\ status \in {"reading", "closed", "panicked"} /\ streams \subseteq Ids /\ app \in {"", "app"}
  /\ reads \in 0..MaxReads
  /\ last # None => /\ last.to \subseteq {0} \cup Ids
                    /\ last.from # None => last.from \in Commands
  /\ status = "panicked" => ParseCommand(last.msg) = Panicked /\ IsSequence(last.msg.body)

LEMMA FineAppend ==
  ASSUME NEW a, AnswersFine(a), NEW x, Fine(x)
  PROVE  AnswersFine(Append(a, x)) /\ a \o <<x>> = Append(a, x) /\ a \o <<>> = a
<1>1. PICK S : a \in Seq(S)
  BY DEF AnswersFine, IsSequence
<1>2. PICK T : T = S \cup {x}
  OBVIOUS
<1>3. a \in Seq(T) /\ x \in T
  <2>1. S \subseteq T /\ x \in T
    BY <1>2
  <2> QED BY <1>1, <2>1, SeqMonotonic
<1>4. PICK b : b = Append(a, x)
  OBVIOUS
<1>5. /\ b \in Seq(T) /\ Len(b) = Len(a) + 1 /\ b[Len(a) + 1] = x /\ \A i \in 1..Len(a) : b[i] = a[i]
  BY <1>3, <1>4, AppendProperties
<1>6. DOMAIN a = 1..Len(a) /\ DOMAIN b = 1..(Len(a) + 1) /\ Len(a) \in Nat
  BY <1>3, <1>5, LenProperties
<1>7. \A i \in DOMAIN b : Fine(b[i])
  BY <1>5, <1>6 DEF AnswersFine
<1>8. a \o <<x>> = Append(a, x) /\ a \o <<>> = a
  BY <1>3, AppendIsConcat, ConcatEmptySeq
<1> QED BY <1>4, <1>5, <1>7, <1>8 DEF AnswersFine, IsSequence

\* One answer, two, or none.
LEMMA AnswersStep ==
  ASSUME NEW a, AnswersFine(a)
  PROVE  /\ AnswersFine(a \o <<>>)
         /\ \A x : Fine(x) => AnswersFine(a \o <<x>>) /\ AnswersFine(Append(a, x))
         /\ \A x, y : Fine(x) /\ Fine(y) => AnswersFine(a \o <<x, y>>)
<1>1. a \o <<>> = a
  <2>1. PICK S : a \in Seq(S)
    BY DEF AnswersFine, IsSequence
  <2> QED BY <2>1, ConcatEmptySeq
<1>2. \A x : Fine(x) => AnswersFine(a \o <<x>>) /\ AnswersFine(Append(a, x))
  BY FineAppend
<1>3. ASSUME NEW x, NEW y, Fine(x), Fine(y) PROVE AnswersFine(a \o <<x, y>>)
  <2>1. PICK b : b = Append(a, x)
    OBVIOUS
  <2>2. AnswersFine(b)
    BY <1>2, <1>3, <2>1
  <2>3. PICK c : c = Append(b, y)
    OBVIOUS
  <2>4. AnswersFine(c)
    BY <1>3, <2>2, <2>3, FineAppend
  <2>5. c = a \o <<x, y>>
    <3>1. PICK S : a \in Seq(S)
      BY DEF AnswersFine, IsSequence
    <3>2. PICK T : T = S \cup {x, y}
      OBVIOUS
    <3>3. a \in Seq(T) /\ x \in T /\ y \in T
      <4>1. S \subseteq T /\ x \in T /\ y \in T
        BY <3>2
      <4> QED BY <3>1, <4>1, SeqMonotonic
    <3>4. PICK p, q, r : p = <<x>> /\ q = <<y>> /\ r = <<x, y>>
      OBVIOUS
    <3>5. p \in Seq(T) /\ q \in Seq(T) /\ r \in Seq(T)
      BY <3>3, <3>4
    <3>6. b = a \o p /\ b \in Seq(T)
      BY <2>1, <3>3, <3>4, AppendIsConcat, AppendProperties
    <3>7. c = b \o q
      BY <2>3, <3>3, <3>4, <3>6, AppendIsConcat
    <3>8. (a \o p) \o q = a \o (p \o q)
      BY <3>3, <3>5, ConcatAssociative, SMTT(30)
    <3>9. p \o q = r
      <4>1. Len(p) = 1 /\ Len(q) = 1 /\ Len(r) = 2 /\ p[1] = x /\ q[1] = y /\ r[1] = x /\ r[2] = y
        BY <3>4
      <4>2. /\ p \o q \in Seq(T) /\ Len(p \o q) = Len(p) + Len(q)
            /\ \A i \in 1..(Len(p) + Len(q)) : (p \o q)[i] = IF i <= Len(p) THEN p[i] ELSE q[i - Len(p)]
        BY <3>5, ConcatProperties
      <4>3. \A i \in 1..2 : (p \o q)[i] = r[i]
        BY <4>1, <4>2
      <4> QED BY <3>5, <4>1, <4>2, <4>3, SeqEqual
    <3> QED BY <3>4, <3>6, <3>7, <3>8, <3>9
  <2> QED BY <2>4, <2>5
<1> QED BY <1>1, <1>2, <1>3, FineAppend

\* The answers of the handlers.
LEMMA FineAnswers ==
  /\ \A txn, p, i : IsValue(p) /\ IsValue(i) => Fine(Result(txn, p, i))
  /\ \A stream, txn, i : Fine(OnStatus(stream, txn, i))
  /\ \A i : Fine([kind |-> "onFCPublish", status |-> Obj(i)])
<1>1. ASSUME NEW txn, NEW p, NEW i, IsValue(p), IsValue(i) PROVE Fine(Result(txn, p, i))
  BY <1>1, AnswerArrives DEF Fine
<1>2. ASSUME NEW stream, NEW txn, NEW i PROVE Fine(OnStatus(stream, txn, i))
  <2>1. IsValue(Null) /\ IsValue(Obj(i))
    BY ValueTypes
  <2>2. PICK o, n : o = Obj(i) /\ n = Null
    OBVIOUS
  <2>3. Arrives([kind |-> "onStatus", stream |-> stream, txn |-> txn, properties |-> n, info |-> o])
    BY <2>1, <2>2, AnswerArrives
  <2> QED BY <2>2, <2>3 DEF Fine, OnStatus
<1>3. ASSUME NEW i PROVE Fine([kind |-> "onFCPublish", status |-> Obj(i)])
  <2>1. IsValue(Null) /\ IsValue(Obj(i))
    BY ValueTypes
  <2>2. PICK o : o = Obj(i)
    OBVIOUS
  <2>3. Arrives([kind |-> "onFCPublish", status |-> o])
    BY <2>1, <2>2, AnswerArrives
  <2> QED BY <2>2, <2>3 DEF Fine
<1> QED BY <1>1, <1>2, <1>3

\* The bodies of messages are sequences, printed ones as well as foreign ones.
LEMMA InboundBodies ==
  ASSUME NEW D, Commands \subseteq Printable(D), NEW V, \A m \in Foreign : m.body \in Seq(V), NEW in \in Inbound
  PROVE  IsSequence(in.msg.body) /\ (in.from # None => in.from \in Commands)
<1>1. ASSUME NEW c \in Commands, in = [from |-> c, msg |-> Message(RawCommand(c))] PROVE IsSequence(in.msg.body)
  <2>1. IsSequence(RawCommand(c).objects)
    BY PrintedObjects
  <2> QED BY <1>1, <2>1, MessageBody
<1>2. ASSUME NEW m \in Foreign, in = [from |-> None, msg |-> m] PROVE IsSequence(in.msg.body)
  BY <1>2 DEF IsSequence
<1> QED BY <1>1, <1>2 DEF Inbound

\* What every message read does: it is counted, and somebody there, or nobody, gets it.
LEMMA ReadsStep ==
  ASSUME SessionInv, NEW in, in.from # None => in.from \in Commands, NEW to, to \subseteq {0} \cup Ids, Reads(in, to)
  PROVE  /\ reads' \in 0..MaxReads /\ status = "reading"
         /\ (last # None => /\ last.to \subseteq {0} \cup Ids
                            /\ last.from # None => last.from \in Commands)'
         /\ last'.msg = in.msg
<1>1. last' = [msg |-> in.msg, from |-> in.from, to |-> to]
  BY DEF Reads
<1>2. reads' \in 0..MaxReads
  <2>1. reads \in 0..MaxReads /\ reads < MaxReads /\ reads' = reads + 1
    BY DEF SessionInv, Reads
  <2>2. MaxReads \in Nat
    BY SessionAssumption
  <2> QED BY <2>1, <2>2
<1> QED BY <1>1, <1>2 DEF Reads

LEMMA SessionStep ==
  ASSUME NEW D, Commands \subseteq Printable(D), NEW V, \A m \in Foreign : m.body \in Seq(V)
  PROVE  SessionInv /\ [SessionNext]_allVars => SessionInv'
<1> SUFFICES ASSUME SessionInv, [SessionNext]_allVars PROVE SessionInv'
  OBVIOUS
<1>1. CASE UNCHANGED sessionVars
  BY <1>1 DEF sessionVars, SessionInv, AnswersFine
<1>2. ASSUME NEW in \in Inbound, OnMessage(in) PROVE SessionInv'
  <2>1. IsSequence(in.msg.body) /\ (in.from # None => in.from \in Commands)
    BY InboundBodies
  <2>2. AnswersFine(answers)
    BY DEF SessionInv
  <2>3. \E to : to \subseteq {0} \cup Ids /\ Reads(in, to)
    <3>1. ASSUME NEW kind, Gets(in, kind) PROVE \E to : to \subseteq {0} \cup Ids /\ Reads(in, to)
      BY <3>1 DEF Gets, SessionInv
    <3>2. ASSUME Receive(in) PROVE \E to : to \subseteq {0} \cup Ids /\ Reads(in, to)
      BY <3>2 DEF Receive, SessionInv
    <3>3. ASSUME NoSuchStream(in) \/ Panic(in) PROVE \E to : to \subseteq {0} \cup Ids /\ Reads(in, to)
      BY <3>3 DEF NoSuchStream, Panic
    <3> QED BY <1>2, <3>1, <3>2, <3>3
        DEF OnMessage, Connect, CreateStream, DeleteStream, FCPublish, Publish, Play, Ignore, Refuse
  <2>4. /\ reads' \in 0..MaxReads /\ status = "reading"
        /\ (last # None => /\ last.to \subseteq {0} \cup Ids
                           /\ last.from # None => last.from \in Commands)'
        /\ last'.msg = in.msg
    BY <2>1, <2>3, ReadsStep
  <2>5. ASSUME NEW x, NEW y, Fine(x), Fine(y),
               answers' \in {answers, answers \o <<>>, answers \o <<x>>, answers \o <<x, y>>, Append(answers, x)},
               status' \in {"reading", "closed"}, streams' \subseteq Ids, app' \in {"", "app"}
        PROVE  SessionInv'
    <3>1. AnswersFine(answers')
      BY <2>2, <2>5, AnswersStep
    <3> QED BY <2>4, <2>5, <3>1 DEF SessionInv, AnswersFine
  <2>6. ASSUME NEW p, NEW i, NEW s, NEW t
        PROVE  Fine(OnStatus(s, t, i)) /\ Fine(Result(t, Null, Num(i))) /\ Fine([kind |-> "onFCPublish", status |-> Obj(i)])
               /\ Fine(Result(t, Obj(p), Obj(i)))
    BY FineAnswers, ValueTypes
  <2>7. streams \subseteq Ids /\ app \in {"", "app"} /\ FromOne = Ids
    BY DEF SessionInv, FromOne, Ids
  <2>8. CASE Connect(in)
    BY <2>4, <2>5, <2>6, <2>7, <2>8 DEF Connect, Answer
  <2>9. CASE CreateStream(in)
    BY <2>4, <2>5, <2>6, <2>7, <2>9 DEF CreateStream, Answer
  <2>10. CASE FCPublish(in)
    BY <2>4, <2>5, <2>6, <2>7, <2>10 DEF FCPublish, Answer
  <2>11. CASE Publish(in)
    BY <2>4, <2>5, <2>6, <2>7, <2>11 DEF Publish, Answer
  <2>12. CASE Play(in)
    BY <2>4, <2>5, <2>6, <2>7, <2>12 DEF Play, Answer
  <2>13. CASE DeleteStream(in) \/ Ignore(in) \/ Receive(in)
    BY <2>4, <2>5, <2>6, <2>7, <2>13 DEF DeleteStream, Ignore, Receive, Answer
  <2>14. CASE Refuse(in) \/ NoSuchStream(in)
    BY <2>5, <2>6, <2>7, <2>14 DEF Refuse, NoSuchStream, Fatal
  <2>15. CASE Panic(in)
    BY <2>1, <2>2, <2>4, <2>7, <2>15 DEF Panic, SessionInv, AnswersFine
  <2> QED BY <1>2, <2>8, <2>9, <2>10, <2>11, <2>12, <2>13, <2>14, <2>15 DEF OnMessage
<1> QED BY <1>1, <1>2 DEF SessionNext, allVars

LEMMA SessionStart == SessionInit => SessionInv
<1>1. <<>> \in Seq({}) /\ DOMAIN <<>> = {}
  BY EmptySeq
<1>2. AnswersFine(<<>>)
  BY <1>1 DEF AnswersFine, IsSequence
<1>3. 0 \in 0..MaxReads
  BY SessionAssumption DEF SessionAssumption
<1> QED BY <1>2, <1>3 DEF SessionInit, SessionInv

LEMMA SessionInvariant ==
  ASSUME NEW D, Commands \subseteq Printable(D), NEW V, \A m \in Foreign : m.body \in Seq(V)
  PROVE  SessionSpec => []SessionInv
BY SessionStart, SessionStep, PTL DEF SessionSpec

\* Every variable of a session keeps its type.
THEOREM SessionTypeCorrect ==
  ASSUME NEW D, Commands \subseteq Printable(D), NEW V, \A m \in Foreign : m.body \in Seq(V)
  PROVE  SessionSpec => []SessionTypeOK
<1>1. HandshakeTypeOK /\ SessionInv => SessionTypeOK
  BY DEF SessionInv, SessionTypeOK, AnswersFine, Fine
<1> QED BY <1>1, SessionInvariant, SessionHandshakes, HandshakeTypeCorrect, PTL

\* What this library prints it parses (command.go): the commands of a client, but for what
\* Lossy says is lost, and everything the handlers answer.
THEOREM PrintedIsParsed ==
  ASSUME NEW D, Commands \subseteq Printable(D), NEW V, \A m \in Foreign : m.body \in Seq(V)
  PROVE  SessionSpec => []ComesBack
<1>1. SessionInv => ComesBack
  <2> SUFFICES ASSUME SessionInv PROVE ComesBack
    OBVIOUS
  <2>1. ASSUME last # None, last.from # None, ~Lossy(last.from) PROVE Arrives(last.from)
    <3>1. PICK c \in Printable(D) : c = last.from
      BY <2>1 DEF SessionInv
    <3> QED BY <2>1, <3>1, PrintedComesBack
  <2> QED BY <2>1 DEF SessionInv, ComesBack, AnswersFine, Fine
<1> QED BY <1>1, SessionInvariant, PTL

\* A publish or play whose optional argument is not set: Printable has them.
OptionLeftOut(cmd) == cmd.kind \in {"publish", "play"} /\ cmd.option = Unset

\* The library prints two objects for it, its check accepts two, and its parser reads a third.
LEMMA LeftOutPanics ==
  ASSUME NEW kind \in {"publish", "play"}, NEW stream, NEW txn, NEW name
  PROVE  LET cmd == [kind |-> kind, stream |-> stream, txn |-> txn, name |-> name, option |-> Unset]
         IN  ParseCommand(Message(RawCommand(cmd))) = Panicked
<1> DEFINE cmd == [kind |-> kind, stream |-> stream, txn |-> txn, name |-> name, option |-> Unset]
           type == IF kind = "publish" THEN "string" ELSE "number"
           two == <<Null, Str(name)>>
           raw == Raw(kind, stream, txn, two)
           S == {Null, Str(name)}
<1>1. two \in Seq(S) /\ Len(two) = 2 /\ DOMAIN two = 1..2 /\ two[2] = Str(name)
  OBVIOUS
<1>2. two \o <<>> = two
  <2> HIDE DEF S, two
  <2> QED BY <1>1, ConcatEmptySeq
<1>3. RawCommand(cmd) = raw
  <2>1. Option(Unset, "string") = <<>> /\ Option(Unset, "number") = <<>>
    BY DEF Option, Unset
  <2> QED BY <1>2, <2>1 DEF RawCommand, RawWithTxn
<1>4. \A v \in S : IsValue(v)
  BY ValueTypes
<1>5. ParseRawCommand(Message(raw)) = raw
  <2> HIDE DEF S, two
  <2> QED BY <1>1, <1>4, RawArrives
<1>6. raw # Failed /\ raw.name = kind /\ raw.objects = two
  BY DEF Failed, Raw
<1>7. IsA(two[2], "string")
  BY <1>1, ValueTypes
<1> HIDE DEF raw, two
<1>8. ParseNamed(raw, type) = Panicked
  <2>1. ~TooFew(raw) /\ 2 \in DOMAIN raw.objects /\ 3 \notin DOMAIN raw.objects /\ IsA(raw.objects[2], "string")
    BY <1>1, <1>6, <1>7 DEF TooFew
  <2> QED BY <2>1 DEF ParseNamed, Object
<1>9. ParseCommand(Message(raw)) = ParseNamed(raw, type)
  BY <1>5, <1>6 DEF ParseCommand
<1> QED BY <1>3, <1>8, <1>9

\* command.go:176 and command.go:224: a client of this library that publishes or plays
\* without the optional argument ends the program of the server, whatever the other fields are.
THEOREM LeftOutEndsProgram ==
  ASSUME NEW D, Commands \subseteq Printable(D)
  PROVE  SessionSpec => [](last # None /\ last.from # None /\ OptionLeftOut(last.from) => status = "panicked")
<1> DEFINE Panics == last # None /\ last.from # None /\ OptionLeftOut(last.from) => status = "panicked"
<1>1. SessionInit => Panics
  BY DEF SessionInit
<1>2. Panics /\ [SessionNext]_allVars => Panics'
  <2> SUFFICES ASSUME Panics, [SessionNext]_allVars PROVE Panics'
    OBVIOUS
  <2>1. CASE UNCHANGED sessionVars
    BY <2>1 DEF sessionVars, OptionLeftOut
  <2>2. ASSUME NEW in \in Inbound, OnMessage(in) PROVE Panics'
    <3>1. last'.from = in.from
      <4>1. ASSUME NEW kind, Gets(in, kind) PROVE last'.from = in.from
        BY <4>1 DEF Gets, Reads
      <4>2. ASSUME Receive(in) \/ NoSuchStream(in) \/ Panic(in) PROVE last'.from = in.from
        BY <4>2 DEF Receive, NoSuchStream, Panic, Reads
      <4> QED BY <2>2, <4>1, <4>2
          DEF OnMessage, Connect, CreateStream, DeleteStream, FCPublish, Publish, Play, Ignore, Refuse
    <3> SUFFICES ASSUME in.from # None, OptionLeftOut(in.from) PROVE status' = "panicked"
      BY <3>1 DEF OptionLeftOut
    <3>2. PICK c : c \in Commands /\ c = in.from /\ in.msg = Message(RawCommand(c))
      BY DEF Inbound
    <3>3. c.kind \in {"publish", "play"} /\ c = [kind |-> c.kind, stream |-> c.stream, txn |-> c.txn,
                                               name |-> c.name, option |-> Unset]
      <4>1. c.kind \in {"publish", "play"} /\ c.option = Unset
        BY <3>2 DEF OptionLeftOut
      <4>2. c \in [kind : {"publish", "play"}, stream : D, txn : D, name : D,
                   option : {Unset} \cup {Set(x) : x \in D}]
        BY <3>2, <4>1 DEF Printable
      <4> QED BY <4>1, <4>2
    <3>4. ParseCommand(in.msg) = Panicked
      BY <3>2, <3>3, LeftOutPanics
    <3>5. Panic(in)
      <4>1. IsCommand(in.msg)
        BY <3>2 DEF Message, IsCommand
      <4>2. ~Gets(in, "connect") /\ ~Gets(in, "createStream") /\ ~Gets(in, "deleteStream") /\ ~Gets(in, "FCPublish")
            /\ ~Gets(in, "publish") /\ ~Gets(in, "play") /\ ~Gets(in, "raw") /\ ~Gets(in, "_result")
        BY <3>4 DEF Gets, Panicked
      <4>3. ~Receive(in) /\ ~NoSuchStream(in)
        BY <3>4, <4>1 DEF Receive, NoSuchStream, Unread, Panicked, Failed
      <4> QED BY <2>2, <4>2, <4>3
          DEF OnMessage, Connect, CreateStream, DeleteStream, FCPublish, Publish, Play, Ignore, Refuse
    <3> QED BY <3>5 DEF Panic
  <2> QED BY <2>1, <2>2 DEF SessionNext, allVars
<1> QED BY <1>1, <1>2, PTL DEF SessionSpec

\* The panics that the code has: those of publish and play with two objects, and that of
\* _error, which has no parser.
KnownPanic(msg) ==
  LET raw == ParseRawCommand(msg) IN
    raw.name = "_error" \/ (raw.name \in {"publish", "play"} /\ Len(raw.objects) = 2)

\* It has no others: for every message there can be, all other indexing of command.go is
\* within bounds, publish and play with three objects or more included.
THEOREM PanicsAreKnown ==
  ASSUME NEW D, Commands \subseteq Printable(D), NEW V, \A m \in Foreign : m.body \in Seq(V)
  PROVE  SessionSpec => [](status = "panicked" => KnownPanic(last.msg))
<1>1. ASSUME SessionInv, status = "panicked" PROVE KnownPanic(last.msg)
  <2>1. PICK m : m = last.msg
    OBVIOUS
  <2>2. PICK S : m.body \in Seq(S)
    BY <1>1, <2>1 DEF SessionInv, IsSequence
  <2>3. ParseCommand(m) = Panicked
    BY <1>1, <2>1 DEF SessionInv
  <2>4. KnownPanic(m)
    BY <2>2, <2>3, PanicIsShort DEF KnownPanic
  <2> QED BY <2>1, <2>4
<1> QED BY <1>1, SessionInvariant, PTL
=============================================================================
