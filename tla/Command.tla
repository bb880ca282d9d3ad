------------------------------ MODULE Command ------------------------------
(***************************************************************************)
(* Commands and the messages that carry them: command.go, as operators.    *)
(*                                                                         *)
(* ParseCommand reads a command from a message, RawCommand prints one, and *)
(* Message makes a message of what was printed.  The AMF encoding is       *)
(* external (goamf): the body of a message is a sequence of values, each a *)
(* pair of its type and its datum.                                         *)
(***************************************************************************)
EXTENDS Naturals, Sequences

Null         == <<"null">>
Str(s)       == <<"string", s>>
Num(n)       == <<"number", n>>
Obj(x)       == <<"object", x>>   \* an amf.Object; x is its "app", all that is read of one
IsA(v, type) == v[1] = type

\* A byte in front of the values of a flex command, zero in those of this library; and
\* what no AMF decoder reads, a lone byte included.
Byte(b)   == <<"byte", b>>
ZeroByte  == Byte(0)
Garbage   == <<"garbage">>
Unreadable(v) == IsA(v, "byte") \/ IsA(v, "garbage")

COMMAND_AMF0 == "amf0"
COMMAND_AMF3 == "amf3"
IsCommand(msg) == msg.type \in {COMMAND_AMF0, COMMAND_AMF3}

\* An optional number or string: OptionalFloat, OptionalString.
Unset  == <<>>
Set(x) == <<x>>

----------------------------------------------------------------------------
(* Parsing: a command, an error, or a panic.                               *)

Failed   == [kind |-> "error"]
Panicked == [kind |-> "panic"]

\* F of the i-th object: an index that is out of range panics.
Object(raw, i, F(_)) == IF i \in DOMAIN raw.objects THEN F(raw.objects[i]) ELSE Panicked

\* The first byte of a flex body is dropped, whatever it is; what is left of a value
\* without its type marker is not read as a string.
ParseRawCommand(msg) ==
  LET flex == msg.type = COMMAND_AMF3
      body == IF flex THEN Tail(msg.body) ELSE msg.body
  IN  IF \/ flex /\ (msg.body = <<>> \/ ~IsA(Head(msg.body), "byte"))
         \/ Len(body) < 2
         \/ ~IsA(body[1], "string") \/ ~IsA(body[2], "number")
         \/ \E i \in DOMAIN body : Unreadable(body[i])
        THEN Failed
        ELSE [kind |-> "raw", flex |-> flex, stream |-> msg.stream, name |-> body[1][2],
              txn |-> body[2][2], objects |-> SubSeq(body, 3, Len(body))]

\* Fault for the mutation runs: any stream will do.
OnAnyStream(raw) == TRUE

TooFew(raw)      == Len(raw.objects) < 2
OnStreamZero(raw) == raw.stream = 0

\* play and publish: the check admits two objects, and the third is read.
ParseNamed(raw, type) ==
  IF TooFew(raw) THEN Failed ELSE
  Object(raw, 2, LAMBDA name :
    IF ~IsA(name, "string") THEN Failed ELSE
    Object(raw, 3, LAMBDA option :
      [kind |-> raw.name, stream |-> raw.stream, txn |-> raw.txn, name |-> name[2],
       option |-> IF IsA(option, type) THEN Set(option[2]) ELSE Unset]))

ParseConnectCommand(raw) ==
  IF ~OnStreamZero(raw) \/ raw.objects = <<>> THEN Failed ELSE
  Object(raw, 1, LAMBDA props :
    [kind |-> "connect", txn |-> raw.txn,
     properties |-> IF IsA(props, "object") THEN props ELSE Obj(Null)])

ParseCreateStreamCommand(raw) ==
  IF ~OnStreamZero(raw) THEN Failed ELSE [kind |-> "createStream", txn |-> raw.txn]

ParseDeleteStreamCommand(raw) ==
  IF ~OnStreamZero(raw) \/ TooFew(raw) THEN Failed ELSE
  Object(raw, 2, LAMBDA id :
    IF IsA(id, "number") THEN [kind |-> "deleteStream", txn |-> raw.txn, id |-> id[2]] ELSE Failed)

ParseFCPublishCommand(raw) ==
  IF ~OnStreamZero(raw) \/ TooFew(raw) THEN Failed ELSE
  Object(raw, 2, LAMBDA name :
    IF IsA(name, "string") THEN [kind |-> "FCPublish", name |-> name[2]] ELSE Failed)

ParseResultCommand(raw) ==
  IF TooFew(raw) THEN Failed ELSE
  Object(raw, 1, LAMBDA props : Object(raw, 2, LAMBDA info :
    [kind |-> "_result", stream |-> raw.stream, txn |-> raw.txn, properties |-> props, info |-> info]))

\* ParseErrorCommand: panic("not implemented").
ParseCommand(msg) ==
  LET raw == ParseRawCommand(msg) IN
  IF raw = Failed THEN Failed ELSE
  CASE raw.name = "publish"      -> ParseNamed(raw, "string")
    [] raw.name = "play"         -> ParseNamed(raw, "number")
    [] raw.name = "connect"      -> ParseConnectCommand(raw)
    [] raw.name = "createStream" -> ParseCreateStreamCommand(raw)
    [] raw.name = "deleteStream" -> ParseDeleteStreamCommand(raw)
    [] raw.name = "FCPublish"    -> ParseFCPublishCommand(raw)
    [] raw.name = "_result"      -> ParseResultCommand(raw)
    [] raw.name = "_error"       -> Panicked
    [] OTHER                     -> raw

----------------------------------------------------------------------------
(* Printing.                                                               *)

Raw(name, stream, txn, objects) ==
  [kind |-> "raw", flex |-> FALSE, stream |-> stream, name |-> name, txn |-> txn, objects |-> objects]

Option(option, type) == IF option = Unset THEN <<>> ELSE << <<type, option[1]>> >>

\* Fault: the transaction of the request is not copied.
RawWithoutTxn(name, stream, txn, objects) == Raw(name, stream, 0, objects)
RawWithTxn(name, stream, txn, objects)    == Raw(name, stream, txn, objects)

\* deleteStream is printed without its name, FCPublish without its transaction.
RawCommand(cmd) ==
  CASE cmd.kind = "raw"     -> cmd
    [] cmd.kind = "publish" -> RawWithTxn("publish", cmd.stream, cmd.txn, <<Null, Str(cmd.name)>> \o Option(cmd.option, "string"))
    [] cmd.kind = "play"    -> RawWithTxn("play", cmd.stream, cmd.txn, <<Null, Str(cmd.name)>> \o Option(cmd.option, "number"))
    [] cmd.kind = "connect"      -> RawWithTxn("connect", 0, cmd.txn, <<cmd.properties>>)
    [] cmd.kind = "createStream" -> RawWithTxn("createStream", 0, cmd.txn, <<>>)
    [] cmd.kind = "deleteStream" -> RawWithTxn("", 0, cmd.txn, <<Null, Num(cmd.id)>>)
    [] cmd.kind = "FCPublish"    -> Raw("FCPublish", 0, 0, <<Null, Str(cmd.name)>>)
    [] cmd.kind = "onFCPublish"  -> Raw("onFCPublish", 0, 0, <<Null, cmd.status>>)
    [] cmd.kind \in {"_result", "onStatus"} ->
         RawWithTxn(cmd.kind, cmd.stream, cmd.txn, <<cmd.properties, cmd.info>>)

\* A flex command gets its zero byte and the type of one that has none.
Message(raw) ==
  [type |-> COMMAND_AMF0, stream |-> raw.stream,
   body |-> (IF raw.flex THEN <<ZeroByte>> ELSE <<>>) \o <<Str(raw.name), Num(raw.txn)>> \o raw.objects]
=============================================================================
