----------------------------- MODULE ChunkCodec -----------------------------
(***************************************************************************)
(* One direction of a connection between two ends of this library: how a   *)
(* message is cut into chunks with compressed headers (newHeader and       *)
(* writeChunk of chunkstreamwriter.go, Write of header.go) and put         *)
(* together again (ReadHeader of header.go, readChunk of                   *)
(* chunkstreamreader.go).                                                  *)
(*                                                                         *)
(* Both ends keep, per chunk stream, the last header and the last absolute *)
(* timestamp, and a chunk size that a message of the stream itself         *)
(* changes.  Nothing on the wire delimits chunks: the two ends are in sync *)
(* as long as the reader takes each header and payload to be as long as    *)
(* the writer made them.  The bytes of a payload are counted, not kept.    *)
(***************************************************************************)
EXTENDS Integers, Sequences

CONSTANTS Control,    \* CS_ID_PROTOCOL_CONTROL
          Shapes,     \* what is sent, but for the time: [cs, sid, type, size]
          Times,      \* timestamps of messages
          ChunkSizes, \* values of SET_CHUNK_SIZE
          Default,    \* DEFAULT_CHUNK_SIZE
          Extended,   \* 0xffffff: a timestamp from here on goes to the extended field
          Word,       \* 2^32: timestamps are uint32
          MaxMsgs,    \* bound: messages
          MaxWire     \* bound: chunks under way

\* A SET_CHUNK_SIZE message has four bytes, and a chunk holds at least that.
ControlSize == 4

ASSUME ChunkCodecAssumption ==
  /\ Shapes \subseteq [cs : 2..319, sid : Nat, type : STRING, size : Nat \ {0}]
  /\ \A s \in Shapes : s.cs # Control /\ s.type # "setChunkSize"
  /\ Control \in 2..319
  /\ Times \subseteq 0..(Word - 1)
  /\ ChunkSizes \subseteq Nat /\ Default \in Nat
  /\ \A k \in ChunkSizes \cup {Default} : k >= ControlSize
  /\ Extended \in Nat /\ Extended > 0 /\ Word \in Nat /\ Extended < Word
  /\ MaxMsgs \in Nat /\ MaxWire \in Nat

ChunkStreams == {s.cs : s \in Shapes} \cup {Control}

VARIABLES
  out,      \* out[cs]: outChunkStream, its lastHeader and lastAbsoluteTimestamp
  outSize,  \* chunkSize of the writer
  sending,  \* <<the message being written, its header, the bytes left>>, or <<>>
  wire,     \* chunks written and not read yet
  in,       \* in[cs]: inChunkStream, with <<currentMessage, bytes read>> or <<>>
  inSize,   \* chunkSize of the reader
  inSync,   \* the reader is at the start of a chunk when it reads one
  sent,     \* history: the messages written, each with the fmt it began with
  got       \* history: the messages handled

vars == <<out, outSize, sending, wire, in, inSize, inSync, sent, got>>

\* Header types.
FULL                   == 0
SAME_STREAM            == 1
SAME_LENGTH_AND_STREAM == 2
CONTINUATION           == 3

NoHeader == [fmt |-> -1, ts |-> 0, ext |-> 0, size |-> 0, type |-> "none", sid |-> 0]

Least(a, b) == IF a < b THEN a ELSE b

----------------------------------------------------------------------------
(* The basic header: the bytes that name the chunk stream, without fmt.    *)

\* Header.Write, the last form in big endian order.
BasicHeader(cs) ==
  IF cs <= 63 THEN <<cs>>
  ELSE IF cs <= 319 THEN <<0, cs - 64>>
  ELSE <<1, (cs - 64) \div 256, (cs - 64) % 256>>

\* ReadBaseHeader, the last form in little endian order.
StreamOf(b) ==
  CASE b[1] = 0 -> 64 + b[2]
    [] b[1] = 1 -> 64 + b[2] + 256 * b[3]
    [] OTHER    -> b[1]

----------------------------------------------------------------------------
(* The writer.                                                             *)

\* Fault for the mutation runs: the length is not compared.
SameType(h, m)  == h.type = m.type
SameShape(h, m) == h.type = m.type /\ h.size = m.size

HasLast(cs, m) == out[cs].last # NoHeader /\ out[cs].last.sid = m.sid

\* Fault: a timestamp that goes backward is still sent as a delta.
RelativeAlways(cs, m) == HasLast(cs, m)
\* A header may refer to the last one: same stream, and the timestamp has grown.
Relative(cs, m)       == HasLast(cs, m) /\ out[cs].abs < m.ts

FmtOf(cs, m) ==
  LET h == out[cs].last
      delta == m.ts - out[cs].abs
  IN
    IF ~Relative(cs, m) THEN FULL
    ELSE IF ~SameShape(h, m) THEN SAME_STREAM
    ELSE IF h.fmt = FULL \/ h.ts # delta THEN SAME_LENGTH_AND_STREAM
    ELSE CONTINUATION

\* newHeader.  A header of type 3 is remembered with timestamp 0.
NewHeader(cs, m) ==
  LET fmt == FmtOf(cs, m)
      ts == CASE fmt = FULL -> m.ts
              [] fmt = CONTINUATION -> 0
              [] OTHER -> (m.ts - out[cs].abs) % Word
  IN
    [fmt |-> fmt,
     ts |-> Least(ts, Extended),
     ext |-> IF ts >= Extended THEN m.ts ELSE 0,
     size |-> m.size, type |-> m.type, sid |-> m.sid]

\* writeMessage starts: its first chunk makes the header.
Write(m) ==
  LET h == NewHeader(m.cs, m) IN
  /\ sending = <<>>
  /\ Len(sent) < MaxMsgs
  /\ sending' = <<m, h, m.size>>
  /\ out' = [out EXCEPT ![m.cs] = [last |-> h, abs |-> m.ts]]
  /\ sent' = Append(sent, [msg |-> m, fmt |-> h.fmt])
  /\ UNCHANGED <<outSize, wire, in, inSize, inSync, got>>

SendMessage ==
  \E s \in Shapes, t \in Times :
    Write([cs |-> s.cs, sid |-> s.sid, type |-> s.type, size |-> s.size, ts |-> t, value |-> 0])

SendSetChunkSize ==
  \E k \in ChunkSizes :
    Write([cs |-> Control, sid |-> 0, type |-> "setChunkSize", size |-> ControlSize,
           ts |-> 0, value |-> k])

\* Fault: the writer announces a new chunk size and keeps the old one.
SizeBefore(m) == outSize
\* tmpChunkSize: a size of 0 is not taken.
SizeAfter(m)  == IF m.type = "setChunkSize" /\ m.value # 0 THEN m.value ELSE outSize

\* Fault: the loop of writeMessage goes on with nothing left.
MoreThanNone(left) == left >= 0
More(left)         == left > 0

\* writeChunk: all but the first have a header of type 3.
WriteChunk ==
  /\ sending # <<>>
  /\ Len(wire) < MaxWire
  /\ LET m == sending[1]
         left == sending[3]
         n == Least(left, outSize)
         h == IF left = m.size THEN sending[2] ELSE [NoHeader EXCEPT !.fmt = CONTINUATION]
     IN
       /\ wire' = Append(wire, [basic |-> BasicHeader(m.cs), header |-> h, payload |-> n, value |-> m.value])
       /\ sending' = IF More(left - n) THEN <<m, sending[2], left - n>> ELSE <<>>
       /\ outSize' = SizeAfter(m)
  /\ UNCHANGED <<out, in, inSize, inSync, sent, got>>

----------------------------------------------------------------------------
(* The reader.  c is a chunk: of its header only the fields its type has   *)
(* are on the wire.                                                        *)

\* Header.Write puts the extended timestamp after the headers that have a timestamp,
HasExtended(c) == c.header.fmt # CONTINUATION /\ c.header.ts >= Extended

\* ReadHeader expects it after a type 3 header, too, when the last header had one.
WantsExtended(c) ==
  IF c.header.fmt # CONTINUATION THEN c.header.ts >= Extended
                                 ELSE in[StreamOf(c.basic)].last.ext > 0

\* The header with the fields its type leaves out taken from the last one.
FullFields(c) ==
  LET h == c.header
      l == in[StreamOf(c.basic)].last
  IN
    [fmt  |-> h.fmt,
     sid  |-> IF h.fmt = FULL THEN h.sid ELSE l.sid,
     size |-> IF h.fmt \in {FULL, SAME_STREAM} THEN h.size ELSE l.size,
     type |-> IF h.fmt \in {FULL, SAME_STREAM} THEN h.type ELSE l.type,
     ts   |-> IF h.fmt = CONTINUATION THEN l.ts ELSE h.ts,
     ext  |-> IF HasExtended(c) THEN h.ext ELSE 0]

\* A type 3 header adds nothing to the last timestamp.
AbsoluteOf(c) ==
  CASE c.header.fmt = FULL -> c.header.ts
    [] c.header.fmt = CONTINUATION -> in[StreamOf(c.basic)].abs
    [] OTHER -> (in[StreamOf(c.basic)].abs + c.header.ts) % Word

\* The unfinished message a type 3 header continues, or a new one.
MessageOf(c) ==
  LET l == FullFields(c)
      p == in[StreamOf(c.basic)].partial
  IN
    IF c.header.fmt = CONTINUATION /\ p # <<>> THEN p
    ELSE <<[cs |-> StreamOf(c.basic), sid |-> l.sid, type |-> l.type, size |-> l.size, ts |-> AbsoluteOf(c)], 0>>

\* How many payload bytes the reader takes.
Taken(c) == Least(MessageOf(c)[1].size - MessageOf(c)[2], inSize)

ReadsAll(c) ==
  /\ c.header.fmt # FULL => in[StreamOf(c.basic)].last # NoHeader
  /\ HasExtended(c) = WantsExtended(c)
  /\ c.payload = Taken(c)

\* handleMessage.
Handle(m, value) ==
  /\ got' = Append(got, m)
  /\ inSize' = IF m.cs = Control /\ m.type = "setChunkSize" THEN value ELSE inSize

ReadChunk ==
  /\ inSync
  /\ wire # <<>>
  /\ wire' = Tail(wire)
  /\ LET c == Head(wire)
         m == MessageOf(c)[1]
         n == MessageOf(c)[2] + c.payload
     IN
       IF ~ReadsAll(c)
         THEN inSync' = FALSE /\ UNCHANGED <<in, inSize, got>>
         ELSE /\ in' = [in EXCEPT ![StreamOf(c.basic)] = [last |-> FullFields(c), abs |-> AbsoluteOf(c),
                                             partial |-> IF n = m.size THEN <<>> ELSE <<m, n>>]]
              /\ IF n = m.size THEN Handle(m, c.value) ELSE UNCHANGED <<got, inSize>>
              /\ UNCHANGED inSync
  /\ UNCHANGED <<out, outSize, sending, sent>>

----------------------------------------------------------------------------

Init ==
  /\ out = [cs \in ChunkStreams |-> [last |-> NoHeader, abs |-> 0]]
  /\ outSize = Default
  /\ sending = <<>>
  /\ wire = <<>>
  /\ in = [cs \in ChunkStreams |-> [last |-> NoHeader, abs |-> 0, partial |-> <<>>]]
  /\ inSize = Default
  /\ inSync = TRUE
  /\ sent = <<>>
  /\ got = <<>>

Next == SendMessage \/ SendSetChunkSize \/ WriteChunk \/ ReadChunk

Spec == Init /\ [][Next]_vars

----------------------------------------------------------------------------
(* Properties.                                                             *)

Types == {s.type : s \in Shapes} \cup {"setChunkSize", NoHeader.type}

HeaderType == [fmt : -1..3, ts : 0..Extended, ext : 0..(Word - 1), size : Nat, type : Types, sid : Nat]

\* Every variable keeps its type; the 24 bits of a timestamp field are enough.
TypeOK ==
  /\ out \in [ChunkStreams -> [last : HeaderType, abs : 0..(Word - 1)]]
  /\ \A cs \in ChunkStreams : in[cs].last \in HeaderType /\ in[cs].abs \in 0..(Word - 1)
  /\ \A i \in DOMAIN wire : wire[i].header \in HeaderType /\ wire[i].payload \in Nat \ {0}
  /\ outSize \in Nat /\ inSize \in Nat
  /\ inSync \in BOOLEAN

\* The reader takes every header and every payload to be as long as the writer
\* made it, chunk sizes that change between two chunks of the wire included.
InSync == inSync

\* Messages come out as they went in, in order: compressed headers restore the
\* stream, type and length of their message.
ReceivedAsSent ==
  /\ Len(got) <= Len(sent)
  /\ \A i \in DOMAIN got :
       LET m == sent[i].msg IN
         /\ got[i].cs = m.cs     /\ got[i].sid = m.sid
         /\ got[i].type = m.type /\ got[i].size = m.size

\* Message i comes after a full header on its chunk stream, without a message that
\* began with a type 3 header between the two.
Unrepeated(i) ==
  \E j \in 1..i :
    /\ sent[j].fmt = FULL /\ sent[j].msg.cs = sent[i].msg.cs
    /\ \A k \in j..i : sent[k].msg.cs = sent[i].msg.cs => sent[k].fmt # CONTINUATION

\* A timestamp is exact until the writer first repeats a delta, again after the
\* next full header, and never ahead of the one that was sent.
TimestampsNeverAhead ==
  \A i \in DOMAIN got :
    /\ got[i].ts <= sent[i].msg.ts
    /\ Unrepeated(i) => got[i].ts = sent[i].msg.ts

\* A type 3 header that starts a message repeats the delta of the last one.
TimestampsAgree == \A i \in DOMAIN got : got[i].ts = sent[i].msg.ts
=============================================================================
