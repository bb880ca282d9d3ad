-------------------------- MODULE ChunkCodecProofs --------------------------
(***************************************************************************)
(* Theorems about ChunkCodec, for any shapes, chunk sizes and bounds: that *)
(* the two ends stay in sync as long as no timestamp needs the extended    *)
(* field, and what the reader makes of the messages.                       *)
(***************************************************************************)
EXTENDS ChunkCodec, SequenceTheorems, TLAPS

----------------------------------------------------------------------------
(* Types.                                                                  *)

\* uint32.
LEMMA Modulo ==
  ASSUME NEW x \in Int
  PROVE  /\ x % Word \in 0..(Word - 1)
         /\ x \in 0..(Word - 1) => x % Word = x
<1>1. Word \in Nat /\ Word > 0
  BY ChunkCodecAssumption
<1> QED BY <1>1

\* A reader finds the chunk stream that the writer put in the basic header.
LEMMA BasicHeaderNames ==
  ASSUME NEW cs \in ChunkStreams
  PROVE  StreamOf(BasicHeader(cs)) = cs
<1>1. cs \in 2..319
  BY ChunkCodecAssumption DEF ChunkStreams
<1>2. CASE cs <= 63
  BY <1>1, <1>2 DEF BasicHeader, StreamOf
<1>3. CASE cs > 63
  BY <1>1, <1>3 DEF BasicHeader, StreamOf
<1> QED BY <1>1, <1>2, <1>3

\* What is sent, what is received, and a chunk.
Outgoing == [cs : ChunkStreams, sid : Nat, type : Types, size : Nat \ {0}, ts : 0..(Word - 1), value : Nat]
Incoming == [cs : ChunkStreams, sid : Nat, type : Types, size : Nat, ts : 0..(Word - 1)]
Chunk    == [basic : {BasicHeader(cs) : cs \in ChunkStreams}, header : HeaderType, payload : Nat \ {0}, value : Nat]

\* What the reader keeps of a chunk stream.
InStream == [last : HeaderType, abs : 0..(Word - 1), partial : {<<>>} \cup (Incoming \X Nat)]

\* The message being written, its header and what is left of it.
SendingType ==
  sending # <<>> =>
    /\ sending = <<sending[1], sending[2], sending[3]>>
    /\ sending[1] \in Outgoing /\ sending[2] \in HeaderType
    /\ sending[3] \in Nat /\ sending[3] > 0 /\ sending[3] <= sending[1].size
    /\ sending[1].type = "setChunkSize" =>
         sending[1].value >= ControlSize /\ sending[1].size = ControlSize /\ sending[1].cs = Control

TypeInv ==
  /\ TypeOK /\ SendingType
  /\ outSize >= ControlSize
  /\ in \in [ChunkStreams -> InStream]
  /\ wire \in Seq(Chunk)
  /\ sent \in Seq([msg : Outgoing, fmt : 0..3])
  /\ got \in Seq(Incoming)

LEMMA HeaderParts ==
  ASSUME NEW m \in Outgoing, NEW cs \in ChunkStreams, out \in [ChunkStreams -> [last : HeaderType, abs : 0..(Word - 1)]]
  PROVE  NewHeader(cs, m) \in HeaderType /\ NewHeader(cs, m).fmt = FmtOf(cs, m) /\ FmtOf(cs, m) \in 0..3
<1> DEFINE fmt == FmtOf(cs, m)
           ts == CASE fmt = FULL -> m.ts
                   [] fmt = CONTINUATION -> 0
                   [] OTHER -> (m.ts - out[cs].abs) % Word
<1>1. fmt \in 0..3
  BY DEF FmtOf, FULL, SAME_STREAM, SAME_LENGTH_AND_STREAM, CONTINUATION
<1>2. m.ts \in 0..(Word - 1) /\ out[cs].abs \in 0..(Word - 1) /\ m.size \in Nat /\ m.type \in Types /\ m.sid \in Nat
  BY DEF Outgoing
<1>3. (m.ts - out[cs].abs) % Word \in 0..(Word - 1)
  <2>1. m.ts - out[cs].abs \in Int
    BY <1>2
  <2> QED BY <2>1, Modulo
<1> HIDE DEF fmt
<1>4. ts \in 0..(Word - 1)
  BY <1>1, <1>2, <1>3, ChunkCodecAssumption DEF FULL, CONTINUATION
<1> HIDE DEF ts
<1>5. Least(ts, Extended) \in 0..Extended
  BY <1>4, ChunkCodecAssumption DEF Least
<1>6. NewHeader(cs, m) = [fmt |-> fmt, ts |-> Least(ts, Extended), ext |-> IF ts >= Extended THEN m.ts ELSE 0,
                          size |-> m.size, type |-> m.type, sid |-> m.sid]
  BY DEF NewHeader, fmt, ts
<1>7. (IF ts >= Extended THEN m.ts ELSE 0) \in 0..(Word - 1)
  BY <1>2, ChunkCodecAssumption
<1>8. NewHeader(cs, m) \in HeaderType
  BY <1>1, <1>2, <1>5, <1>6, <1>7 DEF HeaderType
<1> QED BY <1>1, <1>6, <1>8 DEF fmt

LEMMA NoHeaderType == NoHeader \in HeaderType /\ [NoHeader EXCEPT !.fmt = CONTINUATION] \in HeaderType
<1>1. Extended \in Nat /\ Word \in Nat /\ Word > 0 /\ 0 \in 0..Extended /\ 0 \in 0..(Word - 1)
  BY ChunkCodecAssumption
<1>2. -1 \in -1..3 /\ 3 \in -1..3 /\ 0 \in Nat
  OBVIOUS
<1>0. "none" \in Types
  BY DEF Types, NoHeader
<1>3. [NoHeader EXCEPT !.fmt = CONTINUATION] = [fmt |-> 3, ts |-> 0, ext |-> 0, size |-> 0, type |-> "none", sid |-> 0]
  BY DEF NoHeader, CONTINUATION
<1>4. \A f \in -1..3 : [fmt |-> f, ts |-> 0, ext |-> 0, size |-> 0, type |-> "none", sid |-> 0] \in HeaderType
  BY <1>0, <1>1, <1>2 DEF HeaderType
<1> QED BY <1>2, <1>3, <1>4 DEF NoHeader

LEMMA TypesInit == Init => TypeInv
<1> SUFFICES ASSUME Init PROVE TypeInv
  OBVIOUS
<1>1. 0 \in 0..(Word - 1) /\ Default \in Nat /\ Default >= ControlSize
  BY ChunkCodecAssumption DEF ControlSize
<1>2. out \in [ChunkStreams -> [last : HeaderType, abs : 0..(Word - 1)]]
  BY <1>1, NoHeaderType DEF Init
<1>3. in \in [ChunkStreams -> InStream]
  BY <1>1, NoHeaderType DEF Init, InStream
<1>4. wire = <<>> /\ sent = <<>> /\ got = <<>> /\ sending = <<>> /\ inSync = TRUE /\ outSize = Default /\ inSize = Default
  BY DEF Init
<1>5. \A cs \in ChunkStreams : in[cs].last \in HeaderType /\ in[cs].abs \in 0..(Word - 1)
  BY <1>3 DEF InStream
<1>6. TypeOK
  BY <1>1, <1>2, <1>4, <1>5 DEF TypeOK
<1> QED BY <1>1, <1>3, <1>4, <1>6 DEF TypeInv, SendingType

\* The messages of the two actions that send one.
Message(m) ==
  /\ m \in Outgoing
  /\ m.ts = 0 \/ m.ts \in Times
  /\ m.type = "setChunkSize" => m.value >= ControlSize /\ m.size = ControlSize /\ m.cs = Control

LEMMA OnlyMessages ==
  ASSUME SendMessage \/ SendSetChunkSize
  PROVE  \E m : Message(m) /\ Write(m)
<1>1. CASE SendMessage
  <2>1. PICK s \in Shapes, t \in Times :
          Write([cs |-> s.cs, sid |-> s.sid, type |-> s.type, size |-> s.size, ts |-> t, value |-> 0])
    BY <1>1 DEF SendMessage
  <2> DEFINE m == [cs |-> s.cs, sid |-> s.sid, type |-> s.type, size |-> s.size, ts |-> t, value |-> 0]
  <2>2. s.cs \in ChunkStreams /\ s.sid \in Nat /\ s.type \in Types /\ s.size \in Nat \ {0} /\ t \in 0..(Word - 1)
    BY ChunkCodecAssumption DEF ChunkStreams, Types
  <2>3. s.type # "setChunkSize"
    BY ChunkCodecAssumption
  <2>4. m \in Outgoing
    BY <2>2 DEF Outgoing
  <2>5. Message(m)
    BY <2>3, <2>4 DEF Message
  <2> QED BY <2>1, <2>5
<1>2. CASE SendSetChunkSize
  <2>1. PICK k \in ChunkSizes :
          Write([cs |-> Control, sid |-> 0, type |-> "setChunkSize", size |-> ControlSize, ts |-> 0, value |-> k])
    BY <1>2 DEF SendSetChunkSize
  <2> DEFINE m == [cs |-> Control, sid |-> 0, type |-> "setChunkSize", size |-> ControlSize, ts |-> 0, value |-> k]
  <2>2. Control \in ChunkStreams
    BY DEF ChunkStreams
  <2>3. ControlSize \in Nat \ {0} /\ 0 \in 0..(Word - 1) /\ k \in Nat /\ k >= ControlSize
    BY ChunkCodecAssumption DEF ControlSize
  <2>4. "setChunkSize" \in Types /\ 0 \in Nat
    BY DEF Types
  <2>5. m \in Outgoing
    BY <2>2, <2>3, <2>4 DEF Outgoing
  <2>6. Message(m)
    BY <2>3, <2>5 DEF Message
  <2> QED BY <2>1, <2>6
<1> QED BY <1>1, <1>2

LEMMA TypesWrite ==
  ASSUME TypeInv, NEW m, Message(m), Write(m)
  PROVE  TypeInv'
<1>1. m \in Outgoing /\ m.cs \in ChunkStreams /\ m.ts \in 0..(Word - 1) /\ m.size \in Nat /\ m.size > 0
  BY DEF Message, Outgoing
<1>2. PICK h : h = NewHeader(m.cs, m)
  OBVIOUS
<1>3. h \in HeaderType /\ h.fmt \in 0..3
  BY <1>1, <1>2, HeaderParts DEF TypeInv, TypeOK
<1>4. /\ sending' = <<m, h, m.size>> /\ out' = [out EXCEPT ![m.cs] = [last |-> h, abs |-> m.ts]]
      /\ sent' = Append(sent, [msg |-> m, fmt |-> h.fmt])
      /\ UNCHANGED <<outSize, wire, in, inSize, inSync, got>>
  BY <1>2 DEF Write
<1>5. out' \in [ChunkStreams -> [last : HeaderType, abs : 0..(Word - 1)]]
  BY <1>1, <1>3, <1>4 DEF TypeInv, TypeOK
<1>6. sent' \in Seq([msg : Outgoing, fmt : 0..3])
  BY <1>1, <1>3, <1>4 DEF TypeInv
<1>7. SendingType'
  <2>1. sending'[1] = m /\ sending'[2] = h /\ sending'[3] = m.size
    BY <1>4
  <2> QED BY <1>1, <1>3, <1>4, <2>1 DEF SendingType, Message
<1>8. TypeOK'
  BY <1>4, <1>5 DEF TypeInv, TypeOK
<1> QED BY <1>4, <1>6, <1>7, <1>8 DEF TypeInv

LEMMA TypesWriteChunk ==
  ASSUME TypeInv, WriteChunk
  PROVE  TypeInv'
<1>1. PICK m, h0, left : m = sending[1] /\ h0 = sending[2] /\ left = sending[3]
  OBVIOUS
<1>2. PICK n, h : n = Least(left, outSize) /\ h = IF left = m.size THEN h0 ELSE [NoHeader EXCEPT !.fmt = CONTINUATION]
  OBVIOUS
<1>3. /\ m \in Outgoing /\ h0 \in HeaderType /\ left \in Nat /\ left > 0 /\ left <= m.size
      /\ m.type = "setChunkSize" => m.value >= ControlSize /\ m.size = ControlSize /\ m.cs = Control
  BY <1>1 DEF TypeInv, SendingType, WriteChunk
<1>4. m.cs \in ChunkStreams /\ m.value \in Nat
  BY <1>3 DEF Outgoing
<1>5. outSize \in Nat /\ outSize >= 4
  BY DEF TypeInv, TypeOK, ControlSize
<1>6. n \in Nat /\ n > 0 /\ n <= left
  BY <1>2, <1>3, <1>5 DEF Least
<1>7. h \in HeaderType
  BY <1>2, <1>3, NoHeaderType
<1>8. PICK c : c = [basic |-> BasicHeader(m.cs), header |-> h, payload |-> n, value |-> m.value]
  OBVIOUS
<1>9. c \in Chunk
  BY <1>4, <1>6, <1>7, <1>8 DEF Chunk
<1>10. /\ wire' = Append(wire, c)
       /\ sending' = IF More(left - n) THEN <<m, h0, left - n>> ELSE <<>>
       /\ outSize' = SizeAfter(m)
       /\ UNCHANGED <<out, in, inSize, inSync, sent, got>>
  BY <1>1, <1>2, <1>8 DEF WriteChunk
<1>11. wire' \in Seq(Chunk)
  BY <1>9, <1>10 DEF TypeInv
<1>12. outSize' \in Nat /\ outSize' >= ControlSize
  BY <1>3, <1>4, <1>5, <1>10 DEF SizeAfter, ControlSize
<1>13. SendingType'
  <2>1. CASE left - n > 0
    <3>1. sending' = <<m, h0, left - n>>
      BY <1>10, <2>1 DEF More
    <3>2. sending'[1] = m /\ sending'[2] = h0 /\ sending'[3] = left - n
      BY <3>1
    <3>3. left - n \in Nat /\ left - n <= m.size
      <4>1. m.size \in Nat
        BY <1>3 DEF Outgoing
      <4> QED BY <1>3, <1>6, <4>1
    <3> QED BY <1>3, <2>1, <3>1, <3>2, <3>3 DEF SendingType
  <2>2. CASE ~(left - n > 0)
    BY <1>10, <2>2 DEF More, SendingType
  <2> QED BY <2>1, <2>2
<1>14. \A i \in DOMAIN wire' : wire'[i].header \in HeaderType /\ wire'[i].payload \in Nat \ {0}
  <2>1. \A i \in DOMAIN wire' : wire'[i] \in Chunk
    BY <1>11
  <2> QED BY <2>1 DEF Chunk
<1>15. TypeOK'
  BY <1>10, <1>12, <1>14 DEF TypeInv, TypeOK
<1> QED BY <1>10, <1>11, <1>12, <1>13, <1>15 DEF TypeInv

----------------------------------------------------------------------------
(* The reader as a function of its state: r is [in, size, got].            *)

FullOf(r, c) ==
  LET h == c.header
      l == r.in[StreamOf(c.basic)].last
  IN
    [fmt  |-> h.fmt,
     sid  |-> IF h.fmt = FULL THEN h.sid ELSE l.sid,
     size |-> IF h.fmt \in {FULL, SAME_STREAM} THEN h.size ELSE l.size,
     type |-> IF h.fmt \in {FULL, SAME_STREAM} THEN h.type ELSE l.type,
     ts   |-> IF h.fmt = CONTINUATION THEN l.ts ELSE h.ts,
     ext  |-> IF HasExtended(c) THEN h.ext ELSE 0]

TimeOf(r, c) ==
  CASE c.header.fmt = FULL -> c.header.ts
    [] c.header.fmt = CONTINUATION -> r.in[StreamOf(c.basic)].abs
    [] OTHER -> (r.in[StreamOf(c.basic)].abs + c.header.ts) % Word

\* A message and how much of it has been read.
PartOf(r, c) ==
  LET l == FullOf(r, c)
      p == r.in[StreamOf(c.basic)].partial
  IN
    IF c.header.fmt = CONTINUATION /\ p # <<>> THEN p
    ELSE <<[cs |-> StreamOf(c.basic), sid |-> l.sid, type |-> l.type, size |-> l.size, ts |-> TimeOf(r, c)], 0>>

Accepts(r, c) ==
  /\ c.header.fmt # FULL => r.in[StreamOf(c.basic)].last # NoHeader
  /\ HasExtended(c) = (IF c.header.fmt # CONTINUATION THEN c.header.ts >= Extended
                       ELSE r.in[StreamOf(c.basic)].last.ext > 0)
  /\ c.payload = Least(PartOf(r, c)[1].size - PartOf(r, c)[2], r.size)

After(r, c) ==
  LET m == PartOf(r, c)[1]
      n == PartOf(r, c)[2] + c.payload
  IN
    [in   |-> [r.in EXCEPT ![StreamOf(c.basic)] = [last |-> FullOf(r, c), abs |-> TimeOf(r, c),
                                                  partial |-> IF n = m.size THEN <<>> ELSE <<m, n>>]],
     size |-> IF n = m.size /\ m.cs = Control /\ m.type = "setChunkSize" THEN c.value ELSE r.size,
     got  |-> IF n = m.size THEN Append(r.got, m) ELSE r.got]

Reader == [in |-> in, size |-> inSize, got |-> got]

ReaderType == [in : [ChunkStreams -> InStream], size : Nat, got : Seq(Incoming)]

\* ReadChunk does what After says, unless the reader is out of sync.
LEMMA ReadIsAfter ==
  ASSUME NEW r, r = Reader, NEW c, c = Head(wire), ReadChunk
  PROVE  /\ inSync /\ wire # <<>> /\ wire' = Tail(wire) /\ UNCHANGED <<out, outSize, sending, sent>>
         /\ Accepts(r, c) => Reader' = After(r, c) /\ inSync'
         /\ ~Accepts(r, c) => UNCHANGED <<in, inSize, got>> /\ inSync' = FALSE
<1>1. r.in = in /\ r.size = inSize /\ r.got = got
  BY DEF Reader
<1>2. FullOf(r, c) = FullFields(c) /\ TimeOf(r, c) = AbsoluteOf(c)
  BY <1>1 DEF FullOf, FullFields, TimeOf, AbsoluteOf
<1>3. PartOf(r, c) = MessageOf(c)
  BY <1>1, <1>2 DEF PartOf, MessageOf
<1>4. Accepts(r, c) <=> ReadsAll(c)
  BY <1>1, <1>3 DEF Accepts, ReadsAll, WantsExtended, Taken
<1>5. inSync /\ wire # <<>> /\ wire' = Tail(wire) /\ UNCHANGED <<out, outSize, sending, sent>>
  BY DEF ReadChunk
<1>6. ASSUME ReadsAll(c) PROVE Reader' = After(r, c) /\ inSync'
  <2>1. PICK m, n : m = MessageOf(c)[1] /\ n = MessageOf(c)[2] + c.payload
    OBVIOUS
  <2>2. /\ in' = [in EXCEPT ![StreamOf(c.basic)] = [last |-> FullFields(c), abs |-> AbsoluteOf(c),
                                             partial |-> IF n = m.size THEN <<>> ELSE <<m, n>>]]
        /\ IF n = m.size THEN Handle(m, c.value) ELSE UNCHANGED <<got, inSize>>
        /\ UNCHANGED inSync
    BY <1>6, <2>1 DEF ReadChunk
  <2>3. inSize' = IF n = m.size /\ m.cs = Control /\ m.type = "setChunkSize" THEN c.value ELSE inSize
    BY <2>2 DEF Handle
  <2>4. got' = IF n = m.size THEN Append(got, m) ELSE got
    BY <2>2 DEF Handle
  <2>5. Reader' = [in |-> in', size |-> inSize', got |-> got']
    BY DEF Reader
  <2> QED BY <1>1, <1>2, <1>3, <1>5, <2>1, <2>2, <2>3, <2>4, <2>5 DEF After
<1>7. ASSUME ~ReadsAll(c) PROVE UNCHANGED <<in, inSize, got>> /\ inSync' = FALSE
  BY <1>7 DEF ReadChunk
<1> QED BY <1>4, <1>5, <1>6, <1>7

LEMMA AfterType ==
  ASSUME NEW r \in ReaderType, NEW c \in Chunk
  PROVE  After(r, c) \in ReaderType
<1>1. PICK cs \in ChunkStreams : c.basic = BasicHeader(cs)
  BY DEF Chunk
<1>2. StreamOf(c.basic) = cs
  BY <1>1, BasicHeaderNames
<1>3. PICK h : h = c.header
  OBVIOUS
<1>4. h \in HeaderType /\ c.payload \in Nat /\ c.value \in Nat
  BY <1>3 DEF Chunk
<1>5. r.in[cs] \in InStream /\ r.in \in [ChunkStreams -> InStream] /\ r.size \in Nat /\ r.got \in Seq(Incoming)
  BY DEF ReaderType
<1>6. PICK l : l = r.in[cs].last
  OBVIOUS
<1>7. l \in HeaderType /\ r.in[cs].abs \in 0..(Word - 1) /\ r.in[cs].partial \in {<<>>} \cup (Incoming \X Nat)
  BY <1>5, <1>6 DEF InStream
<1>8. 0 \in 0..(Word - 1)
  BY ChunkCodecAssumption
<1>9. FullOf(r, c) \in HeaderType
  BY <1>2, <1>3, <1>4, <1>6, <1>7, <1>8 DEF FullOf, HeaderType
<1>10. TimeOf(r, c) \in 0..(Word - 1)
  <2>1. h.ts \in 0..(Word - 1) /\ h.ts \in Int
    BY <1>4, ChunkCodecAssumption DEF HeaderType
  <2>2. r.in[cs].abs + h.ts \in Int
    BY <1>7, <2>1
  <2>3. (r.in[cs].abs + h.ts) % Word \in 0..(Word - 1)
    BY <2>2, Modulo
  <2> QED BY <1>2, <1>3, <1>7, <2>1, <2>3 DEF TimeOf
<1>11. PartOf(r, c) \in Incoming \X Nat
  <2>1. CASE c.header.fmt = CONTINUATION /\ r.in[cs].partial # <<>>
    BY <1>2, <1>7, <2>1 DEF PartOf
  <2>2. CASE ~(c.header.fmt = CONTINUATION /\ r.in[cs].partial # <<>>)
    <3>1. PICK f, t : f = FullOf(r, c) /\ t = TimeOf(r, c)
      OBVIOUS
    <3>2. PartOf(r, c) = <<[cs |-> cs, sid |-> f.sid, type |-> f.type, size |-> f.size, ts |-> t], 0>>
      BY <1>2, <2>2, <3>1 DEF PartOf
    <3>3. f.sid \in Nat /\ f.type \in Types /\ f.size \in Nat /\ t \in 0..(Word - 1)
      BY <1>9, <1>10, <3>1 DEF HeaderType
    <3>4. [cs |-> cs, sid |-> f.sid, type |-> f.type, size |-> f.size, ts |-> t] \in Incoming
      BY <3>3 DEF Incoming
    <3> QED BY <3>2, <3>4
  <2> QED BY <2>1, <2>2
<1>12. PICK m, n : m = PartOf(r, c)[1] /\ n = PartOf(r, c)[2] + c.payload
  OBVIOUS
<1>13. m \in Incoming /\ n \in Nat
  BY <1>4, <1>11, <1>12
<1>14. [last |-> FullOf(r, c), abs |-> TimeOf(r, c), partial |-> IF n = m.size THEN <<>> ELSE <<m, n>>] \in InStream
  BY <1>9, <1>10, <1>13 DEF InStream
<1>15. After(r, c).in \in [ChunkStreams -> InStream]
  BY <1>2, <1>5, <1>12, <1>14 DEF After
<1>16. After(r, c).size \in Nat
  BY <1>4, <1>5 DEF After
<1>17. After(r, c).got \in Seq(Incoming)
  BY <1>5, <1>12, <1>13 DEF After
<1>18. After(r, c) = [in |-> After(r, c).in, size |-> After(r, c).size, got |-> After(r, c).got]
  BY DEF After
<1> QED BY <1>15, <1>16, <1>17, <1>18 DEF ReaderType

LEMMA TypesRead ==
  ASSUME TypeInv, ReadChunk
  PROVE  TypeInv'
<1>1. PICK r, c : r = Reader /\ c = Head(wire)
  OBVIOUS
<1>2. /\ inSync /\ wire # <<>> /\ wire' = Tail(wire) /\ UNCHANGED <<out, outSize, sending, sent>>
      /\ Accepts(r, c) => Reader' = After(r, c) /\ inSync'
      /\ ~Accepts(r, c) => UNCHANGED <<in, inSize, got>> /\ inSync' = FALSE
  BY <1>1, ReadIsAfter
<1>3. c \in Chunk /\ wire' \in Seq(Chunk)
  BY <1>1, <1>2 DEF TypeInv
<1>4. r \in ReaderType
  BY <1>1 DEF TypeInv, TypeOK, Reader, ReaderType
<1>5. in' \in [ChunkStreams -> InStream] /\ inSize' \in Nat /\ got' \in Seq(Incoming) /\ inSync' \in BOOLEAN
  <2>1. CASE Accepts(r, c)
    <3>1. Reader' \in ReaderType
      BY <1>2, <1>3, <1>4, <2>1, AfterType
    <3>2. Reader' = [in |-> in', size |-> inSize', got |-> got']
      BY DEF Reader
    <3> QED BY <1>2, <2>1, <3>1, <3>2 DEF ReaderType
  <2>2. CASE ~Accepts(r, c)
    BY <1>2, <2>2 DEF TypeInv, TypeOK
  <2> QED BY <2>1, <2>2
<1>6. \A cs \in ChunkStreams : in'[cs].last \in HeaderType /\ in'[cs].abs \in 0..(Word - 1)
  BY <1>5 DEF InStream
<1>7. \A i \in DOMAIN wire' : wire'[i].header \in HeaderType /\ wire'[i].payload \in Nat \ {0}
  <2>1. \A i \in DOMAIN wire' : wire'[i] \in Chunk
    BY <1>3
  <2> QED BY <2>1 DEF Chunk
<1>8. TypeOK'
  BY <1>2, <1>5, <1>6, <1>7 DEF TypeInv, TypeOK
<1>9. SendingType'
  BY <1>2 DEF TypeInv, SendingType
<1> QED BY <1>2, <1>3, <1>5, <1>8, <1>9 DEF TypeInv

LEMMA TypesStep ==
  ASSUME TypeInv, [Next]_vars
  PROVE  TypeInv'
<1>1. CASE SendMessage \/ SendSetChunkSize
  BY <1>1, OnlyMessages, TypesWrite
<1>2. CASE WriteChunk
  BY <1>2, TypesWriteChunk
<1>3. CASE ReadChunk
  BY <1>3, TypesRead
<1>4. CASE UNCHANGED vars
  BY <1>4 DEF vars, TypeInv, TypeOK, SendingType
<1> QED BY <1>1, <1>2, <1>3, <1>4 DEF Next

\* Every variable keeps its type, whatever the timestamps, and in or out of sync: the
\* headers of both ends stay within the width of their fields.
THEOREM CodecTypeCorrect == Spec => []TypeOK
<1>1. TypeInv => TypeOK
  BY DEF TypeInv
<1> QED BY <1>1, TypesInit, TypesStep, PTL DEF Spec

----------------------------------------------------------------------------
(* What the two ends agree on.  r is a reader, o and s are out and sent.   *)

Matches(g, m) == g.cs = m.cs /\ g.sid = m.sid /\ g.type = m.type /\ g.size = m.size

\* Unrepeated, of a given history.
Unrep(s, i) ==
  \E j \in 1..i :
    /\ s[j].fmt = FULL /\ s[j].msg.cs = s[i].msg.cs
    /\ \A k \in j..i : s[k].msg.cs = s[i].msg.cs => s[k].fmt # CONTINUATION

\* No delta was repeated on cs since its last full header.
Fresh(s, cs) ==
  \E j \in 1..Len(s) :
    /\ s[j].fmt = FULL /\ s[j].msg.cs = cs
    /\ \A k \in j..Len(s) : s[k].msg.cs = cs => s[k].fmt # CONTINUATION

Faithful(g, s) ==
  /\ Len(g) <= Len(s)
  /\ \A i \in 1..Len(g) :
       /\ Matches(g[i], s[i].msg)
       /\ g[i].ts <= s[i].msg.ts
       /\ Unrep(s, i) => g[i].ts = s[i].msg.ts

\* The last header and timestamp of a chunk stream on which nothing is being written.
Agree(r, o, s, cs) ==
  /\ o[cs].last # NoHeader =>
       /\ r.in[cs].last # NoHeader
       /\ r.in[cs].last.sid = o[cs].last.sid
       /\ r.in[cs].last.type = o[cs].last.type
       /\ r.in[cs].last.size = o[cs].last.size
  /\ r.in[cs].abs <= o[cs].abs
  /\ Fresh(s, cs) => r.in[cs].abs = o[cs].abs

\* The reader can restore m from its header h and the last header.
Ready(r, m, h, s) ==
  LET l == r.in[m.cs] IN
    /\ l.partial = <<>>
    /\ h.fmt \in 0..3 /\ h.ts < Extended
    /\ h.sid = m.sid /\ h.type = m.type /\ h.size = m.size
    /\ h.fmt # FULL => l.last # NoHeader /\ l.last.sid = m.sid
    /\ h.fmt \notin {FULL, SAME_STREAM} => l.last.type = m.type /\ l.last.size = m.size
    /\ h.fmt = FULL => h.ts = m.ts
    /\ h.fmt = CONTINUATION => l.abs <= m.ts /\ ~Fresh(s, m.cs)
    /\ h.fmt \notin {FULL, CONTINUATION} => l.abs + h.ts <= m.ts /\ (Fresh(s, m.cs) => l.abs + h.ts = m.ts)

\* The reader has all but left bytes of m.
Halfway(r, m, left, s) ==
  LET p == r.in[m.cs].partial IN
    /\ p # <<>> /\ p[2] = m.size - left
    /\ Matches(p[1], m)
    /\ p[1].ts <= m.ts
    /\ Fresh(s, m.cs) => p[1].ts = m.ts

\* r has read every chunk that the writer made.
InStep(r, o, z, q, s) ==
  /\ r.size = z
  /\ \A cs \in ChunkStreams :
       /\ r.in[cs].last.ext = 0
       /\ q = <<>> \/ q[1].cs # cs => Agree(r, o, s, cs) /\ r.in[cs].partial = <<>>
  /\ q = <<>> => Len(r.got) = Len(s)
  /\ q # <<>> =>
       /\ Len(r.got) + 1 = Len(s) /\ s[Len(s)].msg = q[1]
       /\ o[q[1].cs] = [last |-> q[2], abs |-> q[1].ts]
       /\ q[3] = q[1].size => Ready(r, q[1], q[2], s)
       /\ q[3] # q[1].size => Halfway(r, q[1], q[3], s) /\ Agree(r, o, s, q[1].cs) /\ r.in[q[1].cs].last # NoHeader

History == Seq([msg : Outgoing, fmt : 0..3])

LEMMA FreshAppend ==
  ASSUME NEW s \in History, NEW e \in [msg : Outgoing, fmt : 0..3], NEW cs
  PROVE  /\ Fresh(Append(s, e), cs) /\ (e.msg.cs # cs \/ e.fmt # FULL) => Fresh(s, cs)
         /\ e.msg.cs = cs /\ e.fmt = CONTINUATION => ~Fresh(Append(s, e), cs)
<1> DEFINE a == Append(s, e)
<1>1. Len(s) \in Nat /\ Len(a) = Len(s) + 1 /\ a[Len(s) + 1] = e /\ \A i \in 1..Len(s) : a[i] = s[i]
  BY DEF History
<1>2. Len(a) \in 1..Len(a)
  BY <1>1
<1> HIDE DEF a
<1>3. ASSUME Fresh(a, cs), e.msg.cs # cs \/ e.fmt # FULL PROVE Fresh(s, cs)
  <2>1. PICK j \in 1..Len(a) :
          /\ a[j].fmt = FULL /\ a[j].msg.cs = cs
          /\ \A k \in j..Len(a) : a[k].msg.cs = cs => a[k].fmt # CONTINUATION
    BY <1>3 DEF Fresh
  <2>2. j # Len(s) + 1
    BY <1>1, <1>3, <2>1
  <2>3. j \in 1..Len(s)
    BY <1>1, <2>2
  <2>4. \A k \in j..Len(s) : k \in j..Len(a) /\ a[k] = s[k]
    BY <1>1, <2>3
  <2>5. \A k \in j..Len(s) : s[k].msg.cs = cs => s[k].fmt # CONTINUATION
    BY <2>1, <2>4
  <2>6. s[j].fmt = FULL /\ s[j].msg.cs = cs
    BY <1>1, <2>1, <2>3
  <2> QED BY <2>3, <2>5, <2>6 DEF Fresh
<1>4. ASSUME e.msg.cs = cs, e.fmt = CONTINUATION, Fresh(a, cs) PROVE FALSE
  <2>1. PICK j \in 1..Len(a) : \A k \in j..Len(a) : a[k].msg.cs = cs => a[k].fmt # CONTINUATION
    BY <1>4 DEF Fresh
  <2>2. Len(s) + 1 \in j..Len(a)
    BY <1>1, <2>1
  <2> QED BY <1>1, <1>4, <2>1, <2>2
<1> QED BY <1>3, <1>4 DEF a

LEMMA FaithfulAppend ==
  ASSUME NEW s \in History, NEW e \in [msg : Outgoing, fmt : 0..3], NEW g \in Seq(Incoming), Faithful(g, s)
  PROVE  Faithful(g, Append(s, e))
<1> DEFINE a == Append(s, e)
<1>1. Len(g) \in Nat /\ Len(s) \in Nat /\ Len(a) = Len(s) + 1 /\ \A i \in 1..Len(s) : a[i] = s[i]
  BY DEF History
<1> HIDE DEF a
<1>2. Len(g) <= Len(s)
  BY DEF Faithful
<1>3. ASSUME NEW i \in 1..Len(g) PROVE Matches(g[i], a[i].msg) /\ g[i].ts <= a[i].msg.ts /\ (Unrep(a, i) => g[i].ts = a[i].msg.ts)
  <2>1. i \in 1..Len(s) /\ a[i] = s[i]
    BY <1>1, <1>2, <1>3
  <2>2. \A k \in 1..i : a[k] = s[k]
    BY <1>1, <2>1
  <2>3. ASSUME Unrep(a, i) PROVE Unrep(s, i)
    <3>1. PICK j \in 1..i :
            /\ a[j].fmt = FULL /\ a[j].msg.cs = a[i].msg.cs
            /\ \A k \in j..i : a[k].msg.cs = a[i].msg.cs => a[k].fmt # CONTINUATION
      BY <2>3 DEF Unrep
    <3>2. \A k \in j..i : k \in 1..i
      BY <2>1
    <3>3. \A k \in j..i : s[k].msg.cs = s[i].msg.cs => s[k].fmt # CONTINUATION
      BY <2>1, <2>2, <3>1, <3>2
    <3>4. s[j].fmt = FULL /\ s[j].msg.cs = s[i].msg.cs
      BY <2>1, <2>2, <3>1
    <3> QED BY <3>3, <3>4 DEF Unrep
  <2>4. Matches(g[i], s[i].msg) /\ g[i].ts <= s[i].msg.ts /\ (Unrep(s, i) => g[i].ts = s[i].msg.ts)
    BY DEF Faithful
  <2> QED BY <2>1, <2>3, <2>4
<1>4. Faithful(g, a)
  BY <1>1, <1>2, <1>3 DEF Faithful
<1> QED BY <1>4 DEF a

\* The message read last belongs to the message written last.
LEMMA FaithfulNext ==
  ASSUME NEW s \in History, NEW g \in Seq(Incoming), NEW p \in Incoming, Faithful(g, s), Len(g) + 1 = Len(s),
         Matches(p, s[Len(s)].msg), p.ts <= s[Len(s)].msg.ts,
         Fresh(s, s[Len(s)].msg.cs) => p.ts = s[Len(s)].msg.ts
  PROVE  Faithful(Append(g, p), s)
<1> DEFINE a == Append(g, p)
<1>1. Len(g) \in Nat /\ Len(a) = Len(g) + 1 /\ a[Len(g) + 1] = p /\ \A i \in 1..Len(g) : a[i] = g[i]
  OBVIOUS
<1> HIDE DEF a
<1>2. Unrep(s, Len(s)) <=> Fresh(s, s[Len(s)].msg.cs)
  BY DEF Unrep, Fresh
<1>3. ASSUME NEW i \in 1..Len(a) PROVE Matches(a[i], s[i].msg) /\ a[i].ts <= s[i].msg.ts /\ (Unrep(s, i) => a[i].ts = s[i].msg.ts)
  <2>1. CASE i \in 1..Len(g)
    BY <1>1, <2>1 DEF Faithful
  <2>2. CASE i = Len(g) + 1
    BY <1>1, <1>2, <2>2
  <2> QED BY <1>1, <2>1, <2>2
<1>4. Faithful(a, s)
  BY <1>1, <1>3 DEF Faithful
<1> QED BY <1>4 DEF a

\* The header of a message without an extended timestamp.
LEMMA ShortHeader ==
  ASSUME NEW m \in Outgoing, m.ts < Extended, NEW h, h = NewHeader(m.cs, m),
         out \in [ChunkStreams -> [last : HeaderType, abs : 0..(Word - 1)]]
  PROVE  LET l == out[m.cs] IN
         /\ h.fmt \in 0..3 /\ h.ts < Extended
         /\ h.sid = m.sid /\ h.type = m.type /\ h.size = m.size
         /\ h.fmt # FULL => l.last # NoHeader /\ l.last.sid = m.sid /\ l.abs < m.ts
         /\ h.fmt \notin {FULL, SAME_STREAM} => l.last.type = m.type /\ l.last.size = m.size
         /\ h.fmt = FULL => h.ts = m.ts
         /\ h.fmt \notin {FULL, CONTINUATION} => h.ts = m.ts - l.abs
<1>1. PICK cs, l, fmt, ts :
        /\ cs = m.cs /\ l = out[cs] /\ fmt = FmtOf(cs, m)
        /\ ts = CASE fmt = FULL -> m.ts [] fmt = CONTINUATION -> 0 [] OTHER -> (m.ts - l.abs) % Word
  OBVIOUS
<1>2. cs \in ChunkStreams /\ m.ts \in Nat /\ l.abs \in 0..(Word - 1)
  BY <1>1 DEF Outgoing
<1>3. Extended \in Nat /\ Extended > 0 /\ Word \in Nat /\ Extended < Word
  BY ChunkCodecAssumption
<1>4. h = [fmt |-> fmt, ts |-> Least(ts, Extended), ext |-> IF ts >= Extended THEN m.ts ELSE 0,
           size |-> m.size, type |-> m.type, sid |-> m.sid]
  BY <1>1 DEF NewHeader
<1>5. fmt \in 0..3
  BY <1>1, <1>2, HeaderParts
<1>6. /\ fmt # FULL => l.last # NoHeader /\ l.last.sid = m.sid /\ l.abs < m.ts
      /\ fmt \notin {FULL, SAME_STREAM} => l.last.type = m.type /\ l.last.size = m.size
  BY <1>1 DEF FmtOf, Relative, HasLast, SameShape, FULL, SAME_STREAM, SAME_LENGTH_AND_STREAM, CONTINUATION
<1>7. ts < Extended /\ ts \in Nat
      /\ (fmt = FULL => ts = m.ts)
      /\ (fmt \notin {FULL, CONTINUATION} => ts = m.ts - l.abs)
  <2>1. CASE fmt = FULL
    BY <1>1, <1>2, <2>1 DEF FULL, CONTINUATION
  <2>2. CASE fmt = CONTINUATION
    BY <1>1, <1>3, <2>2 DEF FULL, CONTINUATION
  <2>3. CASE fmt \notin {FULL, CONTINUATION}
    <3>1. m.ts - l.abs \in 0..(Word - 1) /\ m.ts - l.abs < Extended
      BY <1>2, <1>3, <1>6, <2>3
    <3>2. (m.ts - l.abs) % Word = m.ts - l.abs
      BY <3>1, Modulo
    <3>3. ts = m.ts - l.abs
      BY <1>1, <2>3, <3>2
    <3> QED BY <2>3, <3>1, <3>3
  <2> QED BY <2>1, <2>2, <2>3
<1>8. Least(ts, Extended) = ts
  BY <1>3, <1>7 DEF Least
<1> QED BY <1>1, <1>4, <1>5, <1>6, <1>7, <1>8

\* The writer begins a message: a reader in step can restore it.
LEMMA StepWrite ==
  ASSUME TypeInv, NEW m, Message(m), m.ts < Extended, NEW h, h = NewHeader(m.cs, m),
         NEW r \in ReaderType, InStep(r, out, outSize, <<>>, sent),
         NEW o, o = [out EXCEPT ![m.cs] = [last |-> h, abs |-> m.ts]],
         NEW s, s = Append(sent, [msg |-> m, fmt |-> h.fmt])
  PROVE  InStep(r, o, outSize, <<m, h, m.size>>, s)
<1>1. m \in Outgoing /\ m.cs \in ChunkStreams
  BY DEF Message, Outgoing
<1>2. out \in [ChunkStreams -> [last : HeaderType, abs : 0..(Word - 1)]] /\ sent \in History
  BY DEF TypeInv, TypeOK, History
<1>3. PICK l : l = out[m.cs]
  OBVIOUS
<1>4. /\ h.fmt \in 0..3 /\ h.ts < Extended
      /\ h.sid = m.sid /\ h.type = m.type /\ h.size = m.size
      /\ h.fmt # FULL => l.last # NoHeader /\ l.last.sid = m.sid /\ l.abs < m.ts
      /\ h.fmt \notin {FULL, SAME_STREAM} => l.last.type = m.type /\ l.last.size = m.size
      /\ h.fmt = FULL => h.ts = m.ts
      /\ h.fmt \notin {FULL, CONTINUATION} => h.ts = m.ts - l.abs
  BY <1>1, <1>2, <1>3, ShortHeader
<1>5. PICK e : e = [msg |-> m, fmt |-> h.fmt]
  OBVIOUS
<1>6. e \in [msg : Outgoing, fmt : 0..3] /\ e.msg = m /\ e.fmt = h.fmt
  BY <1>1, <1>4, <1>5
<1>7. /\ \A cs \in ChunkStreams : Fresh(s, cs) /\ (m.cs # cs \/ h.fmt # FULL) => Fresh(sent, cs)
      /\ h.fmt = CONTINUATION => ~Fresh(s, m.cs)
  BY <1>2, <1>5, <1>6, FreshAppend
<1>8. Len(s) = Len(sent) + 1 /\ s[Len(s)].msg = m
  BY <1>2, <1>5, <1>6 DEF History
<1>9. /\ r.size = outSize /\ Len(r.got) = Len(sent)
      /\ \A cs \in ChunkStreams : r.in[cs].last.ext = 0 /\ Agree(r, out, sent, cs) /\ r.in[cs].partial = <<>>
  BY DEF InStep
<1>10. ASSUME NEW cs \in ChunkStreams, m.cs # cs PROVE Agree(r, o, s, cs)
  <2>1. o[cs] = out[cs]
    BY <1>2, <1>10
  <2>2. Agree(r, out, sent, cs) /\ (Fresh(s, cs) => Fresh(sent, cs))
    BY <1>7, <1>9, <1>10
  <2> QED BY <2>1, <2>2 DEF Agree
<1>11. Ready(r, m, h, s)
  <2>1. PICK i : i = r.in[m.cs]
    OBVIOUS
  <2>2. /\ l.last # NoHeader =>
             i.last # NoHeader /\ i.last.sid = l.last.sid /\ i.last.type = l.last.type /\ i.last.size = l.last.size
        /\ i.abs <= l.abs
        /\ Fresh(sent, m.cs) => i.abs = l.abs
        /\ i.partial = <<>>
    BY <1>1, <1>3, <1>9, <2>1 DEF Agree
  <2>3. i.abs \in Int /\ l.abs \in Int /\ m.ts \in Int
    <3>1. i \in InStream
      BY <1>1, <2>1 DEF ReaderType
    <3>2. l \in [last : HeaderType, abs : 0..(Word - 1)]
      BY <1>1, <1>2, <1>3
    <3> QED BY <1>1, <3>1, <3>2 DEF InStream, Outgoing
  <2>4. h.fmt # FULL => i.last # NoHeader /\ i.last.sid = m.sid
    BY <1>4, <2>2
  <2>5. h.fmt \notin {FULL, SAME_STREAM} => i.last.type = m.type /\ i.last.size = m.size
    BY <1>4, <2>2
  <2>6. h.fmt = CONTINUATION => i.abs <= m.ts /\ ~Fresh(s, m.cs)
    BY <1>4, <1>7, <2>2, <2>3 DEF FULL, CONTINUATION
  <2>7. h.fmt \notin {FULL, CONTINUATION} => i.abs + h.ts <= m.ts /\ (Fresh(s, m.cs) => i.abs + h.ts = m.ts)
    BY <1>1, <1>4, <1>7, <2>2, <2>3
  <2> QED BY <1>4, <2>1, <2>2, <2>4, <2>5, <2>6, <2>7 DEF Ready
<1>12. o[m.cs] = [last |-> h, abs |-> m.ts]
  BY <1>1, <1>2
<1>13. PICK q : q = <<m, h, m.size>>
  OBVIOUS
<1>14. q # <<>> /\ q[1] = m /\ q[2] = h /\ q[3] = m.size
  BY <1>13
<1>15. \A cs \in ChunkStreams :
         /\ r.in[cs].last.ext = 0
         /\ q = <<>> \/ q[1].cs # cs => Agree(r, o, s, cs) /\ r.in[cs].partial = <<>>
  BY <1>9, <1>10, <1>14
<1>16. Len(r.got) + 1 = Len(s)
  BY <1>8, <1>9
<1>17. InStep(r, o, outSize, q, s)
  BY <1>8, <1>9, <1>11, <1>12, <1>14, <1>15, <1>16 DEF InStep
<1> QED BY <1>13, <1>17

\* What the reader makes of the next chunk of m, of which left bytes remain.
Restores(r, c, m, h, left, s) ==
  /\ c.header.fmt # FULL => r.in[m.cs].last # NoHeader
  /\ HasExtended(c) = (IF c.header.fmt # CONTINUATION THEN c.header.ts >= Extended ELSE r.in[m.cs].last.ext > 0)
  /\ FullOf(r, c) # NoHeader /\ FullOf(r, c).ext = 0
  /\ h # NoHeader => FullOf(r, c).sid = h.sid /\ FullOf(r, c).type = h.type /\ FullOf(r, c).size = h.size
  /\ TimeOf(r, c) <= m.ts /\ (Fresh(s, m.cs) => TimeOf(r, c) = m.ts)
  /\ \E p \in Incoming :
       /\ PartOf(r, c) = <<p, m.size - left>>
       /\ Matches(p, m) /\ p.ts <= m.ts /\ (Fresh(s, m.cs) => p.ts = m.ts)

LEMMA RestoresFirst ==
  ASSUME NEW m \in Outgoing, NEW h \in HeaderType, NEW r \in ReaderType, NEW s,
         NEW c \in Chunk, c.basic = BasicHeader(m.cs), c.header = h,
         Ready(r, m, h, s), r.in[m.cs].last.ext = 0
  PROVE  Restores(r, c, m, h, m.size, s)
<1>1. m.cs \in ChunkStreams /\ m.sid \in Nat /\ m.type \in Types /\ m.size \in Nat /\ m.ts \in 0..(Word - 1)
  BY DEF Outgoing
<1>2. StreamOf(c.basic) = m.cs
  BY <1>1, BasicHeaderNames
<1>3. PICK i, l : i = r.in[m.cs] /\ l = i.last
  OBVIOUS
<1>4. i \in InStream /\ i.abs \in 0..(Word - 1) /\ l.ext = 0
  BY <1>1, <1>3 DEF ReaderType, InStream
<1>5. Extended \in Nat /\ Extended > 0 /\ Word \in Nat /\ Extended < Word /\ h.ts \in 0..Extended
  BY ChunkCodecAssumption DEF HeaderType
<1>6. /\ i.partial = <<>>
      /\ h.fmt \in 0..3 /\ h.ts < Extended
      /\ h.sid = m.sid /\ h.type = m.type /\ h.size = m.size
      /\ h.fmt # FULL => l # NoHeader /\ l.sid = m.sid
      /\ h.fmt \notin {FULL, SAME_STREAM} => l.type = m.type /\ l.size = m.size
      /\ h.fmt = FULL => h.ts = m.ts
      /\ h.fmt = CONTINUATION => i.abs <= m.ts /\ ~Fresh(s, m.cs)
      /\ h.fmt \notin {FULL, CONTINUATION} => i.abs + h.ts <= m.ts /\ (Fresh(s, m.cs) => i.abs + h.ts = m.ts)
  BY <1>3 DEF Ready
<1>7. HasExtended(c) = FALSE
  BY <1>5, <1>6 DEF HasExtended
<1>8. PICK f, t : f = FullOf(r, c) /\ t = TimeOf(r, c)
  OBVIOUS
<1>9. f = [fmt |-> h.fmt, sid |-> m.sid, size |-> m.size, type |-> m.type,
           ts |-> IF h.fmt = CONTINUATION THEN l.ts ELSE h.ts, ext |-> 0]
  BY <1>2, <1>3, <1>6, <1>7, <1>8 DEF FullOf
<1>10. t \in 0..(Word - 1) /\ t <= m.ts /\ (Fresh(s, m.cs) => t = m.ts)
  <2>1. CASE h.fmt = FULL
    BY <1>1, <1>6, <1>8, <2>1 DEF TimeOf, FULL, CONTINUATION
  <2>2. CASE h.fmt = CONTINUATION
    BY <1>2, <1>3, <1>4, <1>6, <1>8, <2>2 DEF TimeOf, FULL, CONTINUATION
  <2>3. CASE h.fmt \notin {FULL, CONTINUATION}
    <3>1. i.abs + h.ts \in 0..(Word - 1)
      BY <1>1, <1>4, <1>5, <1>6, <2>3
    <3>2. (i.abs + h.ts) % Word = i.abs + h.ts
      BY <3>1, Modulo
    <3>3. t = i.abs + h.ts
      BY <1>2, <1>3, <1>8, <2>3, <3>2 DEF TimeOf
    <3> QED BY <1>6, <2>3, <3>1, <3>3
  <2> QED BY <2>1, <2>2, <2>3
<1>11. PICK p : p = [cs |-> m.cs, sid |-> m.sid, type |-> m.type, size |-> m.size, ts |-> t]
  OBVIOUS
<1>12. p \in Incoming
  BY <1>1, <1>10, <1>11 DEF Incoming
<1>13. PartOf(r, c) = <<p, 0>>
  BY <1>2, <1>3, <1>6, <1>8, <1>9, <1>11 DEF PartOf
<1>14. Matches(p, m) /\ p.ts = t /\ m.size - m.size = 0
  BY <1>1, <1>11 DEF Matches
<1>15. f # NoHeader
  BY <1>6, <1>9 DEF NoHeader
<1>16. f.ext = 0 /\ f.sid = h.sid /\ f.type = h.type /\ f.size = h.size
  BY <1>6, <1>9
<1>17. HasExtended(c) = (IF h.fmt # CONTINUATION THEN h.ts >= Extended ELSE l.ext > 0)
  <2>1. (h.ts >= Extended) = FALSE /\ (l.ext > 0) = FALSE
    BY <1>4, <1>5, <1>6
  <2> QED BY <1>7, <2>1
<1>18. \E g \in Incoming :
         /\ PartOf(r, c) = <<g, m.size - m.size>>
         /\ Matches(g, m) /\ g.ts <= m.ts /\ (Fresh(s, m.cs) => g.ts = m.ts)
  BY <1>10, <1>12, <1>13, <1>14
<1> QED BY <1>3, <1>6, <1>8, <1>10, <1>15, <1>16, <1>17, <1>18 DEF Restores

LEMMA RestoresNext ==
  ASSUME NEW m \in Outgoing, NEW h \in HeaderType, NEW r \in ReaderType, NEW s, NEW o, NEW left,
         NEW c \in Chunk, c.basic = BasicHeader(m.cs), c.header = [NoHeader EXCEPT !.fmt = CONTINUATION],
         o[m.cs] = [last |-> h, abs |-> m.ts],
         Halfway(r, m, left, s), Agree(r, o, s, m.cs), r.in[m.cs].last # NoHeader, r.in[m.cs].last.ext = 0
  PROVE  Restores(r, c, m, h, left, s)
<1>1. m.cs \in ChunkStreams
  BY DEF Outgoing
<1>2. StreamOf(c.basic) = m.cs
  BY <1>1, BasicHeaderNames
<1>3. PICK i, l : i = r.in[m.cs] /\ l = i.last
  OBVIOUS
<1>4. i \in InStream /\ l \in HeaderType /\ l # NoHeader /\ l.ext = 0
  BY <1>1, <1>3 DEF ReaderType, InStream
<1>5. c.header = [fmt |-> 3, ts |-> 0, ext |-> 0, size |-> 0, type |-> "none", sid |-> 0]
  BY DEF NoHeader, CONTINUATION
<1>6. c.header.fmt = CONTINUATION /\ c.header.fmt # FULL /\ c.header.fmt # SAME_STREAM /\ c.header.fmt = 3
  BY <1>5 DEF CONTINUATION, FULL, SAME_STREAM
<1>7. HasExtended(c) = FALSE
  BY <1>6 DEF HasExtended
<1>8. FullOf(r, c) = [fmt |-> 3, sid |-> l.sid, size |-> l.size, type |-> l.type, ts |-> l.ts, ext |-> 0]
  BY <1>2, <1>3, <1>6, <1>7 DEF FullOf
<1>9. TimeOf(r, c) = i.abs
  BY <1>2, <1>3, <1>6 DEF TimeOf
<1>10. /\ h # NoHeader => l.sid = h.sid /\ l.type = h.type /\ l.size = h.size
       /\ i.abs <= m.ts /\ (Fresh(s, m.cs) => i.abs = m.ts)
  BY <1>3 DEF Agree
<1>11. PICK p : p = i.partial
  OBVIOUS
<1>12. /\ p # <<>> /\ p[2] = m.size - left /\ Matches(p[1], m)
       /\ p[1].ts <= m.ts /\ (Fresh(s, m.cs) => p[1].ts = m.ts)
  BY <1>3, <1>11 DEF Halfway
<1>13. p \in Incoming \X Nat
  BY <1>4, <1>11, <1>12 DEF InStream
<1>14. PartOf(r, c) = p
  BY <1>2, <1>3, <1>6, <1>11, <1>12 DEF PartOf
<1>15. p = <<p[1], m.size - left>> /\ p[1] \in Incoming
  BY <1>12, <1>13
<1>16. FullOf(r, c) # NoHeader
  BY <1>8 DEF NoHeader
<1>17. FullOf(r, c).ext = 0 /\ FullOf(r, c).sid = l.sid /\ FullOf(r, c).type = l.type /\ FullOf(r, c).size = l.size
  BY <1>8
<1>18. HasExtended(c) = (IF c.header.fmt # CONTINUATION THEN c.header.ts >= Extended ELSE l.ext > 0)
  <2>1. (l.ext > 0) = FALSE
    BY <1>4
  <2> QED BY <1>6, <1>7, <2>1
<1>19. \E g \in Incoming :
         /\ PartOf(r, c) = <<g, m.size - left>>
         /\ Matches(g, m) /\ g.ts <= m.ts /\ (Fresh(s, m.cs) => g.ts = m.ts)
  BY <1>12, <1>14, <1>15
<1> QED BY <1>3, <1>4, <1>9, <1>10, <1>16, <1>17, <1>18, <1>19 DEF Restores

\* A chunk is read as it was written, and leaves the reader in step.
LEMMA StepChunk ==
  ASSUME NEW m \in Outgoing, NEW h \in HeaderType, NEW left \in Nat, left > 0, left <= m.size,
         m.type = "setChunkSize" => m.size = ControlSize /\ m.cs = Control,
         NEW z \in Nat, z >= ControlSize, NEW o, NEW s \in History, NEW r \in ReaderType,
         NEW q, q = <<m, h, left>>, InStep(r, o, z, q, s), Faithful(r.got, s),
         NEW n, n = Least(left, z), NEW c \in Chunk,
         NEW g, g = IF left = m.size THEN h ELSE [NoHeader EXCEPT !.fmt = CONTINUATION],
         c = [basic |-> BasicHeader(m.cs), header |-> g, payload |-> n, value |-> m.value],
         NEW k, k = IF left - n > 0 THEN <<m, h, left - n>> ELSE <<>>,
         NEW z2, z2 = IF m.type = "setChunkSize" THEN m.value ELSE z
  PROVE  Accepts(r, c) /\ Faithful(After(r, c).got, s) /\ InStep(After(r, c), o, z2, k, s)
<1>1. m.cs \in ChunkStreams /\ m.size \in Nat /\ m.ts \in 0..(Word - 1)
  BY DEF Outgoing
<1>2. StreamOf(c.basic) = m.cs
  BY <1>1, BasicHeaderNames
<1>3. q # <<>> /\ q[1] = m /\ q[2] = h /\ q[3] = left
  OBVIOUS
<1>4. /\ r.size = z
      /\ \A cs \in ChunkStreams :
           /\ r.in[cs].last.ext = 0
           /\ m.cs # cs => Agree(r, o, s, cs) /\ r.in[cs].partial = <<>>
      /\ Len(r.got) + 1 = Len(s) /\ s[Len(s)].msg = m
      /\ o[m.cs] = [last |-> h, abs |-> m.ts]
      /\ left = m.size => Ready(r, m, h, s)
      /\ left # m.size => Halfway(r, m, left, s) /\ Agree(r, o, s, m.cs) /\ r.in[m.cs].last # NoHeader
  BY <1>3 DEF InStep
<1>5. Restores(r, c, m, h, left, s)
  <2>1. CASE left = m.size
    <3>1. c.header = h
      BY <2>1
    <3> QED BY <1>1, <1>4, <2>1, <3>1, RestoresFirst
  <2>2. CASE left # m.size
    BY <1>1, <1>4, <2>2, RestoresNext
  <2> QED BY <2>1, <2>2
<1>6. PICK p \in Incoming :
        /\ PartOf(r, c) = <<p, m.size - left>>
        /\ Matches(p, m) /\ p.ts <= m.ts /\ (Fresh(s, m.cs) => p.ts = m.ts)
  BY <1>5 DEF Restores
<1>7. p.size = m.size /\ p.cs = m.cs /\ p.type = m.type
  BY <1>6 DEF Matches
<1>8. n \in Nat /\ n > 0 /\ n <= left /\ n <= z /\ (n = left \/ n = z)
  BY DEF Least, ControlSize
<1>9. PartOf(r, c)[1] = p /\ PartOf(r, c)[2] = m.size - left /\ c.payload = n /\ c.value = m.value
  BY <1>6
<1>10. Accepts(r, c)
  <2>1. m.size - (m.size - left) = left
    BY <1>1
  <2>2. c.payload = Least(p.size - (m.size - left), r.size)
    BY <1>4, <1>7, <1>9, <2>1
  <2> QED BY <1>2, <1>5, <1>9, <2>2 DEF Accepts, Restores
<1>11. PICK a, i, f, t, b :
         /\ a = After(r, c) /\ f = FullOf(r, c) /\ t = TimeOf(r, c) /\ b = (m.size - left) + n
         /\ i = [last |-> f, abs |-> t, partial |-> IF b = m.size THEN <<>> ELSE <<p, b>>]
  <2>1. PICK a, f, t, b :
          a = After(r, c) /\ f = FullOf(r, c) /\ t = TimeOf(r, c) /\ b = (m.size - left) + n
    OBVIOUS
  <2>2. PICK i : i = [last |-> f, abs |-> t, partial |-> IF b = m.size THEN <<>> ELSE <<p, b>>]
    OBVIOUS
  <2> QED BY <2>1, <2>2
<1>12. /\ a.in = [r.in EXCEPT ![m.cs] = i]
       /\ a.size = IF b = m.size /\ p.cs = Control /\ p.type = "setChunkSize" THEN m.value ELSE r.size
       /\ a.got = IF b = m.size THEN Append(r.got, p) ELSE r.got
  BY <1>2, <1>7, <1>9, <1>11 DEF After
<1>13. r.in \in [ChunkStreams -> InStream] /\ r.got \in Seq(Incoming)
  BY DEF ReaderType
<1>14. a.in[m.cs] = i /\ \A cs \in ChunkStreams : cs # m.cs => a.in[cs] = r.in[cs]
  BY <1>1, <1>12, <1>13
<1>15. (b = m.size <=> n = left) /\ b \in Nat /\ (left - n > 0 <=> n # left) /\ b = m.size - (left - n)
  BY <1>1, <1>8, <1>11
<1>16. Agree(a, o, s, m.cs) /\ i.last # NoHeader /\ i.last.ext = 0
  <2>1. i.last = f /\ i.abs = t
    BY <1>11
  <2> QED BY <1>4, <1>5, <1>11, <1>14, <2>1 DEF Agree, Restores
<1>17. \A cs \in ChunkStreams : m.cs # cs => Agree(a, o, s, cs) /\ a.in[cs].partial = <<>>
  BY <1>4, <1>14 DEF Agree
<1>18. \A cs \in ChunkStreams : a.in[cs].last.ext = 0
  BY <1>4, <1>14, <1>16
<1>19. a.size = z2
  <2>1. CASE m.type = "setChunkSize"
    <3>1. n = left
      BY <1>8, <2>1 DEF ControlSize
    <3> QED BY <1>7, <1>12, <1>15, <2>1, <3>1
  <2>2. CASE m.type # "setChunkSize"
    BY <1>4, <1>7, <1>12, <2>2
  <2> QED BY <2>1, <2>2
<1>20. CASE n = left
  <2>1. k = <<>> /\ a.got = Append(r.got, p) /\ i.partial = <<>>
    BY <1>11, <1>12, <1>15, <1>20
  <2>2. Faithful(a.got, s)
    BY <1>4, <1>6, <1>13, <2>1, FaithfulNext
  <2>3. Len(a.got) = Len(s)
    BY <1>4, <1>13, <2>1
  <2>4. \A cs \in ChunkStreams : Agree(a, o, s, cs) /\ a.in[cs].partial = <<>>
    BY <1>14, <1>16, <1>17, <2>1
  <2>5. InStep(a, o, z2, k, s)
    BY <1>18, <1>19, <2>1, <2>3, <2>4 DEF InStep
  <2> QED BY <1>10, <1>11, <2>2, <2>5
<1>21. CASE n # left
  <2>1. k = <<m, h, left - n>> /\ a.got = r.got /\ i.partial = <<p, b>>
    BY <1>11, <1>12, <1>15, <1>21
  <2>2. k # <<>> /\ k[1] = m /\ k[2] = h /\ k[3] = left - n
    BY <2>1
  <2>3. left - n # m.size
    BY <1>1, <1>8
  <2>4. i.partial # <<>> /\ i.partial[1] = p /\ i.partial[2] = b
    BY <2>1
  <2>5. Halfway(a, m, left - n, s)
    BY <1>6, <1>14, <1>15, <2>4 DEF Halfway
  <2>6. a.in[m.cs].last # NoHeader
    BY <1>14, <1>16
  <2>7. \A cs \in ChunkStreams :
          /\ a.in[cs].last.ext = 0
          /\ k = <<>> \/ k[1].cs # cs => Agree(a, o, s, cs) /\ a.in[cs].partial = <<>>
    BY <1>17, <1>18, <2>2
  <2>8. InStep(a, o, z2, k, s)
    BY <1>4, <1>16, <1>19, <2>1, <2>2, <2>3, <2>5, <2>6, <2>7 DEF InStep
  <2> QED BY <1>10, <1>11, <2>1, <2>8
<1> QED BY <1>20, <1>21

----------------------------------------------------------------------------
(* The invariant: the reader, run over the chunks under way, accepts each, *)
(* and is then in step with the writer.                                    *)

\* run[i] is the reader after i chunks of w.
IsRun(run, w) ==
  /\ run \in [0..Len(w) -> ReaderType]
  /\ \A i \in 1..Len(w) : Accepts(run[i - 1], w[i]) /\ run[i] = After(run[i - 1], w[i])

Synchronised(first, w, o, z, q, s) ==
  \E run :
    /\ IsRun(run, w)
    /\ run[0] = first
    /\ \A i \in 0..Len(w) : Faithful(run[i].got, s)
    /\ InStep(run[Len(w)], o, z, q, s)

SyncInv == inSync /\ Synchronised(Reader, wire, out, outSize, sending, sent)

LEMMA ReaderIsTyped == TypeInv => Reader \in ReaderType
BY DEF TypeInv, TypeOK, Reader, ReaderType

LEMMA SyncInit == Init => SyncInv
<1> SUFFICES ASSUME Init PROVE SyncInv
  OBVIOUS
<1>1. TypeInv
  BY TypesInit
<1>2. PICK r : r = Reader
  OBVIOUS
<1>3. r \in ReaderType
  BY <1>1, <1>2, ReaderIsTyped
<1>4. r.in = in /\ r.size = Default /\ r.got = <<>>
  BY <1>2 DEF Init, Reader
<1>5. \A cs \in ChunkStreams : out[cs].last = NoHeader /\ out[cs].abs = 0 /\ r.in[cs] = [last |-> NoHeader, abs |-> 0, partial |-> <<>>]
  BY <1>4 DEF Init
<1>6. \A cs \in ChunkStreams : r.in[cs].last.ext = 0 /\ Agree(r, out, <<>>, cs) /\ r.in[cs].partial = <<>>
  BY <1>5 DEF Agree, NoHeader
<1>7. sent = <<>> /\ wire = <<>> /\ sending = <<>> /\ outSize = Default /\ inSync
  BY DEF Init
<1>8. InStep(r, out, Default, <<>>, <<>>)
  BY <1>4, <1>6 DEF InStep
<1>9. Faithful(r.got, <<>>)
  BY <1>4 DEF Faithful
<1>10. PICK run : run = [i \in 0..0 |-> r]
  OBVIOUS
<1>11. run \in [0..0 -> ReaderType] /\ run[0] = r /\ Len(<<>>) = 0 /\ 1..0 = {} /\ \A i \in 0..0 : run[i] = r
  BY <1>3, <1>10
<1>12. IsRun(run, <<>>)
  BY <1>11 DEF IsRun
<1>13. Synchronised(r, <<>>, out, Default, <<>>, <<>>)
  BY <1>8, <1>9, <1>11, <1>12 DEF Synchronised
<1> QED BY <1>2, <1>7, <1>13 DEF SyncInv

LEMMA SyncWrite ==
  ASSUME TypeInv, SyncInv, NEW m, Message(m), m.ts < Extended, Write(m)
  PROVE  SyncInv'
<1>1. PICK h : h = NewHeader(m.cs, m)
  OBVIOUS
<1>2. PICK o, s, q : o = [out EXCEPT ![m.cs] = [last |-> h, abs |-> m.ts]] /\ s = Append(sent, [msg |-> m, fmt |-> h.fmt]) /\ q = <<m, h, m.size>>
  OBVIOUS
<1>3. /\ sending = <<>> /\ sending' = q /\ out' = o /\ sent' = s
      /\ UNCHANGED <<outSize, wire, in, inSize, inSync, got>>
  BY <1>1, <1>2 DEF Write
<1>4. PICK run, w, n : /\ w = wire /\ n = Len(w) /\ IsRun(run, w) /\ run[0] = Reader
                       /\ \A i \in 0..n : Faithful(run[i].got, sent)
                       /\ InStep(run[n], out, outSize, sending, sent)
  BY DEF SyncInv, Synchronised
<1>5. n \in Nat
  BY <1>4 DEF TypeInv
<1>6. run[n] \in ReaderType /\ \A i \in 0..n : run[i].got \in Seq(Incoming)
  BY <1>4, <1>5 DEF IsRun, ReaderType
<1>7. InStep(run[n], o, outSize, q, s)
  BY <1>1, <1>2, <1>3, <1>4, <1>6, StepWrite
<1>8. sent \in History /\ [msg |-> m, fmt |-> h.fmt] \in [msg : Outgoing, fmt : 0..3]
  <2>1. m \in Outgoing /\ m.cs \in ChunkStreams
    BY DEF Message, Outgoing
  <2>2. h.fmt \in 0..3
    BY <1>1, <2>1, HeaderParts DEF TypeInv, TypeOK
  <2> QED BY <2>1, <2>2 DEF TypeInv, History
<1>9. \A i \in 0..n : Faithful(run[i].got, s)
  BY <1>2, <1>4, <1>6, <1>8, FaithfulAppend
<1>10. Synchronised(run[0], w, o, outSize, q, s)
  BY <1>4, <1>7, <1>9 DEF Synchronised
<1>11. Reader' = run[0]
  BY <1>3, <1>4 DEF Reader
<1>12. wire' = w /\ outSize' = outSize /\ inSync'
  BY <1>3, <1>4 DEF SyncInv
<1> QED BY <1>3, <1>10, <1>11, <1>12 DEF SyncInv

LEMMA SyncWriteChunk ==
  ASSUME TypeInv, SyncInv, WriteChunk
  PROVE  SyncInv'
<1>1. PICK q, m, h, left, z : q = sending /\ m = q[1] /\ h = q[2] /\ left = q[3] /\ z = outSize
  OBVIOUS
<1>2. /\ q = <<m, h, left>> /\ m \in Outgoing /\ h \in HeaderType /\ left \in Nat /\ left > 0 /\ left <= m.size
      /\ m.type = "setChunkSize" => m.value >= ControlSize /\ m.size = ControlSize /\ m.cs = Control
  BY <1>1 DEF TypeInv, SendingType, WriteChunk
<1>3. z \in Nat /\ z >= ControlSize
  BY <1>1 DEF TypeInv, TypeOK
<1>4. PICK n, g : n = Least(left, z) /\ g = IF left = m.size THEN h ELSE [NoHeader EXCEPT !.fmt = CONTINUATION]
  OBVIOUS
<1>5. PICK c, k, z2 : /\ c = [basic |-> BasicHeader(m.cs), header |-> g, payload |-> n, value |-> m.value]
                      /\ k = IF left - n > 0 THEN <<m, h, left - n>> ELSE <<>>
                      /\ z2 = IF m.type = "setChunkSize" THEN m.value ELSE z
  OBVIOUS
<1>6. /\ wire' = Append(wire, c) /\ sending' = k /\ outSize' = z2
      /\ UNCHANGED <<out, in, inSize, inSync, sent, got>>
  <2>1. SizeAfter(m) = z2
    BY <1>1, <1>2, <1>5 DEF SizeAfter, ControlSize
  <2>2. outSize' = SizeAfter(m)
    BY <1>1 DEF WriteChunk
  <2>3. /\ wire' = Append(wire, c) /\ sending' = k
        /\ UNCHANGED <<out, in, inSize, inSync, sent, got>>
    BY <1>1, <1>4, <1>5 DEF WriteChunk, More
  <2> QED BY <2>1, <2>2, <2>3
<1>7. PICK run, w, l : /\ w = wire /\ l = Len(w) /\ IsRun(run, w) /\ run[0] = Reader
                       /\ \A i \in 0..l : Faithful(run[i].got, sent)
                       /\ InStep(run[l], out, outSize, sending, sent)
  BY DEF SyncInv, Synchronised
<1>8. l \in Nat /\ w \in Seq(Chunk)
  BY <1>7 DEF TypeInv
<1>9. PICK r : r = run[l]
  OBVIOUS
<1>10. r \in ReaderType /\ Faithful(r.got, sent) /\ InStep(r, out, z, q, sent)
  BY <1>1, <1>7, <1>8, <1>9 DEF IsRun
<1>11. c \in Chunk
  <2>1. m.cs \in ChunkStreams /\ m.value \in Nat
    BY <1>2 DEF Outgoing
  <2>2. g \in HeaderType
    BY <1>2, <1>4, NoHeaderType
  <2>3. n \in Nat \ {0}
    BY <1>2, <1>3, <1>4 DEF Least, ControlSize
  <2> QED BY <1>5, <2>1, <2>2, <2>3 DEF Chunk
<1>12. PICK a : a = After(r, c)
  OBVIOUS
<1>13. sent \in History
  BY DEF TypeInv, History
<1>14. Accepts(r, c) /\ Faithful(a.got, sent) /\ InStep(a, out, z2, k, sent)
  <2>1. PICK o, s : o = out /\ s = sent
    OBVIOUS
  <2>2. s \in History /\ InStep(r, o, z, q, s) /\ Faithful(r.got, s)
    BY <1>10, <1>13, <2>1
  <2>3. Accepts(r, c) /\ Faithful(After(r, c).got, s) /\ InStep(After(r, c), o, z2, k, s)
    BY <1>2, <1>3, <1>4, <1>5, <1>10, <1>11, <2>2, StepChunk
  <2> QED BY <1>12, <2>1, <2>3
<1>15. a \in ReaderType
  BY <1>10, <1>11, <1>12, AfterType
<1>16. PICK v, x : v = Append(w, c) /\ x = [i \in 0..(l + 1) |-> IF i = l + 1 THEN a ELSE run[i]]
  OBVIOUS
<1>17. Len(v) = l + 1 /\ v[l + 1] = c /\ \A i \in 1..l : v[i] = w[i]
  BY <1>7, <1>8, <1>16
<1>18. x[l + 1] = a /\ \A i \in 0..l : x[i] = run[i]
  BY <1>8, <1>16
<1>19. IsRun(x, v)
  <2>1. x \in [0..(l + 1) -> ReaderType]
    BY <1>7, <1>8, <1>15, <1>16 DEF IsRun
  <2>2. ASSUME NEW i \in 1..(l + 1) PROVE Accepts(x[i - 1], v[i]) /\ x[i] = After(x[i - 1], v[i])
    <3>1. CASE i = l + 1
      <4>1. x[i - 1] = r /\ v[i] = c /\ x[i] = a
        BY <1>8, <1>9, <1>17, <1>18, <3>1
      <4> QED BY <1>12, <1>14, <4>1
    <3>2. CASE i \in 1..l
      <4>1. i - 1 \in 0..l /\ i \in 0..l
        BY <1>8, <3>2
      <4>2. x[i - 1] = run[i - 1] /\ v[i] = w[i] /\ x[i] = run[i]
        BY <1>17, <1>18, <3>2, <4>1
      <4> QED BY <1>7, <3>2, <4>2 DEF IsRun
    <3> QED BY <1>8, <3>1, <3>2
  <2> QED BY <1>17, <2>1, <2>2 DEF IsRun
<1>20. \A i \in 0..Len(v) : Faithful(x[i].got, sent)
  <2>1. \A i \in 0..(l + 1) : i = l + 1 \/ i \in 0..l
    BY <1>8
  <2> QED BY <1>7, <1>14, <1>17, <1>18, <2>1
<1>21. x[0] = run[0]
  BY <1>8, <1>18
<1>22. Synchronised(run[0], v, out, z2, k, sent)
  BY <1>14, <1>17, <1>18, <1>19, <1>20, <1>21 DEF Synchronised
<1>23. Reader' = run[0]
  BY <1>6, <1>7 DEF Reader
<1>24. wire' = v /\ out' = out /\ sent' = sent /\ inSync'
  BY <1>6, <1>7, <1>16 DEF SyncInv
<1> QED BY <1>6, <1>22, <1>23, <1>24 DEF SyncInv

LEMMA SyncRead ==
  ASSUME TypeInv, SyncInv, ReadChunk
  PROVE  SyncInv'
<1>1. PICK r, c : r = Reader /\ c = Head(wire)
  OBVIOUS
<1>2. /\ wire # <<>> /\ wire' = Tail(wire) /\ UNCHANGED <<out, outSize, sending, sent>>
      /\ Accepts(r, c) => Reader' = After(r, c) /\ inSync'
  BY <1>1, ReadIsAfter
<1>3. PICK run, w, l : /\ w = wire /\ l = Len(w) /\ IsRun(run, w) /\ run[0] = r
                       /\ \A i \in 0..l : Faithful(run[i].got, sent)
                       /\ InStep(run[l], out, outSize, sending, sent)
  BY <1>1 DEF SyncInv, Synchronised
<1>4. w \in Seq(Chunk) /\ l \in Nat /\ l > 0 /\ w[1] = c
  BY <1>1, <1>2, <1>3 DEF TypeInv
<1>5. Accepts(r, c) /\ run[1] = After(r, c)
  <2>1. 1 \in 1..Len(w) /\ 1 - 1 = 0
    BY <1>3, <1>4
  <2> QED BY <1>3, <1>4, <2>1 DEF IsRun
<1>6. PICK v, x : v = Tail(w) /\ x = [i \in 0..(l - 1) |-> run[i + 1]]
  OBVIOUS
<1>7. Len(v) = l - 1 /\ \A i \in 1..(l - 1) : v[i] = w[i + 1]
  BY <1>3, <1>4, <1>6
<1>8. \A i \in 0..(l - 1) : x[i] = run[i + 1] /\ i + 1 \in 0..l
  BY <1>4, <1>6
<1>9. IsRun(x, v)
  <2>1. x \in [0..(l - 1) -> ReaderType]
    BY <1>3, <1>6, <1>8 DEF IsRun
  <2>2. ASSUME NEW i \in 1..(l - 1) PROVE Accepts(x[i - 1], v[i]) /\ x[i] = After(x[i - 1], v[i])
    <3>1. i - 1 \in 0..(l - 1) /\ i \in 0..(l - 1) /\ i + 1 \in 1..l /\ (i + 1) - 1 = i /\ (i - 1) + 1 = i
      BY <1>4
    <3>2. x[i - 1] = run[(i + 1) - 1] /\ x[i] = run[i + 1] /\ v[i] = w[i + 1]
      BY <1>7, <1>8, <3>1
    <3>3. Accepts(run[(i + 1) - 1], w[i + 1]) /\ run[i + 1] = After(run[(i + 1) - 1], w[i + 1])
      BY <1>3, <3>1 DEF IsRun
    <3> QED BY <3>2, <3>3
  <2> QED BY <1>7, <2>1, <2>2 DEF IsRun
<1>10. \A i \in 0..Len(v) : Faithful(x[i].got, sent)
  BY <1>3, <1>7, <1>8
<1>11. x[Len(v)] = run[l] /\ x[0] = run[1]
  <2>1. l - 1 \in 0..(l - 1) /\ 0 \in 0..(l - 1) /\ (l - 1) + 1 = l /\ 0 + 1 = 1
    BY <1>4
  <2> QED BY <1>7, <1>8, <2>1
<1>12. Synchronised(run[1], v, out, outSize, sending, sent)
  BY <1>3, <1>9, <1>10, <1>11 DEF Synchronised
<1>13. Reader' = run[1] /\ inSync' /\ wire' = v
  BY <1>2, <1>3, <1>5, <1>6
<1> QED BY <1>2, <1>12, <1>13 DEF SyncInv

LEMMA SyncStep ==
  ASSUME \A t \in Times : t < Extended, TypeInv, SyncInv, [Next]_vars
  PROVE  SyncInv'
<1>1. CASE SendMessage \/ SendSetChunkSize
  <2>1. PICK m : Message(m) /\ Write(m)
    BY <1>1, OnlyMessages
  <2>2. m.ts < Extended
    BY <2>1, ChunkCodecAssumption DEF Message
  <2> QED BY <2>1, <2>2, SyncWrite
<1>2. CASE WriteChunk
  BY <1>2, SyncWriteChunk
<1>3. CASE ReadChunk
  BY <1>3, SyncRead
<1>4. CASE UNCHANGED vars
  BY <1>4 DEF vars, SyncInv, Reader
<1> QED BY <1>1, <1>2, <1>3, <1>4 DEF Next

LEMMA CodecInv ==
  ASSUME \A t \in Times : t < Extended
  PROVE  Spec => [](TypeInv /\ SyncInv)
<1>1. Init => TypeInv /\ SyncInv
  BY TypesInit, SyncInit
<1>2. TypeInv /\ SyncInv /\ [Next]_vars => TypeInv' /\ SyncInv'
  BY TypesStep, SyncStep
<1> QED BY <1>1, <1>2, PTL DEF Spec

\* As long as no timestamp reaches 0xffffff, the reader is always at the start of a
\* chunk when it reads one: it expects of every chunk, also of those under way while the
\* chunk size changes, the header and the payload that writeChunk made.
THEOREM CodecInSync ==
  ASSUME \A t \in Times : t < Extended
  PROVE  Spec => []InSync
<1>1. SyncInv => InSync
  BY DEF SyncInv, InSync
<1> QED BY <1>1, CodecInv, PTL

LEMMA GotIsFaithful ==
  ASSUME TypeInv, SyncInv
  PROVE  Faithful(got, sent)
<1>1. PICK run, w : w = wire /\ run[0] = Reader /\ \A i \in 0..Len(w) : Faithful(run[i].got, sent)
  BY DEF SyncInv, Synchronised
<1>2. 0 \in 0..Len(w)
  BY <1>1 DEF TypeInv
<1>3. Reader.got = got
  BY DEF Reader
<1> QED BY <1>1, <1>2, <1>3

\* Under the same condition the messages come out as they went in, in order, with the
\* stream, type and length that newHeader left out of a compressed header.
THEOREM CodecReceivesAsSent ==
  ASSUME \A t \in Times : t < Extended
  PROVE  Spec => []ReceivedAsSent
<1>1. TypeInv /\ SyncInv => ReceivedAsSent
  <2> SUFFICES ASSUME TypeInv, SyncInv PROVE ReceivedAsSent
    OBVIOUS
  <2>1. DOMAIN got = 1..Len(got)
    BY DEF TypeInv
  <2> QED BY <2>1, GotIsFaithful DEF ReceivedAsSent, Faithful, Matches
<1> QED BY <1>1, CodecInv, PTL

\* And a timestamp is the one that was sent until newHeader first repeats a delta, and
\* never ahead of it: AbsoluteOf loses time, and gains none.
THEOREM CodecNeverAhead ==
  ASSUME \A t \in Times : t < Extended
  PROVE  Spec => []TimestampsNeverAhead
<1>1. TypeInv /\ SyncInv => TimestampsNeverAhead
  <2> SUFFICES ASSUME TypeInv, SyncInv PROVE TimestampsNeverAhead
    OBVIOUS
  <2>1. DOMAIN got = 1..Len(got)
    BY DEF TypeInv
  <2>2. \A i \in 1..Len(got) : Unrepeated(i) <=> Unrep(sent, i)
    BY DEF Unrepeated, Unrep
  <2> QED BY <2>1, <2>2, GotIsFaithful DEF TimestampsNeverAhead, Faithful
<1> QED BY <1>1, CodecInv, PTL
=============================================================================
