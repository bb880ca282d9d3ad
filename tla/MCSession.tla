----------------------------- MODULE MCSession -----------------------------
(* A session with buffers of 14 bytes, of which four vary, and digests of two. *)
EXTENDS Session

AreaOf == [s \in Schemes |-> IF s = 0 THEN 4 ELSE 11]

\* Two hash functions by which every byte matters.
Hash(b, k) == [i \in 0..1 |-> (b[0] + b[3] + b[4] + b[5] + b[10 + i] + b[11 - i] + k + i * b[3]) % 2]
PlayerHmac == [b \in Unsigned |-> Hash(b, 0)]
ServerHmac == [b \in Unsigned |-> Hash(b, 1)]

FourVary == {[i \in 0..13 |-> CASE i = 3 -> w [] i = 5 -> x [] i = 10 -> y [] i = 12 -> z [] OTHER -> 0]
               : w, x, y, z \in {0, 1}}

\* C1 unsigned, and with the digest of the player by either scheme.
SignedBy(buf, s) ==
  LET o == DigestOffset(buf, s) IN
    [i \in 0..13 |-> IF i \in {o, o + 1} THEN PlayerHmac[Covered(buf, o)][i - o] ELSE buf[i]]
ClientHellos == {SignedBy(b, s) : b \in FourVary, s \in Schemes} \cup FourVary

Named(kind, stream, name, option) ==
  [kind |-> kind, stream |-> stream, txn |-> 5, name |-> name, option |-> option]

LibraryCommands ==
  {[kind |-> "connect", txn |-> 1, properties |-> Obj(Str(a))] : a \in {"app", "live"}}
  \cup {[kind |-> "createStream", txn |-> 2], [kind |-> "deleteStream", txn |-> 3, id |-> 1],
        [kind |-> "FCPublish", name |-> "a"], [kind |-> "FCPublish", name |-> ""],
        Raw("releaseStream", 0, 4, <<Null, Str("a")>>),
        [Raw("releaseStream", 0, 4, <<Null, Str("a")>>) EXCEPT !.flex = TRUE],
        [kind |-> "_result", stream |-> 0, txn |-> 6, properties |-> Null, info |-> Num(1)]}
  \cup {Named("publish", s, "a", o) : s \in 0..2, o \in {Unset, Set("live")}}
  \cup {Named("play", s, n, Set(0)) : s \in 0..1, n \in {"a", ""}}
  \cup {Named("play", 1, "a", Unset)}

Of(type, stream, body) == [type |-> type, stream |-> stream, body |-> body]

ForeignMessages ==
  {Of("media", s, <<>>) : s \in 0..2}
  \cup {Of(COMMAND_AMF3, 1, <<ZeroByte, Str("publish"), Num(5), Null, Str("b"), Str("live")>>),
        Of(COMMAND_AMF3, 1, <<Byte(1), Str("play"), Num(5), Null, Str("b"), Num(0)>>),
        Of(COMMAND_AMF3, 1, <<Str("play"), Num(5), Null, Str("b"), Num(0)>>),
        Of(COMMAND_AMF3, 1, <<>>),
        Of(COMMAND_AMF0, 0, <<Str("connect"), Num(1)>>),
        Of(COMMAND_AMF0, 0, <<Str("connect"), Num(1), Null>>),
        Of(COMMAND_AMF0, 1, <<Str("createStream"), Num(2), Null>>),
        Of(COMMAND_AMF0, 1, <<Str("deleteStream"), Num(3), Null, Num(1)>>),
        Of(COMMAND_AMF0, 0, <<Str("deleteStream"), Num(3), Null>>),
        Of(COMMAND_AMF0, 0, <<Str("deleteStream"), Num(3), Null, Num(1)>>),
        Of(COMMAND_AMF0, 0, <<Str("FCPublish"), Num(0), Null>>),
        Of(COMMAND_AMF0, 1, <<Str("FCPublish"), Num(0), Null, Str("a")>>),
        Of(COMMAND_AMF0, 1, <<Str("play"), Num(5), Null, Num(0), Num(0)>>),
        Of(COMMAND_AMF0, 1, <<Str("play"), Num(5), Null>>),
        Of(COMMAND_AMF0, 0, <<Str("_error"), Num(2), Null, Null>>),
        Of(COMMAND_AMF0, 1, <<Str("FCUnpublish"), Garbage>>),
        Of(COMMAND_AMF0, 0, <<Num(1), Str("connect")>>)}
=============================================================================
