---------------------------- MODULE MCChunkCodec ----------------------------
(* Instances of ChunkCodec for TLC. *)
EXTENDS ChunkCodec

Shape(cs, sid, type, size) == [cs |-> cs, sid |-> sid, type |-> type, size |-> size]

\* Two lengths and two types on one chunk stream, and a second message stream on
\* another, whose id takes two bytes: a message of 6 bytes has two chunks of 4 or one of 8.
FourShapes == {Shape(5, 1, "video", 6), Shape(5, 1, "video", 4), Shape(5, 1, "audio", 4), Shape(70, 2, "video", 6)}
OneShape   == {Shape(5, 1, "video", 6)}
=============================================================================
