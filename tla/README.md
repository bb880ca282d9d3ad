# A TLA+ model of gortmp

gortmp is an RTMP server library in Go: publishers send it live streams, viewers
play them. This directory holds TLA+ modules for its concurrent core, the TLC
configurations that check them, and proofs checked by TLAPS. Paths below are
relative to the repository (`src/`).

## Inventory

| component | files | state it keeps | operations |
|---|---|---|---|
| media stream hub | `mediastream.go` | the map of subscriptions, the stored sequence headers, the `done` channel; one goroutine `loop()` | Publish, Subscribe, Unsubscribe, Close |
| media buffer | `mediabuffer.go` | a list of waiting tags and their total size; one goroutine | push (from the hub), Get, Close |
| media player | `mediaplayer.go` | where its goroutine is | Start, Close, the Get/Send loop |
| server registry | `server.go` | `streams` by name, `players` by stream object, the connection count, each under its own lock | handle, publish, play, OnDestroyStream, OnClose |
| stream object | `stream.go` | name, publishing, playing, handler | publish, play, receive, send |
| connection | `conn.go` | the streams of a connection, three goroutines (reader, writer, waitClose) | commands, Fatal, clean-up |
| chunk stream writer | `chunkstreamwriter.go` | three queues, the chunk streams, the chunk size | Send, CreateChunkStream, WriteTo, Close |
| chunk stream reader | `chunkstreamreader.go`, `chunkstream.go` | the last header and the unfinished message per chunk stream, window counters | ReadFrom, protocol control messages |
| header codec | `header.go` | none | read and write chunk headers |
| commands | `command.go` | none | parse and print a command, make a message of it |
| handshake | `handshake.go` | none; two goroutines while it runs | SHandshake, validate, digest offsets (Handshake, the client's side, is not implemented) |
| network connection | `netconn.go` | the `bufio` reader and writer | Flush, Close, counting |
| FLV tag headers | `flvtag.go` | none | GetAudioHeader, GetVideoHeader |
| constants, errors, log, utilities, message | `defines.go`, `error.go`, `log.go`, `util.go`, `message.go` | counters | none with control of its own |
| programs | `cmd/rtmpserver`, `cmd/rtmpsniffer`, `cmd/handshake_dump` | per program | applications of the library |

How they interact. The server starts a goroutine per accepted socket, which
performs the handshake and makes a connection. The connection's reader decodes
messages and runs command handlers in place: `conn -> ServerHandler ->
serverConnHandler / serverStreamHandler -> stream`. A publish registers a hub
under its name; media messages are then published to it. A play subscribes a
buffer to a hub and starts a player, which sends tags on the viewer's
connection. All sending, by handlers, players and acknowledgements, goes through
`chunkStreamWriter.Send`, a rendezvous with the connection's writer goroutine.
When the reader or the writer ends, waitClose closes the socket, waits for both,
destroys the streams left and reports OnClose.

The hard behaviours: everything meets on unbuffered channels (deadlock, a
rendezvous with somebody who has left, double close); one publisher feeds many
viewers of different speed; the registry is shared by all connections and its
operations are sequences of separately locked steps; a connection may break
between any two of them. PROJECT.json lists the hazards line by line.

What makes each part correct:

- hub: a subscriber starts at the first key frame, has the current sequence
  headers, sees every later tag in order; no call ever hangs; no channel panics;
- buffer and player: bounded memory with an exact account, order kept, nothing
  lost but what was dropped for size; both goroutines end with the stream;
- registry: a name leads to an open stream of the one who registered it, only its
  owner closes it, nothing outlives its connection, the count is exact;
- writer: messages are written whole, in order per sender; the result of Send is
  true; Close releases everybody;
- connection: however it ends, OnClose comes once and last, every stream object is
  destroyed once before it, and no goroutine is left;
- codec: the two ends stay in step, and messages come out as they went in;
- handshake: the connection starts at its first chunk; the digest is where the client
  looks for it; a handshake that fails leaves nobody on the socket;
- commands: one end parses what the other printed; a command reaches the handlers of
  the stream it was sent on, and no others; the parser does not panic on what its own checks accept
  (for publish and play it does, see Command below).

## Modules

| module | models | depends on |
|---|---|---|
| `Broadcast` | the abstract promise of a hub: a log and a position per reader | |
| `MediaStream` | `mediastream.go`, every operation and every case of `loop()` | refines `Broadcast` |
| `MediaPlayer` | `mediabuffer.go` and `mediaplayer.go`: a viewer | |
| `MediaPipeline` | hub, buffers and players, and TrackStarvation of `cmd/rtmpserver`, composed | EXTENDS `MediaStream`, INSTANCE `MediaPlayer` |
| `Server` | `server.go` with the handlers of `stream.go` and `conn.go` it is called from | |
| `ChunkStreamWriter` | `chunkstreamwriter.go`: Send against WriteTo against Close | |
| `Conn` | `conn.go`: readFrom, writeTo, waitClose, the acknowledging goroutines | EXTENDS `ChunkStreamWriter` |
| `Handshake` | `handshake.go`, and `handle` of `server.go` around it | |
| `Command` | `command.go`: operators that parse and print | |
| `Session` | a socket from its handshake to its commands: OnMessage of `conn.go`, routing, handlers and their answers | EXTENDS `Handshake`, `Command` |
| `ChunkCodec` | chunks and their headers: `newHeader`, `writeChunk`, `header.go`, `readChunk` | |
| `MediaStreamProofs`, `MediaPipelineProofs`, `ServerProofs`, `ChunkStreamWriterProofs`, `ConnProofs`, `ChunkCodecProofs`, `HandshakeProofs`, `SessionProofs` | theorems | the module they are about; `MediaPipelineProofs` also `MediaStreamProofs`, `ConnProofs` also `ChunkStreamWriterProofs`, `SessionProofs` also `HandshakeProofs` |
| `MCMediaPipeline`, `MCServer`, `MCChunkCodec`, `MCSession` | instances for TLC | |

**MediaStream.** A rendezvous on an unbuffered channel is one step of both
parties. `pub`, `sub`, `unsub` hold the calls in progress; `rest` and `replay`
hold the sends `loop()` still has to make before it selects again, so the loop
really blocks in a send, as the code does. `closes[s]` counts executions of
`close(s)`. A subscription channel is granted, read until closed and then
ended: the code's only readers (mediaBuffer.loop and TrackStarvation of
cmd/rtmpserver) read until the channel is closed, and that is what
`ReaderEnds` assumes of the environment. `published`, `joined`, `received` are
history. A tag is its position in the stream and has a kind, which is what
GetVideoHeader and GetAudioHeader tell apart. A key frame is what the code takes for one: an AVC
sequence header is marked as one in its tag, so that the first "key frame" of
`StartsAtFirstKeyFrame` may be a sequence header, and a decoder has to wait for the next.

**MediaPlayer.** `tags`, `size` are the buffer's list and account; `player` is the
program counter of the player's goroutine; `Stream.Send` is a step that may
return an error, or never. **MediaPipeline** joins a send of the hub with the
push of the buffer, and lets Unsubscribe be called by the player and, once for each
player, by the server. A channel in `Watchers` is read by TrackStarvation of
`cmd/rtmpserver` instead, without a buffer between it and the hub.

**Server.** `at[c]` is where the goroutine acting for connection `c` is: its reader
runs the handlers, then waitClose, never both at once. Handlers are cut into
steps where they take a lock of the registry, send, or touch a hub. A handler
that fails takes the connection down (`Fatal`), and the reader may still handle
what it had received. The empty name is a name: the server registers it before
the stream object refuses it, and has to undo that. `SingleUse` says whether
clients use a stream object for one publish or one play. Clients that do not are
legal, the code does not stop them, and for them it breaks `ClosedByOwner` (the run
`closer`) and `NothingLeaks`: a second publish on the same stream object
forgets the first, which stays open and registered after its connection has gone; and a second play,
which the server says that it ignores (`server.go:382`), closes the new player and with `delPlayer`
takes the first one out of the map, so that nothing closes that one. No run is
about these two. The run `registry` and the theorems of the registry are
about clients that use a stream object once, and say nothing of the others.

**ChunkStreamWriter.** A call of Send waits in `call[g]` until WriteTo takes its
closure or `done` is closed. Go's select picks any ready case, so the three
queues are one set of offers: priorities of the code order nothing by
themselves. A message is a number of chunks. A Flush of any goroutine may meet the write
error that `bufio` repeats from then on.

**Conn.** What a handler or an acknowledging goroutine has still to do is a sequence
of steps, `todo[g]`, each of which may wait for Send or Flush. The table of steps
says which of them fail how: a control message that fails calls Fatal and the
handler goes on, a command that fails makes the handler return, and Fatal sends
once more before it closes the socket. `ended` is what waitClose has received.
Since the closure of Send swallows write errors (finding of the run `error`),
WriteTo returns only after Close, and readDone always comes first: the other
order is in the model, and no behaviour takes it. The `bufio.Writer` of `netconn.go` has
no lock: a Flush in the middle of which WriteTo adds a chunk finds that it wrote
less than there is, and fails for good (`Racing`), on a connection that is up. The same
data race may also lose bytes or write them twice; that is left out, and so
`ResultIsTrue` and `WireInOrder` are about what is written to the buffer.

**ChunkCodec.** Both ends of this library on one byte stream. A chunk carries the
fields its header type puts on the wire and a count of payload bytes; `inSync` turns
false when the reader would take more or fewer bytes than the writer made.
`Extended` and `Word` stand for 0xffffff and 2^32. Chunk stream ids are below
320: the three byte form is written in big endian and read in little endian order
(`header.go:261`, `header.go:83`), but the writer's ids stay below CS_ID_MAX, 100.
Messages have a payload: an empty one is never written.

**Handshake.** Buffers are functions from positions to bytes, with `Size`, `DigestLength`,
`Modulus` and `Area` for 1536, 32, 728 and the starts of the two digest areas, and HMAC a
function of the bytes it covers: the module is about where things are. `doing[g]` is the
program counter of the two goroutines that write the answer and read C2. SHandshake
receives from the unbuffered `done` until the first error, so the second goroutine to report one is
left behind for ever, blocked: `HandshakeEnds` says that this is all that may be left.
A client that stays and sends nothing holds a goroutine, a socket and a place in
the connection count for ever: `SetMaxIdle` (`netconn.go:66`) stores a time that nothing reads.

**Command.** The body of a message is a sequence of AMF values, each a pair of its type and
its datum. `ParseCommand` gives a command, `Failed` or `Panicked`. Play and publish
with two objects panic (`command.go:176`, `command.go:224`), though their check asks for no
more and that is what the library prints for them when the option is not set (theorem
`LeftOutEndsProgram`); so does an `_error`, by intention (`command.go:441`). The first byte of a flex body
is dropped whatever it is. deleteStream is printed without its name (`command.go:335`), FCPublish without its
transaction, and a flex command with the message type of one that is not (`command.go:124`). `ComesBack` is about commands other
than those of `Lossy`: of deleteStream, flex commands, and publish and play without their option,
it says nothing. No text of the repository says that the first two come back.

**Session.** After the handshake, one action per kind of command and of message: how it is
parsed, routed, handled and answered, with an application that passes every command on (as the
one of `cmd/rtmpserver` does) and a registry that may refuse. A handler is one step: `Conn`
has its steps. A command that does not parse is passed on as a message that
no handler looks at, and never answered; publish and play for stream 0 are silently
ignored; every error ends the connection with the status NetConnection.Connect.Closed, whatever
status the error had. That a connection runs out of chunk stream ids is in `Conn`.

Operators commented "Fault" are plausible bugs. The checks replace a definition by
its fault to see that a property notices; no specification uses them.

## Runs

| run | shows | bounds |
|---|---|---|
| `hub` | subscribers start at the first key frame with the video header in force; no double close, no send on a closed channel, no send to a reader that has gone; `MediaStream` implements `Broadcast` | 1 publisher, 2 subscribers, 4 tags: a header change before, between and after join and start |
| `audio` | violation: AAC configuration lost | a shortest trace |
| `pipeline` | exact account and order in the buffer; order through hub, buffer and player; every call of the hub returns and Close reaches everybody; players end and kept tags are delivered when sends return, and nobody waits for a viewer whose sends do not | 1 viewer, 1 watcher, 3 tags of 2 sizes, a buffer for 3 small ones or a large and a small one; each of them closed by its reader, the viewer by the server too, all racing with Close |
| `registry` | the registry's invariants, for clients that use a stream object once; the clean-up always finishes | 2 connections, 3 stream objects, 2 names and the empty one, 3 publishes, 3 plays |
| `closer` | violation: somebody else's stream is closed | 2 connections, 1 stream object each |
| `writer` | results true, order, the report is awaited; Close releases senders and ends WriteTo | 2 senders, 3 messages of up to 2 chunks |
| `error` | violation: a write error that WriteTo meets in a message does not end it | as `writer`, 2 messages |
| `conn` | OnClose once and last, streams destroyed once, the connection ends, no goroutine is left | 2 messages read, so that a handler of several sends meets an acknowledgement, a deletion or a second createStream that finds no chunk stream; 1 chunk stream id, and so 1 stream object (`StreamsDestroyedOnce` is for any number); 1 acknowledging goroutine |
| `session` | the connection starts aligned, S1 validates by the client's scheme, a handshake with a client that leaves ends; commands are routed to their stream, come back as printed | buffers of 14 bytes with 4 that vary and every C1, signed by either scheme or by none; 20 commands of this library and 20 messages of others, 4 of them in a row |
| `codec` | the ends stay in step, messages come out as sent, timestamps are exact until a delta is repeated | 4 messages of 4 shapes on 2 chunk streams, 2 chunk sizes: every header type follows every other that can precede it |
| `delta` | violation: the reader does not add a repeated delta | 1 shape, evenly spaced messages |
| `extended` | violation: four bytes of payload are read as a timestamp | 1 shape, a timestamp from `Extended` on |

The counters of the models are bounded by `MaxTags`, `MaxMedia`, `MaxPlayers`,
`MaxMsgs`, `MaxChunks`, `MaxReads`, `MaxWire`. In `conn`, `MaxMsgs` is above what the
handlers of `MaxReads` messages can send, so that it stops none of them. Two of everything suffices for the races: every
interaction is between a component and one or two others. The runs switch off
the deadlock check since the modelled systems may stop: a closed stream, a
connection that has gone, or a bound that is used up.

## Fairness

- Hub: `loop()`, its callers and its readers are weakly fair. A waiting case of a select may
  be passed over while others are taken; in `pipeline` their number is bounded by `MaxTags`
  and by the server closing a player once, so that weak fairness is enough, where a
  publisher that goes on for ever would need that Go's select picks uniformly
  among ready cases. Nothing makes callers call, or anybody Close.
- Players: their goroutines are weakly fair. `FairPipelineSpec` assumes nothing of
  `Stream.Send`; `PlayersEnd` and `AllDelivered` have as a hypothesis, per viewer, that
  its sends return (`SendsReturn`), with or without an error. The other properties
  hold with viewers that are stuck for ever.
- Server: a handler that can go on does (weak fairness per connection): a send on
  a connection that is down returns, by `CloseReleases` of the writer.
- Writer: WriteTo's select is strongly fair, Go's select being uniform among ready cases. A write on an open socket may block for ever; after
  waitClose closed the socket (`conn.go:416`, before it closes the writer) a pending write returns.
- Handshake: its goroutines go on when they can; a read or a flush returns for sure only
  when the peer has left or the socket is closed.
- Connection: goroutines go on when they can; ReadFrom, a write and a Flush return for
  sure only when the connection is broken, that is when the peer has left or the
  socket is closed, a write and a Flush also after the first error of the `bufio.Writer`. So a peer that stays and does not read may hold up Fatal, which
  sends before it closes (`conn.go:139`): nothing is claimed of that case.

## Proofs

TLAPS proves, for all values of the constants, every safety invariant that a passing run
checks, and the refinement of `Broadcast`. What follows is each theorem with the inductive
invariant behind it, and why that has to say more than the theorem.

**Hub (`MediaStreamProofs`).** `TypeCorrect`, `LoopCorrect`, `NoPanic`, `SendReaches` rest on
`LoopInv` with `TypeOK`: channels in the map are open and not closed; what
is still to be sent goes to channels in the map; a loop that has returned left
the map empty; a channel never granted is never closed nor unsubscribed.
`NoChannelPanic` alone is not inductive: that a second close cannot happen
rests on the map lookup together with "in the map implies open".
`StartsAtKeyFrame` and `VideoIsConfigured` are about history and need `HistoryInv`: the
stored header is the last one published (`VideoStored`), a subscriber not started has missed no key
frame since it joined (`Waits`), one that is started has every tag from its first one to the
newest, less the one still to be sent to it (`Follows`, `Contiguous`), headers are replayed only to one
that has just joined (`Pending`), and the header in force has been sent or is about to be
(`Configured`).
The same invariant gives `HubIsBroadcast`: a send is `Enter` for a subscriber not started
and `Advance` for one that is, an end of the loop is `Leave` of all that remain.

**Pipeline (`MediaPipelineProofs`).** A step of the pipeline is a step of the hub, no step
of it, or the end of a watcher, which `HubStep` shows to keep `HubInv`, so that
`PipelineKeepsHub` and `PipelineIsBroadcast` follow with real readers in the place of the
assumed ones. `BudgetIsExact` has no recursion: a buffer's size is a total when there is
a sequence of partial sums from 0 to it (`Sums`, `PrefixSums`), and the lemmas say what
appending a tag and taking the first one do to such a sequence. `ViewersSeeOrder` follows what was sent, what
the player is sending and what waits as one sequence of positions (`KeptOf`) that is
rising, and in which nothing offered is missing but the dropped.

**Registry (`ServerProofs`).** `Counts`, `ServerTypeCorrect`, `RegistryIsOpen`, `StreamsAreOwned`,
`OwnersClose`, `LeavesNothing`, for any number of connections, stream objects and names;
all but `Counts` assume clients that publish or play once per stream object
(see Server above for those that do not). The invariant `RegistryInv` says who is there to undo each
registration: a name in the map is held by the live stream object that publishes it, or
by the handler that has its id; a player likewise; an open stream has its name in the
map, or a handler about to close it. `RegisteredIsOpen` alone is not inductive: that
`delStream`, which takes a name and not an id, frees the right entry rests on nobody
else holding that name.

**Writer (`ChunkStreamWriterProofs`).** `ReportAwaited`, `WriterTypeCorrect`, `ResultsAreTrue`,
`WireOrdered`. `WireInv` ties the wire to the calls: a goroutine that is in Send waits for the
last of its messages, an offer not taken has no chunk on the wire, and the message being
written has all of its chunks but those left, at the end of the wire. From the first two
no message of a goroutine is written before an earlier one; from the last, an error
finds a message incomplete, and success a whole one.

**Connection (`ConnProofs`).** `OnCloseIsLast`: only the reader has calls of
the ConnHandler among its steps, it returns with no steps left, and
waitClose passes its second wait only after that. `ConnTypeCorrect` bounds the steps of
every handler; its invariant includes `WireInv`, since every step of a connection is one of
its writer or leaves that alone, and so `ConnKeepsWriter`. `StreamsDestroyedOnce` needs
`DestroyInv`: a stream object is in the table, and not yet visited by waitClose, exactly as long as its end
has not been reported, two ids never have one object, and the object whose
OnCreateStream is still to come is alive.

**Codec (`ChunkCodecProofs`).** `CodecTypeCorrect` holds of everything, extended timestamps and
a reader that is lost included. `CodecInSync`, `CodecReceivesAsSent` and `CodecNeverAhead` have
the hypothesis that no timestamp reaches `Extended`; without it the run `extended` refutes
the first, and it holds in the run `codec`. The reader lags behind the writer
by the chunks under way, so an invariant about the two ends alone says nothing until the wire is
empty. `SyncInv` runs the reader ahead: there is a sequence of reader states, from the
present one, in which each chunk of the wire is accepted (`Accepts`, `After`), and the last
of which is in step with the writer (`InStep`): the same chunk size; on every chunk
stream the same last stream, type and length, and a time that is not ahead (`Agree`); of the message
being written, exactly the bytes that are not left (`Halfway`), or all that its header
leaves out (`Ready`). Writing a chunk appends a state to that sequence, and reading one drops the
first, which is what `ReadIsAfter` says. `BasicHeaderNames` is the basic header's round trip.

**Handshake (`HandshakeProofs`).** `HandshakeTypeCorrect`, `Aligned`, `AnswersValidate`, for buffers and
digests of any length, any HMAC, and any bytes sent or drawn. `OffsetInArea` bounds the
digest offsets; `SignKeepsOffset` and `SignKeepsCovered` say that signing changes neither the
bytes that say where the digest is nor those it covers, from which a signed buffer
validates. The invariant counts the reports: those received are the goroutines
that have ended, each with nil while the exchange goes on.

**Session (`SessionProofs`).** `SessionHandshakes`, `SessionStarts`, `Routed`, for any commands and messages.
A session takes no step of a handshake that `Handshake` does not, so the theorems above hold
of it. `Routed` rests on `ParsedStream`: whatever parses prints the stream id of the message it was
parsed from, because the parsers of commands that print 0 refuse any other stream.
`SessionTypeCorrect`, `PrintedIsParsed` and `PanicsAreKnown` have as hypotheses what the
constants stand for: `Commands` is within `Printable(D)`, the commands of
the library with any data `D` in their fields, and raw commands whose name no parser has;
the bodies of `Foreign` messages are sequences of any values at all. `SessionInv` says that
every answer made is one a parser brings back, that the last command sent was one of
`Commands`, and that a session that panicked did so on its last message. The rest is in lemmas about the
operators of `Command`: `PrintedComesBack` for each kind of command, and `PanicIsShort`. `LeftOutEndsProgram` states a defect:
a publish or play printed without its optional argument passes the check of `command.go:167` and
panics at `command.go:176` or `command.go:224`, whatever its other fields are. `PanicsAreKnown`
completes it: the parser has no panics but this one and that of `_error` (`KnownPanic`).

The other assumptions are those the modules state of their constants, and `SingleUse` above.

Only model-checked, because no prover installed can do it: all liveness (leads-to under
fairness and ENABLED): `CallsReturn`, `BuffersEnd`, `PlayersEnd`, `AllDelivered`,
`EndsWithConnection`, `CloseReleases`, `ConnectionEnds`, `NoGoroutineLeft`, `HandshakeEnds`.
`AudioConfigured`, `ClosedByOwner` for clients that use a stream object
again, `WriteErrorEndsWriteTo`, `TimestampsAgree` and `InSync` with extended
timestamps do not hold, and their runs show it.

## Not modelled

- Byte counters and rates: nothing in the control reads them. Logging.
- AMF encoding, HMAC and the digest of S2: libraries, or read by nothing in the code.
- `bufio` beyond its first error: bytes that the race of Flush and WriteTo loses or
  repeats would end up anywhere on the wire.
- What acknowledgements count: nothing in the library reads it, and no text says in which
  order two of them should be written (`conn.go:252`).
- Errors that are not fatal (`conn.go:135`): the library makes none, and OnCommand would make them
  fatal (`conn.go:403`).
- `cmd/rtmpsniffer`: a proxy that prints; it does not compile against the library at this
  commit, for which `Command` is an interface. `cmd/rtmpserver` but for TrackStarvation.

## Plan

What could be proved next: that `Conn` implements `ChunkStreamWriter` as a specification
and not only its invariants; an abstract registry, names with an owner each, that `Server`
implements; an abstract pipe of messages that `ChunkCodec` implements under
the hypothesis of `CodecInSync`, with `SyncInv` as the invariant; which fields each of the
three `Lossy` commands keeps.
