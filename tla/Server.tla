------------------------------- MODULE Server -------------------------------
(***************************************************************************)
(* The registry of a server: which connection publishes which name, which  *)
(* stream object plays it, and what becomes of both when connections end   *)
(* (server.go, with the parts of stream.go and conn.go it is called from). *)
(*                                                                         *)
(* One goroutine at a time acts for a connection: its reader, which runs   *)
(* the command handlers, then waitClose, which destroys the streams that   *)
(* are left.  The goroutines of different connections meet in the maps     *)
(* server.streams and server.players, each behind a mutex that is held for *)
(* one map operation: the handlers are cut into steps there.               *)
(*                                                                         *)
(* The application's ServerHandler is external: it passes each command on  *)
(* to the Invoker it is given, as cmd/rtmpserver does.                     *)
(***************************************************************************)
EXTENDS Naturals, Sequences, FiniteSets

CONSTANTS Conns,      \* connections
          Streams,    \* stream objects, made by createStream
          Owner,      \* Owner[s]: the connection of s
          Names,      \* names clients publish and play
          SingleUse,  \* clients publish or play once per stream object
          MaxMedia,   \* bound: publish commands
          MaxPlayers  \* bound: play commands that find a stream

ASSUME ServerAssumption ==
  /\ Owner \in [Streams -> Conns]
  /\ SingleUse \in BOOLEAN
  /\ MaxMedia \in Nat
  /\ MaxPlayers \in Nat

None  == "none"
Empty == ""     \* the name a stream object refuses to publish or play

VARIABLES
  at,          \* at[c]: where the goroutine of c is
  arg,         \* arg[c]: stream, name and object id its handler works on, and where
               \* it goes back to
  net,         \* net[c]: "up", or "down" once closed by either side
  connections, \* server.connections
  streams,     \* server.streams: the mediaStream id of a name, or 0
  players,     \* server.players: the mediaPlayer id of a stream, or 0
  st,          \* st[s]: the stream object
  src,         \* src[s]: mediaStream of its serverStreamHandler, or 0
  media,       \* the mediaStreams made so far; closedBy is history
  mps          \* the mediaPlayers made so far

connVars     == <<at, arg, net, connections>>
registryVars == <<streams, players>>
objectVars   == <<st, src, media, mps>>
vars == <<connVars, registryVars, objectVars>>

NoArg == [s |-> None, n |-> None, id |-> 0, back |-> "reading"]

Goto(c, label)      == at' = [at EXCEPT ![c] = label]
Hold(c, s, n, id)   ==
  arg' = [arg EXCEPT ![c] = [s |-> s, n |-> n, id |-> id, back |-> at[c]]]
Fatal(c)            == net' = [net EXCEPT ![c] = "down"]

CloseMedia(i, c) ==
  media' = [media EXCEPT ![i].open = FALSE,
                         ![i].closedBy = IF media[i].open THEN c ELSE @]

\* Fault for the mutation runs: a player is dropped without mp.Close.
ForgetPlayer(i) == i # 0 /\ UNCHANGED mps
ClosePlayer(i)  == mps' = [mps EXCEPT ![i].open = FALSE]

\* Faults: an end that is not counted; a connection that is not counted when it starts.
LeaveUncounted == UNCHANGED connections
EnterUncounted == UNCHANGED connections

Leave == connections' = connections - 1
Enter == connections' = connections + 1

----------------------------------------------------------------------------
(* A connection comes and goes.                                            *)

\* handle: the connection is counted before the handshake.
Accept(c) ==
  /\ at[c] = "none"
  /\ Goto(c, "handshake")
  /\ Enter
  /\ UNCHANGED <<arg, net, registryVars, objectVars>>

HandshakeDone(c) ==
  /\ at[c] = "handshake"
  /\ Goto(c, "reading")
  /\ UNCHANGED <<arg, net, connections, registryVars, objectVars>>

HandshakeFails(c) ==
  /\ at[c] = "handshake"
  /\ Goto(c, "gone")
  /\ Fatal(c)
  /\ Leave
  /\ UNCHANGED <<arg, registryVars, objectVars>>

\* The peer or the network goes away at any time; every later Send fails.
Break(c) ==
  /\ at[c] \notin {"none", "handshake", "gone"}
  /\ net[c] = "up"
  /\ Fatal(c)
  /\ UNCHANGED <<at, arg, connections, registryVars, objectVars>>

\* The reader returns once the connection is down; until then it handles what it
\* has already received.  waitClose stops the writer and starts to clean up.
ReadEnds(c) ==
  /\ at[c] = "reading"
  /\ net[c] = "down"
  /\ Goto(c, "closing")
  /\ UNCHANGED <<arg, net, connections, registryVars, objectVars>>

\* Fault: of the streams that are left, waitClose destroys those that play.
PlayingStreams(c) == {s \in Streams : Owner[s] = c /\ st[s].live /\ st[s].playing}
LiveStreams(c)    == {s \in Streams : Owner[s] = c /\ st[s].live}

\* OnClose, after OnDestroyStream for every stream that is left.
OnClose(c) ==
  /\ at[c] = "closing"
  /\ LiveStreams(c) = {}
  /\ Goto(c, "gone")
  /\ Leave
  /\ UNCHANGED <<arg, net, registryVars, objectVars>>

\* The stream is in c.streams before the result is sent: when that fails, it stays
\* there without the handler that OnCreateStream would have given it.
CreateStream(s) ==
  /\ at[Owner[s]] = "reading"
  /\ ~st[s].made
  /\ st' = [st EXCEPT ![s].made = TRUE, ![s].live = TRUE, ![s].handled = net[Owner[s]] = "up"]
  /\ UNCHANGED <<connVars, registryVars, src, media, mps>>

\* A stream object whose handler may be given a publish or a play; without a
\* handler the connection is down and the command fails without a trace.
Ready(s) ==
  /\ at[Owner[s]] = "reading"
  /\ st[s].live /\ st[s].handled
  /\ SingleUse => ~st[s].used

\* callback.Invoke sends the status of a command, unless its name is empty.
Invoked(c)      == net[c] = "up" /\ arg[c].n # Empty
InvokeFailed(c) == net[c] = "down" \/ arg[c].n = Empty

----------------------------------------------------------------------------
(* publish                                                                 *)

NewMedia(s, n) == [name |-> n, owner |-> s, open |-> TRUE, closedBy |-> None]

\* Fault: putStream replaces what is there.
PutAlways(n) == TRUE
PutFree(n)   == streams[n] = 0

\* invokePublish up to putStream; a stream that cannot be put is closed unseen.
Publish(s, n) ==
  LET c == Owner[s] IN
  /\ Ready(s)
  /\ Len(media) < MaxMedia
  /\ st' = [st EXCEPT ![s].used = TRUE]
  /\ IF PutFree(n)
       THEN /\ media' = Append(media, NewMedia(s, n))
            /\ streams' = [streams EXCEPT ![n] = Len(media) + 1]
            /\ Goto(c, "publish")
            /\ Hold(c, s, n, Len(media) + 1)
            /\ UNCHANGED net
       ELSE /\ Fatal(c)
            /\ UNCHANGED <<at, arg, streams, media>>
  /\ UNCHANGED <<connections, players, src, mps>>

\* callback.Invoke: the status is sent, the stream object takes the name.
PublishStarts(c) ==
  LET a == arg[c] IN
  /\ at[c] = "publish"
  /\ Invoked(c)
  /\ st' = [st EXCEPT ![a.s].name = a.n, ![a.s].publishing = TRUE]
  /\ Goto(c, "onPublish")
  /\ UNCHANGED <<arg, net, connections, registryVars, src, media, mps>>

\* OnPublish looks the stream up again by its name.
OnPublish(c) ==
  LET a == arg[c] IN
  /\ at[c] = "onPublish"
  /\ src' = [src EXCEPT ![a.s] = streams[a.n]]
  /\ Goto(c, "reading")
  /\ UNCHANGED <<arg, net, connections, registryVars, st, media, mps>>

\* callback.Invoke failed: delStream, then Close.
PublishFails(c) ==
  /\ at[c] = "publish"
  /\ InvokeFailed(c)
  /\ streams' = [streams EXCEPT ![arg[c].n] = 0]
  /\ Goto(c, "unpublish")
  /\ UNCHANGED <<arg, net, connections, players, objectVars>>

Unpublish(c) ==
  /\ at[c] = "unpublish"
  /\ CloseMedia(arg[c].id, c)
  /\ Fatal(c)
  /\ Goto(c, "reading")
  /\ UNCHANGED <<arg, connections, registryVars, st, src, mps>>

----------------------------------------------------------------------------
(* play                                                                    *)

\* invokePlay: getStream.
Play(s, n) ==
  LET c == Owner[s] IN
  /\ Ready(s)
  /\ Len(mps) < MaxPlayers
  /\ st' = [st EXCEPT ![s].used = TRUE]
  /\ IF streams[n] = 0
       THEN Fatal(c) /\ UNCHANGED <<at, arg>>
       ELSE Goto(c, "play") /\ Hold(c, s, n, streams[n]) /\ UNCHANGED net
  /\ UNCHANGED <<connections, registryVars, src, media, mps>>

\* NewMediaPlayer: Subscribe fails when the stream has been closed in between,
\* unless its loop still serves the call first.
PlayRefused(c) ==
  /\ at[c] = "play"
  /\ ~media[arg[c].id].open
  /\ Fatal(c)
  /\ Goto(c, "reading")
  /\ UNCHANGED <<arg, connections, registryVars, objectVars>>

Entry(s, id) == IF players[s] = 0 THEN id ELSE 0

\* NewMediaPlayer and putPlayer.  Only this goroutine uses the entry of its own
\* stream; on a stream that has one, the new player is closed and the entry of
\* the old one is deleted.
PutPlayer(c) ==
  LET a  == arg[c]
      id == Len(mps) + 1
  IN
  /\ at[c] = "play"
  /\ players' = [players EXCEPT ![a.s] = Entry(a.s, id)]
  /\ mps' = Append(mps, [ms |-> a.id, stream |-> a.s, open |-> players'[a.s] = id, started |-> FALSE])
  /\ arg' = [arg EXCEPT ![c].id = id]
  /\ Goto(c, "playing")
  /\ UNCHANGED <<net, connections, streams, st, src, media>>

\* callback.Invoke, OnPlay and Start.
PlayStarts(c) ==
  LET a == arg[c] IN
  /\ at[c] = "playing"
  /\ Invoked(c)
  /\ st' = [st EXCEPT ![a.s].name = a.n, ![a.s].playing = TRUE]
  /\ mps' = [mps EXCEPT ![a.id].started = TRUE]
  /\ Goto(c, "reading")
  /\ UNCHANGED <<arg, net, connections, registryVars, src, media>>

PlayFails(c) ==
  LET a == arg[c] IN
  /\ at[c] = "playing"
  /\ InvokeFailed(c)
  /\ players' = [players EXCEPT ![a.s] = 0]
  /\ ClosePlayer(a.id)
  /\ Fatal(c)
  /\ Goto(c, "reading")
  /\ UNCHANGED <<arg, connections, streams, st, src, media>>

----------------------------------------------------------------------------
(* OnDestroyStream, from deleteStream and from waitClose.                  *)

\* getStream by the name the stream object has now.
Destroy(s) ==
  LET c == Owner[s] IN
  /\ at[c] \in {"reading", "closing"}
  /\ st[s].live
  /\ st' = [st EXCEPT ![s].live = FALSE]
  /\ Hold(c, s, st[s].name, IF st[s].publishing THEN streams[st[s].name] ELSE 0)
  /\ Goto(c, "destroy")
  /\ UNCHANGED <<net, connections, registryVars, src, media, mps>>

DestroyClose(c) ==
  /\ at[c] = "destroy"
  /\ arg[c].id # 0
  /\ CloseMedia(arg[c].id, c)
  /\ Goto(c, "delStream")
  /\ UNCHANGED <<arg, net, connections, registryVars, st, src, mps>>

\* Fault: the stream is closed and stays in the map.
KeepStream(c) == UNCHANGED streams
DelStream(c)  == streams' = [streams EXCEPT ![arg[c].n] = 0]

DestroyDelete(c) ==
  /\ at[c] = "delStream"
  /\ DelStream(c)
  /\ arg' = [arg EXCEPT ![c].id = 0]
  /\ Goto(c, "destroy")
  /\ UNCHANGED <<net, connections, players, objectVars>>

\* The player's half; the goroutine goes back to what it was doing.
DestroyPlayer(c) ==
  LET s == arg[c].s IN
  /\ at[c] = "destroy"
  /\ arg[c].id = 0
  /\ IF st[s].playing /\ players[s] # 0
       THEN ClosePlayer(players[s]) /\ players' = [players EXCEPT ![s] = 0]
       ELSE UNCHANGED <<mps, players>>
  /\ Goto(c, arg[c].back)
  /\ UNCHANGED <<arg, net, connections, streams, st, src, media>>

----------------------------------------------------------------------------

Init ==
  /\ at = [c \in Conns |-> "none"]
  /\ arg = [c \in Conns |-> NoArg]
  /\ net = [c \in Conns |-> "up"]
  /\ connections = 0
  /\ streams = [n \in Names |-> 0]
  /\ players = [s \in Streams |-> 0]
  /\ st = [s \in Streams |-> [made |-> FALSE, live |-> FALSE, used |-> FALSE, handled |-> FALSE,
                              name |-> None, publishing |-> FALSE, playing |-> FALSE]]
  /\ src = [s \in Streams |-> 0]
  /\ media = <<>>
  /\ mps = <<>>

DestroyAny(c) == \E s \in LiveStreams(c) : Destroy(s)

Handlers(c) ==
  \/ HandshakeDone(c) \/ ReadEnds(c) \/ OnClose(c)
  \/ PublishStarts(c) \/ OnPublish(c) \/ PublishFails(c) \/ Unpublish(c)
  \/ PlayRefused(c) \/ PutPlayer(c) \/ PlayStarts(c) \/ PlayFails(c)
  \/ DestroyClose(c) \/ DestroyDelete(c) \/ DestroyPlayer(c)

Next ==
  \/ \E c \in Conns : Accept(c) \/ HandshakeFails(c) \/ Break(c) \/ Handlers(c)
  \/ \E s \in Streams : \/ CreateStream(s)
                        \/ Destroy(s)
                        \/ \E n \in Names : Publish(s, n) \/ Play(s, n)

Spec == Init /\ [][Next]_vars

\* A handler that can go on does, and a reader notices that its connection is down.
FairSpec == Spec /\ \A c \in Conns : WF_vars(Handlers(c) \/ (at[c] = "closing" /\ DestroyAny(c)))

----------------------------------------------------------------------------
(* Properties.                                                             *)

Labels == {"none", "handshake", "reading", "closing", "gone", "publish", "onPublish",
           "unpublish", "play", "playing", "destroy", "delStream"}

Ids  == 0..Len(media)
Mine(c) == {i \in DOMAIN media : Owner[media[i].owner] = c}

\* Every variable keeps its type; registry entries name objects that exist.
TypeOK ==
  /\ at \in [Conns -> Labels]
  /\ arg \in [Conns -> [s : Streams \cup {None}, n : Names \cup {None}, id : Nat,
                         back : {"reading", "closing"}]]
  /\ net \in [Conns -> {"up", "down"}]
  /\ connections \in Nat
  /\ streams \in [Names -> Ids]
  /\ players \in [Streams -> 0..Len(mps)]
  /\ st \in [Streams -> [made : BOOLEAN, live : BOOLEAN, used : BOOLEAN,
                          handled : BOOLEAN, name : Names \cup {None}, publishing : BOOLEAN, playing : BOOLEAN]]
  /\ src \in [Streams -> Ids]
  /\ media \in Seq([name : Names, owner : Streams, open : BOOLEAN, closedBy : Conns \cup {None}])
  /\ mps \in Seq([ms : Nat \ {0}, stream : Streams, open : BOOLEAN, started : BOOLEAN])

\* A name in the map leads to the open stream its publisher registered, except
\* while that publisher is between the Close and the delStream of its teardown:
\* viewers are never attached to a dead stream for good, and a name that is
\* taken is taken by somebody.
RegisteredIsOpen ==
  \A n \in Names : streams[n] # 0 =>
    LET m == media[streams[n]] IN
      /\ m.name = n
      /\ m.open \/ at[Owner[m.owner]] = "delStream"

\* A stream is closed by the connection that publishes it and by no other.
ClosedByOwner ==
  \A i \in DOMAIN media : media[i].closedBy \in {None, Owner[media[i].owner]}

\* Nothing outlives its connection: no stream open or registered, no player
\* registered or still subscribed.
NothingLeaks ==
  \A c \in Conns : at[c] = "gone" =>
    /\ \A i \in Mine(c) : ~media[i].open /\ \A n \in Names : streams[n] # i
    /\ \A s \in Streams : Owner[s] = c => players[s] = 0
    /\ \A i \in DOMAIN mps : Owner[mps[i].stream] = c => ~mps[i].open

\* What a stream object receives is published to the stream it registered
\* itself, never to one of another connection that has the same name.
SourceIsOwn ==
  \A s \in Streams : src[s] # 0 => media[src[s]].owner = s

\* server.connections is the number of connections there are, whichever way each
\* of them ended.
CountIsExact == connections = Cardinality({c \in Conns : at[c] \notin {"none", "gone"}})

\* A stream ends when the connection that publishes it goes down.
EndsWithConnection ==
  \A c \in Conns :
    (net[c] = "down" /\ at[c] # "none") ~> (at[c] = "gone" /\ \A i \in Mine(c) : ~media[i].open)
=============================================================================
