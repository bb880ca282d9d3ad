---------------------------- MODULE ServerProofs ----------------------------
(***************************************************************************)
(* Theorems about Server, for any number of connections, stream objects    *)
(* and names, when clients publish or play once per stream object.         *)
(***************************************************************************)
EXTENDS Server, SequenceTheorems, FiniteSetTheorems, TLAPS

Media  == [name : Names, owner : Streams, open : BOOLEAN, closedBy : Conns \cup {None}]
Player == [ms : Nat \ {0}, stream : Streams, open : BOOLEAN, started : BOOLEAN]
Object == [made : BOOLEAN, live : BOOLEAN, used : BOOLEAN, handled : BOOLEAN,
           name : Names \cup {None}, publishing : BOOLEAN, playing : BOOLEAN]
Arg    == [s : Streams \cup {None}, n : Names \cup {None}, id : Nat, back : {"reading", "closing"}]

----------------------------------------------------------------------------
(* The inductive invariant.                                                *)

Busy == {"publish", "onPublish", "unpublish", "play", "playing", "destroy", "delStream"}

\* The stream object the handler of c works on, and how far it is.
WorksOn(c) ==
  at[c] \in Busy =>
    LET s == arg[c].s IN
      /\ s \in Streams /\ Owner[s] = c
      /\ at[c] \in {"publish", "onPublish", "play", "playing"} => st[s].live /\ st[s].used
      /\ at[c] \in {"publish", "play", "playing"} => ~st[s].publishing /\ ~st[s].playing
      /\ at[c] = "onPublish" => st[s].publishing /\ st[s].name = arg[c].n
      /\ at[c] \in {"destroy", "delStream"} => ~st[s].live

\* What it holds an id for is still what it was.
HoldsId(c) ==
  LET id == arg[c].id
      n  == arg[c].n
  IN
    /\ at[c] = "unpublish" => /\ id \in DOMAIN media /\ media[id].owner = arg[c].s
                              /\ \A m \in Names : streams[m] # id
    /\ at[c] = "play" => id \in DOMAIN media /\ n \in Names
    /\ at[c] = "playing" => id \in DOMAIN mps /\ players[arg[c].s] = id /\ n \in Names
    /\ at[c] \in {"publish", "delStream"} => id # 0
    /\ at[c] = "delStream" => ~media[id].open
    /\ at[c] \in {"publish", "destroy", "delStream"} /\ id # 0 =>
         n \in Names /\ streams[n] = id /\ media[id].owner = arg[c].s

\* A name in the map is that of an open stream, and somebody is there to take it out:
\* the stream object that publishes it, or the handler that holds the id.
HeldName(n) ==
  streams[n] # 0 =>
    LET i == streams[n]
        s == media[i].owner
        c == Owner[s]
    IN
      /\ media[i].name = n
      /\ media[i].open \/ (at[c] = "delStream" /\ arg[c].id = i)
      /\ \/ at[c] \in {"publish", "destroy", "delStream"} /\ arg[c].id = i
         \/ st[s].live /\ st[s].publishing /\ st[s].name = n

\* An open stream is in the map, but for the moment before it is closed.
InMap(i) ==
  media[i].open =>
    LET c == Owner[media[i].owner] IN
      streams[media[i].name] = i \/ (at[c] = "unpublish" /\ arg[c].id = i)

\* A stream object is used once, and what it does is in the maps as long as it lives.
UsedOnce(s) ==
  /\ st[s].live => st[s].made /\ at[Owner[s]] \notin {"none", "handshake", "gone"}
  /\ ~st[s].made => ~st[s].used
  /\ st[s].publishing \/ st[s].playing => st[s].used
  /\ ~(st[s].publishing /\ st[s].playing)
  /\ st[s].publishing => st[s].name \in Names
  /\ st[s].live /\ st[s].publishing =>
       streams[st[s].name] # 0 /\ media[streams[st[s].name]].owner = s
  /\ st[s].live /\ st[s].playing => players[s] # 0

\* A player in the map is that of the stream object, which will close it.
HeldPlayer(s) ==
  players[s] # 0 =>
    LET c == Owner[s] IN
      /\ mps[players[s]].stream = s
      /\ \/ st[s].playing /\ (st[s].live \/ (at[c] \in {"destroy", "delStream"} /\ arg[c].s = s))
         \/ at[c] = "playing" /\ arg[c].s = s

\* A player that is open is in the map.
OpenInMap(i) == mps[i].open => players[mps[i].stream] = i

Working  == \A c \in Conns : WorksOn(c)
Holding  == \A c \in Conns : HoldsId(c)
Named    == \A n \in Names : HeldName(n)
Mapped   == \A i \in DOMAIN media : InMap(i)
Once     == \A s \in Streams : UsedOnce(s)
Played   == \A s \in Streams : HeldPlayer(s)
Followed == \A i \in DOMAIN mps : OpenInMap(i)

RegistryInv ==
  Working /\ Holding /\ Named /\ Mapped /\ Once /\ Played /\ Followed /\ SourceIsOwn /\ ClosedByOwner

USE DEF connVars, registryVars, objectVars, Goto, Hold, Fatal, Leave, Enter

----------------------------------------------------------------------------
(* Types, and what happens to streams and players.                         *)

\* What TypeOK says, in the form the steps use it.
LEMMA Types ==
  ASSUME TypeOK
  PROVE  /\ at \in [Conns -> Labels] /\ DOMAIN arg = Conns /\ DOMAIN st = Streams
         /\ streams \in [Names -> Nat] /\ players \in [Streams -> Nat] /\ src \in [Streams -> Nat]
         /\ \A c \in Conns : arg[c] = [s |-> arg[c].s, n |-> arg[c].n, id |-> arg[c].id, back |-> arg[c].back]
         /\ \A s \in Streams : Owner[s] \in Conns
         /\ \A n \in Names : streams[n] # 0 => streams[n] \in DOMAIN media
         /\ \A s \in Streams : /\ players[s] # 0 => players[s] \in DOMAIN mps
                               /\ src[s] # 0 => src[s] \in DOMAIN media
         /\ media \in Seq(Media) /\ DOMAIN media = 1..Len(media) /\ Len(media) \in Nat
         /\ mps \in Seq(Player) /\ DOMAIN mps = 1..Len(mps) /\ Len(mps) \in Nat
         /\ \A i \in DOMAIN media : /\ media[i].owner \in Streams /\ Owner[media[i].owner] \in Conns
                                    /\ media[i].name \in Names
         /\ \A i \in DOMAIN mps : mps[i].stream \in Streams
<1>1. media \in Seq(Media) /\ mps \in Seq(Player)
  BY DEF TypeOK, Media, Player
<1>2. /\ DOMAIN media = 1..Len(media) /\ Len(media) \in Nat
      /\ DOMAIN mps = 1..Len(mps) /\ Len(mps) \in Nat
  BY <1>1, LenProperties
<1>3. /\ \A i \in DOMAIN media : media[i] \in Media
      /\ \A i \in DOMAIN mps : mps[i] \in Player
  BY <1>1, <1>2, ElementOfSeq
<1>4. /\ \A i \in DOMAIN media : /\ media[i].owner \in Streams /\ Owner[media[i].owner] \in Conns
                                 /\ media[i].name \in Names
      /\ \A i \in DOMAIN mps : mps[i].stream \in Streams
  BY <1>3, ServerAssumption DEF Media, Player
<1>5. /\ at \in [Conns -> Labels] /\ DOMAIN arg = Conns /\ DOMAIN st = Streams
      /\ \A s \in Streams : Owner[s] \in Conns
  BY ServerAssumption DEF TypeOK
<1>6. /\ streams \in [Names -> Nat] /\ players \in [Streams -> Nat] /\ src \in [Streams -> Nat]
      /\ \A n \in Names : streams[n] # 0 => streams[n] \in DOMAIN media
      /\ \A s \in Streams : /\ players[s] # 0 => players[s] \in DOMAIN mps
                            /\ src[s] # 0 => src[s] \in DOMAIN media
  BY <1>2 DEF TypeOK, Ids
<1>7. \A c \in Conns : arg[c] = [s |-> arg[c].s, n |-> arg[c].n, id |-> arg[c].id, back |-> arg[c].back]
  BY DEF TypeOK
<1> QED BY <1>1, <1>2, <1>4, <1>5, <1>6, <1>7

\* Whose a name is that is in the map.
LEMMA Holder ==
  ASSUME TypeOK, RegistryInv, NEW n \in Names
  PROVE  /\ HeldName(n)
         /\ streams[n] # 0 => /\ streams[n] \in DOMAIN media
                              /\ media[streams[n]].owner \in Streams /\ Owner[media[streams[n]].owner] \in Conns
BY Types DEF RegistryInv, Named

\* The functions among the variables, with their ranges.
LEMMA Ranges ==
  ASSUME TypeOK
  PROVE  /\ streams \in [Names -> 0..Len(media)] /\ src \in [Streams -> 0..Len(media)]
         /\ players \in [Streams -> 0..Len(mps)]
         /\ st \in [Streams -> Object] /\ arg \in [Conns -> Arg]
         /\ Len(media) \in Nat /\ Len(mps) \in Nat
BY Types DEF TypeOK, Ids, Object, Arg

\* One entry of a sequence is changed.
LEMMA Changed ==
  ASSUME NEW S, NEW f \in Seq(S), NEW i \in DOMAIN f, NEW e \in S, NEW g, g = [f EXCEPT ![i] = e]
  PROVE  /\ g \in Seq(S) /\ DOMAIN g = DOMAIN f /\ Len(g) = Len(f)
         /\ \A j \in DOMAIN f : g[j] = IF j = i THEN e ELSE f[j]
<1>1. DOMAIN f = 1..Len(f)
  BY LenProperties
<1> QED BY <1>1, ExceptSeq

\* An entry is appended to a sequence.
LEMMA Appended ==
  ASSUME NEW S, NEW f \in Seq(S), NEW e \in S
  PROVE  /\ Append(f, e) \in Seq(S) /\ DOMAIN Append(f, e) = 1..(Len(f) + 1) /\ DOMAIN f = 1..Len(f) /\ Len(f) \in Nat
         /\ Append(f, e)[Len(f) + 1] = e /\ Len(Append(f, e)) = Len(f) + 1
         /\ \A i \in DOMAIN f : Append(f, e)[i] = f[i]
BY AppendProperties, LenProperties

\* CloseMedia closes one stream, and changes neither the name nor the owner of any.
LEMMA Closed ==
  ASSUME media \in Seq(Media), NEW c \in Conns, NEW i \in DOMAIN media, CloseMedia(i, c)
  PROVE  /\ media' \in Seq(Media) /\ DOMAIN media' = DOMAIN media /\ Len(media') = Len(media)
         /\ \A j \in DOMAIN media :
              /\ media'[j].name = media[j].name /\ media'[j].owner = media[j].owner
              /\ j = i => ~media'[j].open
              /\ j # i => media'[j].open = media[j].open
              /\ media'[j].closedBy = media[j].closedBy \/ (j = i /\ media'[j].closedBy = c)
<1> DEFINE m == [media[i] EXCEPT !.open = FALSE, !.closedBy = IF media[i].open THEN c ELSE @]
<1>1. media[i] \in Media
  BY ElementOfSeq, LenProperties
<1>2. /\ m \in Media /\ m.name = media[i].name /\ m.owner = media[i].owner
      /\ ~m.open /\ m.closedBy \in {media[i].closedBy, c}
  BY <1>1 DEF Media
<1>3. media' = [media EXCEPT ![i] = m]
  BY Zenon DEF CloseMedia
<1> HIDE DEF m
<1>4. /\ media' \in Seq(Media) /\ DOMAIN media' = DOMAIN media /\ Len(media') = Len(media)
      /\ \A j \in DOMAIN media : media'[j] = IF j = i THEN m ELSE media[j]
  BY <1>2, <1>3, Changed
<1>5. ASSUME NEW j \in DOMAIN media
      PROVE  /\ media'[j].name = media[j].name /\ media'[j].owner = media[j].owner
             /\ j = i => ~media'[j].open
             /\ j # i => media'[j].open = media[j].open
             /\ media'[j].closedBy = media[j].closedBy \/ (j = i /\ media'[j].closedBy = c)
  BY <1>2, <1>4
<1> QED BY <1>4, <1>5

\* ClosePlayer closes one player.
LEMMA Ended ==
  ASSUME mps \in Seq(Player), NEW i \in DOMAIN mps, ClosePlayer(i)
  PROVE  /\ mps' \in Seq(Player) /\ DOMAIN mps' = DOMAIN mps /\ Len(mps') = Len(mps)
         /\ \A j \in DOMAIN mps : /\ mps'[j].stream = mps[j].stream
                                  /\ j = i => ~mps'[j].open
                                  /\ j # i => mps'[j].open = mps[j].open
<1> DEFINE m == [mps[i] EXCEPT !.open = FALSE]
<1>1. mps[i] \in Player
  BY ElementOfSeq, LenProperties
<1>2. m \in Player /\ m.stream = mps[i].stream /\ ~m.open
  BY <1>1 DEF Player
<1>3. mps' = [mps EXCEPT ![i] = m]
  BY DEF ClosePlayer
<1> HIDE DEF m
<1>4. /\ mps' \in Seq(Player) /\ DOMAIN mps' = DOMAIN mps /\ Len(mps') = Len(mps)
      /\ \A j \in DOMAIN mps : mps'[j] = IF j = i THEN m ELSE mps[j]
  BY <1>2, <1>3, Changed
<1> QED BY <1>2, <1>4

\* A player is started: neither its stream object nor whether it is open changes.
LEMMA Started ==
  ASSUME mps \in Seq(Player), NEW i \in DOMAIN mps, mps' = [mps EXCEPT ![i].started = TRUE]
  PROVE  /\ mps' \in Seq(Player) /\ DOMAIN mps' = DOMAIN mps /\ Len(mps') = Len(mps)
         /\ \A j \in DOMAIN mps : mps'[j].stream = mps[j].stream /\ mps'[j].open = mps[j].open
<1> DEFINE m == [mps[i] EXCEPT !.started = TRUE]
<1>1. mps[i] \in Player
  BY ElementOfSeq, LenProperties
<1>2. m \in Player /\ m.stream = mps[i].stream /\ m.open = mps[i].open
  BY <1>1 DEF Player
<1>3. mps' = [mps EXCEPT ![i] = m]
  OBVIOUS
<1> HIDE DEF m
<1>4. /\ mps' \in Seq(Player) /\ DOMAIN mps' = DOMAIN mps /\ Len(mps') = Len(mps)
      /\ \A j \in DOMAIN mps : mps'[j] = IF j = i THEN m ELSE mps[j]
  BY <1>2, <1>3, Changed
<1> QED BY <1>2, <1>4

----------------------------------------------------------------------------
(* The steps.                                                              *)

Moves(c) == Accept(c) \/ HandshakeDone(c) \/ HandshakeFails(c) \/ Break(c) \/ ReadEnds(c) \/ OnClose(c) \/ PlayRefused(c)

\* Steps that move a goroutine on and touch neither maps nor objects.
LEMMA MovesKeeps ==
  ASSUME SingleUse, TypeOK, RegistryInv, connections' \in Nat, NEW c \in Conns,
         Moves(c)
  PROVE  TypeOK' /\ RegistryInv'
<1> USE DEF RegistryInv
<1>t. /\ DOMAIN at = Conns /\ DOMAIN arg = Conns /\ DOMAIN st = Streams
      /\ DOMAIN streams = Names /\ DOMAIN players = Streams
      /\ Len(media) \in Nat /\ Len(mps) \in Nat
      /\ \A x \in Streams : Owner[x] \in Conns
  BY Types
<1>0. /\ UNCHANGED <<arg, streams, players, st, src, media, mps>>
      /\ \/ UNCHANGED at
         \/ /\ at[c] \in {"none", "handshake", "reading", "closing", "play"}
            /\ \E l \in {"handshake", "reading", "closing", "gone"} : at' = [at EXCEPT ![c] = l]
  BY DEF Moves, Accept, HandshakeDone, HandshakeFails, Break, ReadEnds, OnClose, PlayRefused
<1>1. Working'
  <2> SUFFICES ASSUME NEW d \in Conns PROVE WorksOn(d)'
    BY DEF Working
  <2>1. CASE d = c
    BY <2>1, <1>0, Types DEF Working, WorksOn, Busy
  <2>2. CASE d # c
    BY <2>2, <1>0, Types DEF Working, WorksOn, Busy
  <2> QED BY <2>1, <2>2
<1>2. Holding'
  <2> SUFFICES ASSUME NEW d \in Conns PROVE HoldsId(d)'
    BY DEF Holding
  <2>1. CASE d = c
    BY <2>1, <1>0, Types DEF Holding, HoldsId
  <2>2. CASE d # c
    BY <2>2, <1>0, Types DEF Holding, HoldsId
  <2> QED BY <2>1, <2>2
<1>3. Named'
  <2> SUFFICES ASSUME NEW m \in Names PROVE HeldName(m)'
    BY DEF Named
  <2> QED BY <1>0, Types DEF Named, HeldName
<1>4. Mapped'
  <2> SUFFICES ASSUME NEW i \in DOMAIN media' PROVE InMap(i)'
    BY DEF Mapped
  <2> QED BY <1>0, Types DEF Mapped, InMap
<1>5. Once'
  <2> SUFFICES ASSUME NEW t \in Streams PROVE UsedOnce(t)'
    BY DEF Once
  <2> QED BY <1>0, Types DEF Moves, Accept, HandshakeDone, HandshakeFails, Break, ReadEnds, OnClose, PlayRefused, LiveStreams, Once, UsedOnce
<1>6. Played'
  <2> SUFFICES ASSUME NEW t \in Streams PROVE HeldPlayer(t)'
    BY DEF Played
  <2> QED BY <1>0, Types DEF Played, HeldPlayer
<1>7. Followed'
  <2> SUFFICES ASSUME NEW i \in DOMAIN mps' PROVE OpenInMap(i)'
    BY DEF Followed
  <2> QED BY <1>0, Types DEF Followed, OpenInMap
<1>8. SourceIsOwn'
  BY <1>0, Types DEF SourceIsOwn
<1>9. ClosedByOwner'
  BY <1>0, Types DEF ClosedByOwner
<1>10. TypeOK'
  <2>1. at' \in [Conns -> Labels] /\ net' \in [Conns -> {"up", "down"}]
    BY <1>0, Types DEF Moves, Accept, HandshakeDone, HandshakeFails, Break, ReadEnds, OnClose, PlayRefused, TypeOK, Labels
  <2>2. arg' \in [Conns -> Arg]
    BY <1>0, Types DEF Moves, Accept, HandshakeDone, HandshakeFails, Break, ReadEnds, OnClose, PlayRefused, TypeOK, Arg
  <2>3. /\ streams' \in [Names -> 0..Len(media')] /\ src' \in [Streams -> 0..Len(media')]
         /\ players' \in [Streams -> 0..Len(mps')]
    BY <1>0, Ranges
  <2>4. st' \in [Streams -> Object]
    BY <1>0, Types DEF Moves, Accept, HandshakeDone, HandshakeFails, Break, ReadEnds, OnClose, PlayRefused, TypeOK, Object
  <2>5. media' \in Seq(Media) /\ mps' \in Seq(Player)
    BY <1>0, Types DEF Moves, Accept, HandshakeDone, HandshakeFails, Break, ReadEnds, OnClose, PlayRefused, TypeOK
  <2> QED BY <2>1, <2>2, <2>3, <2>4, <2>5 DEF TypeOK, Ids, Media, Player, Object, Arg
<1> QED BY <1>10, <1>1, <1>2, <1>3, <1>4, <1>5, <1>6, <1>7, <1>8, <1>9

\* A new stream object is unused.
LEMMA CreateStreamKeeps ==
  ASSUME SingleUse, TypeOK, RegistryInv, connections' \in Nat, NEW s \in Streams,
         CreateStream(s)
  PROVE  TypeOK' /\ RegistryInv'
<1> USE DEF RegistryInv
<1>t. /\ DOMAIN at = Conns /\ DOMAIN arg = Conns /\ DOMAIN st = Streams
      /\ DOMAIN streams = Names /\ DOMAIN players = Streams
      /\ Len(media) \in Nat /\ Len(mps) \in Nat
      /\ \A x \in Streams : Owner[x] \in Conns
  BY Types
<1>0. /\ at[Owner[s]] = "reading" /\ ~st[s].made
      /\ \E h \in BOOLEAN : st' = [st EXCEPT ![s].made = TRUE, ![s].live = TRUE, ![s].handled = h]
      /\ UNCHANGED <<at, arg, streams, players, src, media, mps>>
  BY DEF CreateStream
<1>1. Working'
  <2> SUFFICES ASSUME NEW d \in Conns PROVE WorksOn(d)'
    BY DEF Working
  <2>1. CASE d = Owner[s]
    BY <2>1, <1>0, Types DEF Working, WorksOn, Busy
  <2>2. CASE d # Owner[s]
    BY <2>2, <1>0, Types DEF Working, WorksOn, Busy
  <2> QED BY <2>1, <2>2
<1>2. Holding'
  <2> SUFFICES ASSUME NEW d \in Conns PROVE HoldsId(d)'
    BY DEF Holding
  <2>1. CASE d = Owner[s]
    BY <2>1, <1>0, Types DEF Holding, HoldsId
  <2>2. CASE d # Owner[s]
    BY <2>2, <1>0, Types DEF Holding, HoldsId
  <2> QED BY <2>1, <2>2
<1>3. Named'
  <2> SUFFICES ASSUME NEW m \in Names PROVE HeldName(m)'
    BY DEF Named
  <2>1. UNCHANGED <<at, arg, streams, media>>
    BY <1>0
  <2>2. /\ st'[s].name = st[s].name /\ st'[s].publishing = st[s].publishing /\ st'[s].live
        /\ \A t \in Streams : t # s => st'[t] = st[t]
    BY <1>0, <1>t
  <2>3. /\ HeldName(m)
        /\ streams[m] # 0 => media[streams[m]].owner \in Streams
    BY Holder
  <2>4. CASE streams[m] = 0
    BY <2>1, <2>4 DEF HeldName
  <2>5. CASE streams[m] # 0
    <3> HIDE DEF RegistryInv
    <3>1. CASE media[streams[m]].owner = s
      BY <2>1, <2>2, <2>3, <2>5, <3>1 DEF HeldName
    <3>2. CASE media[streams[m]].owner # s
      BY <2>1, <2>2, <2>3, <2>5, <3>2 DEF HeldName
    <3> QED BY <3>1, <3>2
  <2> QED BY <2>4, <2>5
<1>4. Mapped'
  <2> SUFFICES ASSUME NEW i \in DOMAIN media' PROVE InMap(i)'
    BY DEF Mapped
  <2> QED BY <1>0, Types DEF Mapped, InMap
<1>5. Once'
  <2> SUFFICES ASSUME NEW t \in Streams PROVE UsedOnce(t)'
    BY DEF Once
  <2> QED BY <1>0, Types DEF Once, UsedOnce
<1>6. Played'
  <2> SUFFICES ASSUME NEW t \in Streams PROVE HeldPlayer(t)'
    BY DEF Played
  <2> QED BY <1>0, Types DEF Played, HeldPlayer
<1>7. Followed'
  <2> SUFFICES ASSUME NEW i \in DOMAIN mps' PROVE OpenInMap(i)'
    BY DEF Followed
  <2> QED BY <1>0, Types DEF Followed, OpenInMap
<1>8. SourceIsOwn'
  BY <1>0, Types DEF SourceIsOwn
<1>9. ClosedByOwner'
  BY <1>0, Types DEF ClosedByOwner
<1>10. TypeOK'
  <2>1. at' \in [Conns -> Labels] /\ net' \in [Conns -> {"up", "down"}]
    BY <1>0, Types DEF CreateStream, TypeOK, Labels
  <2>2. arg' \in [Conns -> Arg]
    BY <1>0, Types DEF CreateStream, TypeOK, Arg
  <2>3. /\ streams' \in [Names -> 0..Len(media')] /\ src' \in [Streams -> 0..Len(media')]
         /\ players' \in [Streams -> 0..Len(mps')]
    BY <1>0, Ranges
  <2>4. st' \in [Streams -> Object]
    <3>0. PICK h \in BOOLEAN : st' = [st EXCEPT ![s].made = TRUE, ![s].live = TRUE, ![s].handled = h]
      BY <1>0
    <3>1. st \in [Streams -> Object] /\ s \in Streams /\ st[s] \in Object
      BY <1>0, Ranges
    <3>2. [st[s] EXCEPT !.made = TRUE, !.live = TRUE, !.handled = h] \in Object
      BY <3>1, Ranges DEF Object
    <3>3. st' = [st EXCEPT ![s] = [st[s] EXCEPT !.made = TRUE, !.live = TRUE, !.handled = h]]
      BY <3>0
    <3> QED BY <3>1, <3>2, <3>3
  <2>5. media' \in Seq(Media) /\ mps' \in Seq(Player)
    BY <1>0, Types DEF CreateStream, TypeOK
  <2> QED BY <2>1, <2>2, <2>3, <2>4, <2>5 DEF TypeOK, Ids, Media, Player, Object, Arg
<1> QED BY <1>10, <1>1, <1>2, <1>3, <1>4, <1>5, <1>6, <1>7, <1>8, <1>9

\* A name that is taken, or that nobody publishes: the connection goes down.
LEMMA RefusedKeeps ==
  ASSUME SingleUse, TypeOK, RegistryInv, connections' \in Nat, NEW s \in Streams, NEW n \in Names,
         (Publish(s, n) /\ streams[n] # 0) \/ (Play(s, n) /\ streams[n] = 0)
  PROVE  TypeOK' /\ RegistryInv'
<1> USE DEF RegistryInv
<1>t. /\ DOMAIN at = Conns /\ DOMAIN arg = Conns /\ DOMAIN st = Streams
      /\ DOMAIN streams = Names /\ DOMAIN players = Streams
      /\ Len(media) \in Nat /\ Len(mps) \in Nat
      /\ \A x \in Streams : Owner[x] \in Conns
  BY Types
<1>0. /\ st[s].live /\ st' = [st EXCEPT ![s].used = TRUE]
      /\ UNCHANGED <<at, arg, streams, players, src, media, mps>>
  BY Types DEF Publish, Play, Ready, PutFree
<1>1. Working'
  <2> SUFFICES ASSUME NEW d \in Conns PROVE WorksOn(d)'
    BY DEF Working
  <2>1. CASE d = Owner[s]
    BY <2>1, <1>0, Types DEF Working, WorksOn, Busy
  <2>2. CASE d # Owner[s]
    BY <2>2, <1>0, Types DEF Working, WorksOn, Busy
  <2> QED BY <2>1, <2>2
<1>2. Holding'
  <2> SUFFICES ASSUME NEW d \in Conns PROVE HoldsId(d)'
    BY DEF Holding
  <2>1. CASE d = Owner[s]
    BY <2>1, <1>0, Types DEF Holding, HoldsId
  <2>2. CASE d # Owner[s]
    BY <2>2, <1>0, Types DEF Holding, HoldsId
  <2> QED BY <2>1, <2>2
<1>3. Named'
  <2> SUFFICES ASSUME NEW m \in Names, streams'[m] # 0 PROVE HeldName(m)'
    BY DEF Named, HeldName
  <2>1. /\ streams'[m] = streams[m] /\ HeldName(m) /\ streams[m] \in DOMAIN media
        /\ media[streams[m]].owner \in Streams /\ Owner[media[streams[m]].owner] \in Conns
        /\ media'[streams[m]].name = media[streams[m]].name
        /\ media'[streams[m]].owner = media[streams[m]].owner
    BY <1>0, Types DEF Named
  <2> QED BY <1>0, <1>t, <2>1 DEF HeldName
<1>4. Mapped'
  <2> SUFFICES ASSUME NEW i \in DOMAIN media' PROVE InMap(i)'
    BY DEF Mapped
  <2> QED BY <1>0, Types DEF Mapped, InMap
<1>5. Once'
  <2> SUFFICES ASSUME NEW t \in Streams PROVE UsedOnce(t)'
    BY DEF Once
  <2> QED BY <1>0, Types DEF Once, UsedOnce
<1>6. Played'
  <2> SUFFICES ASSUME NEW t \in Streams PROVE HeldPlayer(t)'
    BY DEF Played
  <2> QED BY <1>0, Types DEF Played, HeldPlayer
<1>7. Followed'
  <2> SUFFICES ASSUME NEW i \in DOMAIN mps' PROVE OpenInMap(i)'
    BY DEF Followed
  <2> QED BY <1>0, Types DEF Followed, OpenInMap
<1>8. SourceIsOwn'
  BY <1>0, Types DEF SourceIsOwn
<1>9. ClosedByOwner'
  BY <1>0, Types DEF ClosedByOwner
<1>10. TypeOK'
  <2>1. at' \in [Conns -> Labels] /\ net' \in [Conns -> {"up", "down"}]
    BY <1>0, Types DEF Publish, Play, Ready, PutFree, TypeOK, Labels
  <2>2. arg' \in [Conns -> Arg]
    BY <1>0, Types DEF Publish, Play, Ready, PutFree, TypeOK, Arg
  <2>3. /\ streams' \in [Names -> 0..Len(media')] /\ src' \in [Streams -> 0..Len(media')]
         /\ players' \in [Streams -> 0..Len(mps')]
    BY <1>0, Ranges
  <2>4. st' \in [Streams -> Object]
    <3>1. st \in [Streams -> Object] /\ s \in Streams /\ st[s] \in Object
      BY <1>0, Ranges
    <3>2. [st[s] EXCEPT !.used = TRUE] \in Object
      BY <3>1, Ranges DEF Object
    <3>3. st' = [st EXCEPT ![s] = [st[s] EXCEPT !.used = TRUE]]
      BY <1>0
    <3> QED BY <3>1, <3>2, <3>3
  <2>5. media' \in Seq(Media) /\ mps' \in Seq(Player)
    BY <1>0, Types DEF Publish, Play, Ready, PutFree, TypeOK
  <2> QED BY <2>1, <2>2, <2>3, <2>4, <2>5 DEF TypeOK, Ids, Media, Player, Object, Arg
<1> QED BY <1>10, <1>1, <1>2, <1>3, <1>4, <1>5, <1>6, <1>7, <1>8, <1>9

\* A new stream takes a free name; the handler holds its id.
LEMMA PublishKeeps ==
  ASSUME SingleUse, TypeOK, RegistryInv, connections' \in Nat, NEW s \in Streams, NEW n \in Names,
         Publish(s, n), streams[n] = 0
  PROVE  TypeOK' /\ RegistryInv'
<1> USE DEF RegistryInv
<1>t. /\ DOMAIN at = Conns /\ DOMAIN arg = Conns /\ DOMAIN st = Streams
      /\ DOMAIN streams = Names /\ DOMAIN players = Streams
      /\ Len(media) \in Nat /\ Len(mps) \in Nat
      /\ \A x \in Streams : Owner[x] \in Conns
  BY Types
<1>0. /\ at[Owner[s]] = "reading" /\ at' = [at EXCEPT ![Owner[s]] = "publish"]
      /\ arg' = [arg EXCEPT ![Owner[s]] = [s |-> s, n |-> n, id |-> Len(media) + 1, back |-> "reading"]]
      /\ st[s].live /\ ~st[s].used /\ st' = [st EXCEPT ![s].used = TRUE]
      /\ streams[n] = 0 /\ streams' = [streams EXCEPT ![n] = Len(media) + 1]
      /\ media' \in Seq(Media) /\ DOMAIN media' = 1..(Len(media) + 1) /\ Len(media') = Len(media) + 1
      /\ media'[Len(media) + 1] = NewMedia(s, n)
      /\ \A i \in DOMAIN media : media'[i] = media[i]
      /\ UNCHANGED <<players, src, mps>>
  <2>1. NewMedia(s, n) \in Media
    BY DEF NewMedia, Media
  <2>2. media' = Append(media, NewMedia(s, n))
    BY DEF Publish, PutFree
  <2>3. /\ media' \in Seq(Media) /\ DOMAIN media' = 1..(Len(media) + 1) /\ Len(media') = Len(media) + 1
        /\ media'[Len(media) + 1] = NewMedia(s, n)
        /\ \A i \in DOMAIN media : media'[i] = media[i]
    BY <2>1, <2>2, Types, Appended
  <2> QED BY <2>3 DEF Publish, Ready, PutFree
<1>1. Working'
  <2> SUFFICES ASSUME NEW d \in Conns PROVE WorksOn(d)'
    BY DEF Working
  <2>1. CASE d = Owner[s]
    BY <2>1, <1>0, Types DEF NewMedia, Working, WorksOn, Busy, Once, UsedOnce
  <2>2. CASE d # Owner[s]
    BY <2>2, <1>0, Types DEF NewMedia, Working, WorksOn, Busy, Once, UsedOnce
  <2> QED BY <2>1, <2>2
<1>2. Holding'
  <2> SUFFICES ASSUME NEW d \in Conns PROVE HoldsId(d)'
    BY DEF Holding
  <2>1. CASE d = Owner[s]
    BY <2>1, <1>0, Types DEF NewMedia, Holding, HoldsId
  <2>2. CASE d # Owner[s]
    BY <2>2, <1>0, Types DEF NewMedia, Holding, HoldsId
  <2> QED BY <2>1, <2>2
<1>3. Named'
  <2> SUFFICES ASSUME NEW m \in Names PROVE HeldName(m)'
    BY DEF Named
  <2>1. \A t \in Streams : /\ st'[t].name = st[t].name /\ st'[t].publishing = st[t].publishing
                          /\ st'[t].live = st[t].live
    BY <1>0, <1>t
  <2>2. CASE m = n
    <3>1. streams'[m] = Len(media) + 1 /\ at'[Owner[s]] = "publish" /\ arg'[Owner[s]].id = Len(media) + 1
      BY <1>0, <1>t, <2>2
    <3>2. media'[Len(media) + 1].owner = s /\ media'[Len(media) + 1].name = n /\ media'[Len(media) + 1].open
      BY <1>0 DEF NewMedia
    <3> QED BY <2>2, <3>1, <3>2 DEF HeldName
  <2>3. CASE m # n
    <3>1. streams'[m] = streams[m] /\ (\A i \in DOMAIN media : media'[i] = media[i])
      BY <1>0, <1>t, <2>3
    <3>2. \A d \in Conns : at[d] # "reading" => at'[d] = at[d] /\ arg'[d] = arg[d]
      BY <1>0, <1>t
    <3> QED BY <2>1, <3>1, <3>2, Holder DEF HeldName
  <2> QED BY <2>2, <2>3
<1>4. Mapped'
  <2> SUFFICES ASSUME NEW i \in DOMAIN media', media'[i].open PROVE InMap(i)'
    BY DEF Mapped, InMap
  <2>1. CASE i = Len(media) + 1
    BY <2>1, <1>0, <1>t DEF InMap, NewMedia
  <2>2. CASE i # Len(media) + 1
    <3>1. i \in DOMAIN media /\ i # 0
      BY <2>2, <1>0, Types
    <3>2. /\ InMap(i) /\ media[i].open /\ media'[i] = media[i]
          /\ media[i].owner \in Streams /\ Owner[media[i].owner] \in Conns /\ media[i].name \in Names
      BY <3>1, <1>0, Types DEF Mapped
    <3> QED BY <1>0, <1>t, <3>1, <3>2 DEF InMap
  <2> QED BY <2>1, <2>2
<1>5. Once'
  <2> SUFFICES ASSUME NEW t \in Streams PROVE UsedOnce(t)'
    BY DEF Once
  <2> QED BY <1>0, Types DEF NewMedia, Once, UsedOnce
<1>6. Played'
  <2> SUFFICES ASSUME NEW t \in Streams PROVE HeldPlayer(t)'
    BY DEF Played
  <2> QED BY <1>0, Types DEF NewMedia, Played, HeldPlayer
<1>7. Followed'
  <2> SUFFICES ASSUME NEW i \in DOMAIN mps' PROVE OpenInMap(i)'
    BY DEF Followed
  <2> QED BY <1>0, Types DEF NewMedia, Followed, OpenInMap
<1>8. SourceIsOwn'
  BY <1>0, Types DEF NewMedia, SourceIsOwn
<1>9. ClosedByOwner'
  BY <1>0, Types DEF NewMedia, ClosedByOwner
<1>10. TypeOK'
  <2>1. at' \in [Conns -> Labels] /\ net' \in [Conns -> {"up", "down"}]
    BY <1>0, Types DEF Publish, PutFree, TypeOK, Labels
  <2>2. arg' \in [Conns -> Arg]
    BY <1>0, Types DEF Publish, PutFree, TypeOK, Arg
  <2>3. /\ streams' \in [Names -> 0..Len(media')] /\ src' \in [Streams -> 0..Len(media')]
         /\ players' \in [Streams -> 0..Len(mps')]
    BY <1>0, Types DEF Publish, PutFree, TypeOK, Ids
  <2>4. st' \in [Streams -> Object]
    <3>1. st \in [Streams -> Object] /\ s \in Streams /\ st[s] \in Object
      BY <1>0, Ranges
    <3>2. [st[s] EXCEPT !.used = TRUE] \in Object
      BY <3>1, Ranges DEF Object
    <3>3. st' = [st EXCEPT ![s] = [st[s] EXCEPT !.used = TRUE]]
      BY <1>0
    <3> QED BY <3>1, <3>2, <3>3
  <2>5. media' \in Seq(Media) /\ mps' \in Seq(Player)
    BY <1>0, Types DEF Publish, PutFree, TypeOK
  <2> QED BY <2>1, <2>2, <2>3, <2>4, <2>5 DEF TypeOK, Ids, Media, Player, Object, Arg
<1> QED BY <1>10, <1>1, <1>2, <1>3, <1>4, <1>5, <1>6, <1>7, <1>8, <1>9

\* The stream object takes over from the handler as the holder of the name.
LEMMA PublishStartsKeeps ==
  ASSUME SingleUse, TypeOK, RegistryInv, connections' \in Nat, NEW c \in Conns,
         PublishStarts(c)
  PROVE  TypeOK' /\ RegistryInv'
<1> USE DEF RegistryInv
<1>t. /\ DOMAIN at = Conns /\ DOMAIN arg = Conns /\ DOMAIN st = Streams
      /\ DOMAIN streams = Names /\ DOMAIN players = Streams
      /\ Len(media) \in Nat /\ Len(mps) \in Nat
      /\ \A x \in Streams : Owner[x] \in Conns
  BY Types
<1>0. /\ at[c] = "publish" /\ at' = [at EXCEPT ![c] = "onPublish"]
      /\ st' = [st EXCEPT ![arg[c].s].name = arg[c].n, ![arg[c].s].publishing = TRUE]
      /\ UNCHANGED <<arg, streams, players, src, media, mps>>
  BY DEF PublishStarts
<1>u. /\ UNCHANGED <<arg, streams, media, players>> /\ at[c] = "publish" /\ at'[c] = "onPublish"
      /\ \A d \in Conns : d # c => at'[d] = at[d]
      /\ \A t \in Streams : t # arg[c].s => st'[t] = st[t]
  BY <1>0, <1>t
<1>v. LET s == arg[c].s IN
        /\ s \in Streams /\ Owner[s] = c /\ arg[c].n \in Names /\ streams[arg[c].n] # 0
        /\ streams[arg[c].n] = arg[c].id /\ media[arg[c].id].owner = s
        /\ st[s].live /\ st[s].used /\ ~st[s].publishing /\ ~st[s].playing
  BY <1>u DEF Working, WorksOn, Holding, HoldsId, Busy
<1>w. LET s == arg[c].s IN
        /\ st'[s].name = arg[c].n /\ st'[s].publishing /\ st'[s].playing = st[s].playing
        /\ st'[s].live = st[s].live /\ st'[s].made = st[s].made /\ st'[s].used = st[s].used
  <2>1. PICK s, n : s = arg[c].s /\ n = arg[c].n
    OBVIOUS
  <2>2. s \in Streams /\ st \in [Streams -> Object] /\ st[s] \in Object
    BY <1>v, <2>1, Ranges
  <2>3. st' = [st EXCEPT ![s].name = n, ![s].publishing = TRUE]
    BY <1>0, <2>1
  <2> QED BY <2>1, <2>2, <2>3 DEF Object
<1>1. Working'
  <2> SUFFICES ASSUME NEW d \in Conns PROVE WorksOn(d)'
    BY DEF Working
  <2>1. /\ WorksOn(c) /\ WorksOn(d) /\ at[c] \in Busy /\ arg[c].s \in Streams /\ Owner[arg[c].s] = c
    BY <1>0 DEF Working, WorksOn, Busy
  <2>2. CASE d = c
    BY <2>1, <2>2, <1>0, <1>t DEF WorksOn, Busy
  <2>3. CASE d # c
    <3>1. at'[d] = at[d] /\ (at[d] \in Busy => arg[d].s # arg[c].s /\ st'[arg[d].s] = st[arg[d].s])
      BY <2>1, <2>3, <1>0, <1>t DEF WorksOn
    <3> QED BY <2>1, <3>1, <1>0 DEF WorksOn
  <2> QED BY <2>2, <2>3
<1>2. Holding'
  <2> SUFFICES ASSUME NEW d \in Conns PROVE HoldsId(d)'
    BY DEF Holding
  <2>1. CASE d = c
    BY <2>1, <1>0, Types DEF Holding, HoldsId
  <2>2. CASE d # c
    BY <2>2, <1>0, Types DEF Holding, HoldsId
  <2> QED BY <2>1, <2>2
<1>3. Named'
  <2> SUFFICES ASSUME NEW m \in Names PROVE HeldName(m)'
    BY DEF Named
  <2>1. CASE streams[m] = 0
    BY <2>1, <1>u DEF HeldName
  <2>2. CASE streams[m] # 0 /\ media[streams[m]].owner = arg[c].s
    <3>0. HeldName(m)
      BY Holder
    <3>1. media[streams[m]].name = m /\ media[streams[m]].open /\ streams[m] = arg[c].id
      BY <2>2, <3>0, <1>u, <1>v DEF HeldName
    <3>2. m = arg[c].n
      BY <3>1, <1>v, Holder DEF HeldName
    <3> QED BY <2>2, <3>1, <3>2, <1>u, <1>v, <1>w DEF HeldName
  <2>3. CASE streams[m] # 0 /\ media[streams[m]].owner # arg[c].s
    <3>1. streams[m] # arg[c].id
      BY <2>3, <1>v
    <3> QED BY <2>3, <3>1, <1>u, Holder DEF HeldName
  <2> QED BY <2>1, <2>2, <2>3
<1>4. Mapped'
  <2> SUFFICES ASSUME NEW i \in DOMAIN media' PROVE InMap(i)'
    BY DEF Mapped
  <2> QED BY <1>0, Types DEF Mapped, InMap
<1>5. Once'
  <2> SUFFICES ASSUME NEW t \in Streams PROVE UsedOnce(t)'
    BY DEF Once
  <2>1. UsedOnce(t) /\ Owner[t] \in Conns
    BY <1>t DEF Once
  <2>2. CASE t = arg[c].s
    BY <2>1, <2>2, <1>u, <1>v, <1>w DEF UsedOnce
  <2>3. CASE t # arg[c].s
    <3>1. at'[Owner[t]] \in {"none", "handshake", "gone"} => at[Owner[t]] \in {"none", "handshake", "gone"}
      BY <1>u, <2>1
    <3> QED BY <2>1, <2>3, <3>1, <1>u DEF UsedOnce
  <2> QED BY <2>2, <2>3
<1>6. Played'
  <2> SUFFICES ASSUME NEW t \in Streams PROVE HeldPlayer(t)'
    BY DEF Played
  <2> QED BY <1>0, Types DEF Played, HeldPlayer
<1>7. Followed'
  <2> SUFFICES ASSUME NEW i \in DOMAIN mps' PROVE OpenInMap(i)'
    BY DEF Followed
  <2> QED BY <1>0, Types DEF Followed, OpenInMap
<1>8. SourceIsOwn'
  BY <1>0, Types DEF SourceIsOwn
<1>9. ClosedByOwner'
  BY <1>0, Types DEF ClosedByOwner
<1>10. TypeOK'
  <2>1. at' \in [Conns -> Labels] /\ net' \in [Conns -> {"up", "down"}]
    BY <1>0, Types DEF PublishStarts, TypeOK, Labels
  <2>2. arg' \in [Conns -> Arg]
    BY <1>0, Types DEF PublishStarts, TypeOK, Arg
  <2>3. /\ streams' \in [Names -> 0..Len(media')] /\ src' \in [Streams -> 0..Len(media')]
         /\ players' \in [Streams -> 0..Len(mps')]
    BY <1>0, Ranges
  <2>4. st' \in [Streams -> Object]
    <3>1. st \in [Streams -> Object] /\ arg[c].s \in Streams /\ st[arg[c].s] \in Object /\ arg[c].n \in Names
      BY <1>0, Ranges DEF Working, WorksOn, Holding, HoldsId, Busy
    <3>2. [st[arg[c].s] EXCEPT !.name = arg[c].n, !.publishing = TRUE] \in Object
      BY <3>1, Ranges DEF Object
    <3>3. st' = [st EXCEPT ![arg[c].s] = [st[arg[c].s] EXCEPT !.name = arg[c].n, !.publishing = TRUE]]
      BY <1>0
    <3> QED BY <3>1, <3>2, <3>3
  <2>5. media' \in Seq(Media) /\ mps' \in Seq(Player)
    BY <1>0, Types DEF PublishStarts, TypeOK
  <2> QED BY <2>1, <2>2, <2>3, <2>4, <2>5 DEF TypeOK, Ids, Media, Player, Object, Arg
<1> QED BY <1>10, <1>1, <1>2, <1>3, <1>4, <1>5, <1>6, <1>7, <1>8, <1>9

\* The name still leads to the stream the stream object registered.
LEMMA OnPublishKeeps ==
  ASSUME SingleUse, TypeOK, RegistryInv, connections' \in Nat, NEW c \in Conns,
         OnPublish(c)
  PROVE  TypeOK' /\ RegistryInv'
<1> USE DEF RegistryInv
<1>t. /\ DOMAIN at = Conns /\ DOMAIN arg = Conns /\ DOMAIN st = Streams
      /\ DOMAIN streams = Names /\ DOMAIN players = Streams
      /\ Len(media) \in Nat /\ Len(mps) \in Nat
      /\ \A x \in Streams : Owner[x] \in Conns
  BY Types
<1>0. /\ at[c] = "onPublish" /\ at' = [at EXCEPT ![c] = "reading"]
      /\ src' = [src EXCEPT ![arg[c].s] = streams[arg[c].n]]
      /\ UNCHANGED <<arg, streams, players, st, media, mps>>
  BY DEF OnPublish
<1>1. Working'
  <2> SUFFICES ASSUME NEW d \in Conns PROVE WorksOn(d)'
    BY DEF Working
  <2>1. CASE d = c
    BY <2>1, <1>0, Types DEF Working, WorksOn, Busy
  <2>2. CASE d # c
    BY <2>2, <1>0, Types DEF Working, WorksOn, Busy
  <2> QED BY <2>1, <2>2
<1>2. Holding'
  <2> SUFFICES ASSUME NEW d \in Conns PROVE HoldsId(d)'
    BY DEF Holding
  <2>1. CASE d = c
    BY <2>1, <1>0, Types DEF Holding, HoldsId
  <2>2. CASE d # c
    BY <2>2, <1>0, Types DEF Holding, HoldsId
  <2> QED BY <2>1, <2>2
<1>3. Named'
  <2> SUFFICES ASSUME NEW m \in Names, streams'[m] # 0 PROVE HeldName(m)'
    BY DEF Named, HeldName
  <2>1. /\ streams'[m] = streams[m] /\ HeldName(m) /\ streams[m] \in DOMAIN media
        /\ media[streams[m]].owner \in Streams /\ Owner[media[streams[m]].owner] \in Conns
        /\ media'[streams[m]].name = media[streams[m]].name
        /\ media'[streams[m]].owner = media[streams[m]].owner
    BY <1>0, Types DEF Named
  <2> QED BY <1>0, <1>t, <2>1 DEF HeldName
<1>4. Mapped'
  <2> SUFFICES ASSUME NEW i \in DOMAIN media' PROVE InMap(i)'
    BY DEF Mapped
  <2> QED BY <1>0, Types DEF Mapped, InMap
<1>5. Once'
  <2> SUFFICES ASSUME NEW t \in Streams PROVE UsedOnce(t)'
    BY DEF Once
  <2> QED BY <1>0, Types DEF Once, UsedOnce
<1>6. Played'
  <2> SUFFICES ASSUME NEW t \in Streams PROVE HeldPlayer(t)'
    BY DEF Played
  <2> QED BY <1>0, Types DEF Played, HeldPlayer
<1>7. Followed'
  <2> SUFFICES ASSUME NEW i \in DOMAIN mps' PROVE OpenInMap(i)'
    BY DEF Followed
  <2> QED BY <1>0, Types DEF Followed, OpenInMap
<1>8. SourceIsOwn'
  <2>1. /\ arg[c].s \in Streams /\ st[arg[c].s].live /\ st[arg[c].s].publishing
        /\ st[arg[c].s].name = arg[c].n
    BY <1>0 DEF Working, WorksOn, Busy
  <2>2. media[streams[arg[c].n]].owner = arg[c].s
    BY <2>1 DEF Once, UsedOnce
  <2>3. DOMAIN src = Streams
    BY Types
  <2> QED BY <1>0, <2>1, <2>2, <2>3 DEF SourceIsOwn
<1>9. ClosedByOwner'
  BY <1>0, Types DEF ClosedByOwner
<1>10. TypeOK'
  <2>1. at' \in [Conns -> Labels] /\ net' \in [Conns -> {"up", "down"}]
    BY <1>0, Types DEF OnPublish, TypeOK, Labels
  <2>2. arg' \in [Conns -> Arg]
    BY <1>0, Types DEF OnPublish, TypeOK, Arg
  <2>3. /\ streams' \in [Names -> 0..Len(media')] /\ src' \in [Streams -> 0..Len(media')]
         /\ players' \in [Streams -> 0..Len(mps')]
    BY <1>0, Types DEF TypeOK, Ids, Working, WorksOn, Once, UsedOnce, Busy
  <2>4. st' \in [Streams -> Object]
    BY <1>0, Types DEF OnPublish, TypeOK, Object
  <2>5. media' \in Seq(Media) /\ mps' \in Seq(Player)
    BY <1>0, Types DEF OnPublish, TypeOK
  <2> QED BY <2>1, <2>2, <2>3, <2>4, <2>5 DEF TypeOK, Ids, Media, Player, Object, Arg
<1> QED BY <1>10, <1>1, <1>2, <1>3, <1>4, <1>5, <1>6, <1>7, <1>8, <1>9

\* The name is freed; the handler alone knows the stream, which is open.
LEMMA PublishFailsKeeps ==
  ASSUME SingleUse, TypeOK, RegistryInv, connections' \in Nat, NEW c \in Conns,
         PublishFails(c)
  PROVE  TypeOK' /\ RegistryInv'
<1> USE DEF RegistryInv
<1>t. /\ DOMAIN at = Conns /\ DOMAIN arg = Conns /\ DOMAIN st = Streams
      /\ DOMAIN streams = Names /\ DOMAIN players = Streams
      /\ Len(media) \in Nat /\ Len(mps) \in Nat
      /\ \A x \in Streams : Owner[x] \in Conns
  BY Types
<1>0. /\ at[c] = "publish" /\ at' = [at EXCEPT ![c] = "unpublish"]
      /\ streams' = [streams EXCEPT ![arg[c].n] = 0]
      /\ UNCHANGED <<arg, players, st, src, media, mps>>
  BY DEF PublishFails
<1>1. Working'
  <2> SUFFICES ASSUME NEW d \in Conns PROVE WorksOn(d)'
    BY DEF Working
  <2>1. CASE d = c
    BY <2>1, <1>0, Types DEF Working, WorksOn, Busy
  <2>2. CASE d # c
    BY <2>2, <1>0, Types DEF Working, WorksOn, Busy
  <2> QED BY <2>1, <2>2
<1>2. Holding'
  <2> SUFFICES ASSUME NEW d \in Conns PROVE HoldsId(d)'
    BY DEF Holding
  <2>1. /\ HoldsId(d) /\ arg[c].n \in Names /\ arg[c].id # 0
        /\ streams[arg[c].n] = arg[c].id /\ media[arg[c].id].owner = arg[c].s
    BY <1>0 DEF Holding, HoldsId
  <2>2. arg[c].id \in DOMAIN media /\ \A m \in Names : m # arg[c].n => streams[m] # arg[c].id
    <3>1. \A m \in Names : streams[m] # 0 => streams[m] \in DOMAIN media /\ media[streams[m]].name = m
      BY Holder DEF HeldName
    <3> QED BY <2>1, <3>1
  <2>3. CASE d = c
    BY <2>1, <2>2, <2>3, <1>0, <1>t DEF HoldsId
  <2>4. CASE d # c
    <3>1. at'[d] = at[d] /\ arg'[d] = arg[d]
      BY <2>4, <1>0, <1>t
    <3>2. at[d] \in {"publish", "destroy", "delStream"} /\ arg[d].id # 0 => arg[d].n # arg[c].n
      BY <2>1, <2>4, <1>0 DEF HoldsId, Working, WorksOn, Busy
    <3>3. at[d] = "unpublish" => arg[d].id # 0
      BY <2>1, Types DEF HoldsId
    <3> QED BY <2>1, <3>1, <3>2, <3>3, <1>0, <1>t DEF HoldsId
  <2> QED BY <2>3, <2>4
<1>3. Named'
  <2> SUFFICES ASSUME NEW m \in Names PROVE HeldName(m)'
    BY DEF Named
  <2>1. arg[c].n \in Names /\ streams[arg[c].n] = arg[c].id /\ at[c] = "publish"
    BY <1>0 DEF Holding, HoldsId
  <2>2. /\ UNCHANGED <<arg, st, media>> /\ (\A d \in Conns : d # c => at'[d] = at[d])
        /\ streams'[arg[c].n] = 0 /\ (m # arg[c].n => streams'[m] = streams[m])
    BY <1>0, <1>t, <2>1
  <2>3. CASE m = arg[c].n
    BY <2>2, <2>3 DEF HeldName
  <2>4. CASE m # arg[c].n /\ streams[m] # 0
    <3>1. media[streams[m]].name = m
      BY <2>4, Holder DEF HeldName
    <3>2. streams[m] # arg[c].id
      BY <2>1, <2>4, <3>1, Holder DEF HeldName
    <3> QED BY <2>1, <2>2, <2>4, <3>2, Holder DEF HeldName
  <2>5. CASE m # arg[c].n /\ streams[m] = 0
    BY <2>2, <2>5 DEF HeldName
  <2> QED BY <2>3, <2>4, <2>5
<1>4. Mapped'
  <2> SUFFICES ASSUME NEW i \in DOMAIN media', media'[i].open PROVE InMap(i)'
    BY DEF Mapped, InMap
  <2>1. /\ i \in DOMAIN media /\ InMap(i) /\ media[i].open
        /\ media[i].owner \in Streams /\ Owner[media[i].owner] \in Conns /\ media[i].name \in Names
        /\ media'[i].name = media[i].name /\ media'[i].owner = media[i].owner
    BY <1>0, Types DEF Mapped
  <2>2. /\ media[arg[c].id].owner = arg[c].s /\ Owner[arg[c].s] = c
        /\ arg[c].id = streams[arg[c].n] /\ arg[c].n \in Names
    BY <1>0 DEF Holding, HoldsId, Working, WorksOn, Busy
  <2> QED BY <1>0, <1>t, <2>1, <2>2 DEF InMap
<1>5. Once'
  <2> SUFFICES ASSUME NEW t \in Streams PROVE UsedOnce(t)'
    BY DEF Once
  <2> QED BY <1>0, Types DEF Once, Working, Holding, Named, UsedOnce, WorksOn, HoldsId, HeldName, Busy
<1>6. Played'
  <2> SUFFICES ASSUME NEW t \in Streams PROVE HeldPlayer(t)'
    BY DEF Played
  <2> QED BY <1>0, Types DEF Played, HeldPlayer
<1>7. Followed'
  <2> SUFFICES ASSUME NEW i \in DOMAIN mps' PROVE OpenInMap(i)'
    BY DEF Followed
  <2> QED BY <1>0, Types DEF Followed, OpenInMap
<1>8. SourceIsOwn'
  BY <1>0, Types DEF SourceIsOwn
<1>9. ClosedByOwner'
  BY <1>0, Types DEF ClosedByOwner
<1>10. TypeOK'
  <2>1. at' \in [Conns -> Labels] /\ net' \in [Conns -> {"up", "down"}]
    BY <1>0, Types DEF PublishFails, TypeOK, Labels
  <2>2. arg' \in [Conns -> Arg]
    BY <1>0, Types DEF PublishFails, TypeOK, Arg
  <2>3. /\ streams' \in [Names -> 0..Len(media')] /\ src' \in [Streams -> 0..Len(media')]
         /\ players' \in [Streams -> 0..Len(mps')]
    <3>1. streams' = [streams EXCEPT ![arg[c].n] = 0] /\ UNCHANGED <<src, players, media, mps>>
      BY <1>0
    <3>2. 0 \in 0..Len(media) /\ 0 \in 0..Len(mps)
      BY <1>t
    <3> QED BY <3>1, <3>2, Ranges
  <2>4. st' \in [Streams -> Object]
    BY <1>0, Types DEF PublishFails, TypeOK, Object
  <2>5. media' \in Seq(Media) /\ mps' \in Seq(Player)
    BY <1>0, Types DEF PublishFails, TypeOK
  <2> QED BY <2>1, <2>2, <2>3, <2>4, <2>5 DEF TypeOK, Ids, Media, Player, Object, Arg
<1> QED BY <1>10, <1>1, <1>2, <1>3, <1>4, <1>5, <1>6, <1>7, <1>8, <1>9

\* The handler closes the stream it took out of the map.
LEMMA UnpublishKeeps ==
  ASSUME SingleUse, TypeOK, RegistryInv, connections' \in Nat, NEW c \in Conns,
         Unpublish(c)
  PROVE  TypeOK' /\ RegistryInv'
<1> USE DEF RegistryInv
<1>t. /\ DOMAIN at = Conns /\ DOMAIN arg = Conns /\ DOMAIN st = Streams
      /\ DOMAIN streams = Names /\ DOMAIN players = Streams
      /\ Len(media) \in Nat /\ Len(mps) \in Nat
      /\ \A x \in Streams : Owner[x] \in Conns
  BY Types
<1>0. /\ at[c] = "unpublish" /\ at' = [at EXCEPT ![c] = "reading"]
      /\ media' \in Seq(Media) /\ Len(media') = Len(media)
      /\ arg[c].id \in DOMAIN media /\ DOMAIN media' = DOMAIN media /\ media[arg[c].id].owner = arg[c].s
      /\ \A j \in DOMAIN media :
           /\ media'[j].name = media[j].name /\ media'[j].owner = media[j].owner
           /\ j = arg[c].id => ~media'[j].open
           /\ j # arg[c].id => media'[j].open = media[j].open
           /\ media'[j].closedBy = media[j].closedBy \/ (j = arg[c].id /\ media'[j].closedBy = c)
      /\ UNCHANGED <<arg, streams, players, st, src, mps>>
  <2>1. arg[c].id \in DOMAIN media /\ media[arg[c].id].owner = arg[c].s
    BY Types DEF Unpublish, Holding, HoldsId
  <2> QED BY <2>1, Types, Closed DEF Unpublish
<1>1. Working'
  <2> SUFFICES ASSUME NEW d \in Conns PROVE WorksOn(d)'
    BY DEF Working
  <2>1. CASE d = c
    BY <2>1, <1>0, Types DEF Working, WorksOn, Busy
  <2>2. CASE d # c
    BY <2>2, <1>0, Types DEF Working, WorksOn, Busy
  <2> QED BY <2>1, <2>2
<1>2. Holding'
  <2> SUFFICES ASSUME NEW d \in Conns PROVE HoldsId(d)'
    BY DEF Holding
  <2>1. CASE d = c
    BY <2>1, <1>0, Types DEF Holding, HoldsId
  <2>2. CASE d # c
    BY <2>2, <1>0, Types DEF Holding, HoldsId
  <2> QED BY <2>1, <2>2
<1>3. Named'
  <2> SUFFICES ASSUME NEW m \in Names, streams'[m] # 0 PROVE HeldName(m)'
    BY DEF Named, HeldName
  <2>1. /\ streams'[m] = streams[m] /\ HeldName(m) /\ streams[m] \in DOMAIN media
        /\ media[streams[m]].owner \in Streams /\ Owner[media[streams[m]].owner] \in Conns
        /\ media'[streams[m]].name = media[streams[m]].name
        /\ media'[streams[m]].owner = media[streams[m]].owner
    BY <1>0, Types DEF Named
  <2>2. streams[m] # arg[c].id
    BY <1>0 DEF Holding, HoldsId
  <2> QED BY <1>0, <1>t, <2>1, <2>2 DEF HeldName
<1>4. Mapped'
  <2> SUFFICES ASSUME NEW i \in DOMAIN media', media'[i].open PROVE InMap(i)'
    BY DEF Mapped, InMap
  <2>1. /\ i \in DOMAIN media /\ InMap(i) /\ media[i].open
        /\ media[i].owner \in Streams /\ Owner[media[i].owner] \in Conns /\ media[i].name \in Names
        /\ media'[i].name = media[i].name /\ media'[i].owner = media[i].owner
    BY <1>0, Types DEF Mapped
  <2>2. i # arg[c].id
    BY <1>0
  <2> QED BY <1>0, <1>t, <2>1, <2>2 DEF InMap
<1>5. Once'
  <2> SUFFICES ASSUME NEW t \in Streams PROVE UsedOnce(t)'
    BY DEF Once
  <2>1. UsedOnce(t) /\ Owner[t] \in Conns
    BY <1>t DEF Once
  <2>2. st[t].live /\ st[t].publishing =>
          media'[streams[st[t].name]].owner = media[streams[st[t].name]].owner
    BY <1>0, <2>1, Types DEF UsedOnce
  <2> QED BY <1>0, <1>t, <2>1, <2>2 DEF UsedOnce
<1>6. Played'
  <2> SUFFICES ASSUME NEW t \in Streams PROVE HeldPlayer(t)'
    BY DEF Played
  <2> QED BY <1>0, Types DEF Played, HeldPlayer
<1>7. Followed'
  <2> SUFFICES ASSUME NEW i \in DOMAIN mps' PROVE OpenInMap(i)'
    BY DEF Followed
  <2> QED BY <1>0, Types DEF Followed, OpenInMap
<1>8. SourceIsOwn'
  BY <1>0, Types DEF SourceIsOwn
<1>9. ClosedByOwner'
  <2>1. Owner[media[arg[c].id].owner] = c
    BY <1>0 DEF Working, WorksOn, Busy
  <2> QED BY <1>0, <2>1 DEF ClosedByOwner
<1>10. TypeOK'
  <2>1. at' \in [Conns -> Labels] /\ net' \in [Conns -> {"up", "down"}]
    BY <1>0, Types DEF Unpublish, TypeOK, Labels
  <2>2. arg' \in [Conns -> Arg]
    BY <1>0, Types DEF Unpublish, TypeOK, Arg
  <2>3. /\ streams' \in [Names -> 0..Len(media')] /\ src' \in [Streams -> 0..Len(media')]
         /\ players' \in [Streams -> 0..Len(mps')]
    BY <1>0, Ranges
  <2>4. st' \in [Streams -> Object]
    BY <1>0, Types DEF Unpublish, TypeOK, Object
  <2>5. media' \in Seq(Media) /\ mps' \in Seq(Player)
    BY <1>0, Types DEF Unpublish, TypeOK
  <2> QED BY <2>1, <2>2, <2>3, <2>4, <2>5 DEF TypeOK, Ids, Media, Player, Object, Arg
<1> QED BY <1>10, <1>1, <1>2, <1>3, <1>4, <1>5, <1>6, <1>7, <1>8, <1>9

\* The handler holds the id of a stream of anybody.
LEMMA PlayKeeps ==
  ASSUME SingleUse, TypeOK, RegistryInv, connections' \in Nat, NEW s \in Streams, NEW n \in Names,
         Play(s, n), streams[n] # 0
  PROVE  TypeOK' /\ RegistryInv'
<1> USE DEF RegistryInv
<1>t. /\ DOMAIN at = Conns /\ DOMAIN arg = Conns /\ DOMAIN st = Streams
      /\ DOMAIN streams = Names /\ DOMAIN players = Streams
      /\ Len(media) \in Nat /\ Len(mps) \in Nat
      /\ \A x \in Streams : Owner[x] \in Conns
  BY Types
<1>0. /\ at[Owner[s]] = "reading" /\ at' = [at EXCEPT ![Owner[s]] = "play"]
      /\ arg' = [arg EXCEPT ![Owner[s]] = [s |-> s, n |-> n, id |-> streams[n], back |-> "reading"]]
      /\ st[s].live /\ ~st[s].used /\ st' = [st EXCEPT ![s].used = TRUE]
      /\ streams[n] # 0
      /\ UNCHANGED <<streams, players, src, media, mps>>
  BY DEF Play, Ready
<1>1. Working'
  <2> SUFFICES ASSUME NEW d \in Conns PROVE WorksOn(d)'
    BY DEF Working
  <2>1. CASE d = Owner[s]
    BY <2>1, <1>0, Types DEF Working, WorksOn, Busy, Once, UsedOnce
  <2>2. CASE d # Owner[s]
    BY <2>2, <1>0, Types DEF Working, WorksOn, Busy, Once, UsedOnce
  <2> QED BY <2>1, <2>2
<1>2. Holding'
  <2> SUFFICES ASSUME NEW d \in Conns PROVE HoldsId(d)'
    BY DEF Holding
  <2>1. CASE d = Owner[s]
    BY <2>1, <1>0, Types DEF Holding, HoldsId
  <2>2. CASE d # Owner[s]
    BY <2>2, <1>0, Types DEF Holding, HoldsId
  <2> QED BY <2>1, <2>2
<1>3. Named'
  <2> SUFFICES ASSUME NEW m \in Names, streams'[m] # 0 PROVE HeldName(m)'
    BY DEF Named, HeldName
  <2>1. /\ streams'[m] = streams[m] /\ HeldName(m) /\ streams[m] \in DOMAIN media
        /\ media[streams[m]].owner \in Streams /\ Owner[media[streams[m]].owner] \in Conns
        /\ media'[streams[m]].name = media[streams[m]].name
        /\ media'[streams[m]].owner = media[streams[m]].owner
    BY <1>0, Types DEF Named
  <2> QED BY <1>0, <1>t, <2>1 DEF HeldName
<1>4. Mapped'
  <2> SUFFICES ASSUME NEW i \in DOMAIN media' PROVE InMap(i)'
    BY DEF Mapped
  <2> QED BY <1>0, Types DEF Mapped, InMap
<1>5. Once'
  <2> SUFFICES ASSUME NEW t \in Streams PROVE UsedOnce(t)'
    BY DEF Once
  <2> QED BY <1>0, Types DEF Once, UsedOnce
<1>6. Played'
  <2> SUFFICES ASSUME NEW t \in Streams PROVE HeldPlayer(t)'
    BY DEF Played
  <2> QED BY <1>0, Types DEF Played, HeldPlayer
<1>7. Followed'
  <2> SUFFICES ASSUME NEW i \in DOMAIN mps' PROVE OpenInMap(i)'
    BY DEF Followed
  <2> QED BY <1>0, Types DEF Followed, OpenInMap
<1>8. SourceIsOwn'
  BY <1>0, Types DEF SourceIsOwn
<1>9. ClosedByOwner'
  BY <1>0, Types DEF ClosedByOwner
<1>10. TypeOK'
  <2>1. at' \in [Conns -> Labels] /\ net' \in [Conns -> {"up", "down"}]
    BY <1>0, Types DEF Play, TypeOK, Labels
  <2>2. arg' \in [Conns -> Arg]
    BY <1>0, Types DEF Play, TypeOK, Arg
  <2>3. /\ streams' \in [Names -> 0..Len(media')] /\ src' \in [Streams -> 0..Len(media')]
         /\ players' \in [Streams -> 0..Len(mps')]
    BY <1>0, Ranges
  <2>4. st' \in [Streams -> Object]
    <3>1. st \in [Streams -> Object] /\ s \in Streams /\ st[s] \in Object
      BY <1>0, Ranges
    <3>2. [st[s] EXCEPT !.used = TRUE] \in Object
      BY <3>1, Ranges DEF Object
    <3>3. st' = [st EXCEPT ![s] = [st[s] EXCEPT !.used = TRUE]]
      BY <1>0
    <3> QED BY <3>1, <3>2, <3>3
  <2>5. media' \in Seq(Media) /\ mps' \in Seq(Player)
    BY <1>0, Types DEF Play, TypeOK
  <2> QED BY <2>1, <2>2, <2>3, <2>4, <2>5 DEF TypeOK, Ids, Media, Player, Object, Arg
<1> QED BY <1>10, <1>1, <1>2, <1>3, <1>4, <1>5, <1>6, <1>7, <1>8, <1>9

\* The entry of the stream object is free, as it is used once.
LEMMA PutPlayerKeeps ==
  ASSUME SingleUse, TypeOK, RegistryInv, connections' \in Nat, NEW c \in Conns,
         PutPlayer(c)
  PROVE  TypeOK' /\ RegistryInv'
<1> USE DEF RegistryInv
<1>t. /\ DOMAIN at = Conns /\ DOMAIN arg = Conns /\ DOMAIN st = Streams
      /\ DOMAIN streams = Names /\ DOMAIN players = Streams
      /\ Len(media) \in Nat /\ Len(mps) \in Nat
      /\ \A x \in Streams : Owner[x] \in Conns
  BY Types
<1>0. /\ at[c] = "play" /\ at' = [at EXCEPT ![c] = "playing"]
      /\ arg' = [arg EXCEPT ![c].id = Len(mps) + 1]
      /\ players[arg[c].s] = 0 /\ players' = [players EXCEPT ![arg[c].s] = Len(mps) + 1]
      /\ mps' \in Seq(Player) /\ DOMAIN mps' = 1..(Len(mps) + 1) /\ Len(mps') = Len(mps) + 1
      /\ mps'[Len(mps) + 1].stream = arg[c].s
      /\ \A j \in DOMAIN mps : mps'[j] = mps[j]
      /\ UNCHANGED <<streams, st, src, media>>
  <2> DEFINE new == [ms |-> arg[c].id, stream |-> arg[c].s, open |-> players'[arg[c].s] = Len(mps) + 1, started |-> FALSE]
  <2>1. new \in Player /\ mps' = Append(mps, new)
    BY Types DEF Player, PutPlayer, Holding, Working, HoldsId, WorksOn, Busy
  <2>2. new.stream = arg[c].s
    OBVIOUS
  <2>3. at[c] = "play" /\ arg[c].s \in Streams /\ Owner[arg[c].s] = c /\ ~st[arg[c].s].playing
    BY Types DEF PutPlayer, Working, WorksOn, Busy
  <2>4. players[arg[c].s] = 0
    BY <2>3 DEF Played, HeldPlayer
  <2>5. mps' = Append(mps, new) => /\ mps' \in Seq(Player) /\ DOMAIN mps' = 1..(Len(mps) + 1) /\ Len(mps') = Len(mps) + 1
                                  /\ mps'[Len(mps) + 1].stream = arg[c].s
                                  /\ \A j \in DOMAIN mps : mps'[j] = mps[j]
    <3> HIDE DEF new
    <3> QED BY <2>1, <2>2, Types, Appended
  <2> QED BY <2>1, <2>4, <2>5, Types DEF PutPlayer, Entry
<1>1. Working'
  <2> SUFFICES ASSUME NEW d \in Conns PROVE WorksOn(d)'
    BY DEF Working
  <2>1. CASE d = c
    BY <2>1, <1>0, Types DEF Working, WorksOn, Busy
  <2>2. CASE d # c
    BY <2>2, <1>0, Types DEF Working, WorksOn, Busy
  <2> QED BY <2>1, <2>2
<1>2. Holding'
  <2> SUFFICES ASSUME NEW d \in Conns PROVE HoldsId(d)'
    BY DEF Holding
  <2>1. CASE d = c
    BY <2>1, <1>0, Types DEF Working, Holding, Named, WorksOn, HoldsId, HeldName, Busy
  <2>2. CASE d # c
    BY <2>2, <1>0, Types DEF Working, Holding, Named, WorksOn, HoldsId, HeldName, Busy
  <2> QED BY <2>1, <2>2
<1>3. Named'
  <2> SUFFICES ASSUME NEW m \in Names, streams'[m] # 0 PROVE HeldName(m)'
    BY DEF Named, HeldName
  <2>1. /\ streams'[m] = streams[m] /\ HeldName(m) /\ streams[m] \in DOMAIN media
        /\ media[streams[m]].owner \in Streams /\ Owner[media[streams[m]].owner] \in Conns
        /\ media'[streams[m]].name = media[streams[m]].name
        /\ media'[streams[m]].owner = media[streams[m]].owner
    BY <1>0, Types DEF Named
  <2> QED BY <1>0, <1>t, <2>1 DEF HeldName
<1>4. Mapped'
  <2> SUFFICES ASSUME NEW i \in DOMAIN media' PROVE InMap(i)'
    BY DEF Mapped
  <2> QED BY <1>0, Types DEF Mapped, InMap
<1>5. Once'
  <2> SUFFICES ASSUME NEW t \in Streams PROVE UsedOnce(t)'
    BY DEF Once
  <2> QED BY <1>0, Types DEF Once, UsedOnce
<1>6. Played'
  <2> SUFFICES ASSUME NEW t \in Streams PROVE HeldPlayer(t)'
    BY DEF Played
  <2> QED BY <1>0, Types DEF Played, Working, Holding, Once, HeldPlayer, WorksOn, HoldsId, UsedOnce, Busy
<1>7. Followed'
  <2> SUFFICES ASSUME NEW i \in DOMAIN mps', mps'[i].open PROVE OpenInMap(i)'
    BY DEF Followed, OpenInMap
  <2>1. arg[c].s \in Streams
    BY <1>0 DEF Working, WorksOn, Busy
  <2>2. CASE i = Len(mps) + 1
    BY <2>1, <2>2, <1>0, <1>t DEF OpenInMap
  <2>3. CASE i # Len(mps) + 1
    <3>1. i \in DOMAIN mps /\ i # 0
      BY <2>3, <1>0, Types
    <3>2. OpenInMap(i) /\ mps'[i] = mps[i] /\ mps[i].stream \in Streams
      BY <3>1, <1>0, Types DEF Followed
    <3> QED BY <1>0, <1>t, <3>1, <3>2 DEF OpenInMap
  <2> QED BY <2>2, <2>3
<1>8. SourceIsOwn'
  BY <1>0, Types DEF SourceIsOwn
<1>9. ClosedByOwner'
  BY <1>0, Types DEF ClosedByOwner
<1>10. TypeOK'
  <2>1. at' \in [Conns -> Labels] /\ net' \in [Conns -> {"up", "down"}]
    BY <1>0, Types DEF PutPlayer, TypeOK, Labels
  <2>2. arg' \in [Conns -> Arg]
    <3>1. arg \in [Conns -> Arg] /\ c \in Conns /\ arg[c] \in Arg
      BY <1>0, Ranges
    <3>2. [arg[c] EXCEPT !.id = Len(mps) + 1] \in Arg
      <4>1. Len(mps) + 1 \in Nat
        BY <1>t
      <4> QED BY <3>1, <4>1 DEF Arg
    <3>3. arg' = [arg EXCEPT ![c] = [arg[c] EXCEPT !.id = Len(mps) + 1]]
      BY <1>0
    <3> QED BY <3>1, <3>2, <3>3
  <2>3. /\ streams' \in [Names -> 0..Len(media')] /\ src' \in [Streams -> 0..Len(media')]
         /\ players' \in [Streams -> 0..Len(mps')]
    <3>1. players' = [players EXCEPT ![arg[c].s] = Len(mps) + 1] /\ Len(mps') = Len(mps) + 1
          /\ UNCHANGED <<streams, src, media>>
      BY <1>0
    <3>2. Len(mps) + 1 \in 0..(Len(mps) + 1) /\ 0..Len(mps) \subseteq 0..(Len(mps) + 1)
      BY <1>t
    <3> QED BY <3>1, <3>2, Ranges
  <2>4. st' \in [Streams -> Object]
    BY <1>0, Types DEF PutPlayer, TypeOK, Object
  <2>5. media' \in Seq(Media) /\ mps' \in Seq(Player)
    BY <1>0, Types DEF PutPlayer, TypeOK
  <2> QED BY <2>1, <2>2, <2>3, <2>4, <2>5 DEF TypeOK, Ids, Media, Player, Object, Arg
<1> QED BY <1>10, <1>1, <1>2, <1>3, <1>4, <1>5, <1>6, <1>7, <1>8, <1>9

\* The stream object takes over the player.
LEMMA PlayStartsKeeps ==
  ASSUME SingleUse, TypeOK, RegistryInv, connections' \in Nat, NEW c \in Conns,
         PlayStarts(c)
  PROVE  TypeOK' /\ RegistryInv'
<1> USE DEF RegistryInv
<1>t. /\ DOMAIN at = Conns /\ DOMAIN arg = Conns /\ DOMAIN st = Streams
      /\ DOMAIN streams = Names /\ DOMAIN players = Streams
      /\ Len(media) \in Nat /\ Len(mps) \in Nat
      /\ \A x \in Streams : Owner[x] \in Conns
  BY Types
<1>0. /\ at[c] = "playing" /\ at' = [at EXCEPT ![c] = "reading"]
      /\ st' = [st EXCEPT ![arg[c].s].name = arg[c].n, ![arg[c].s].playing = TRUE]
      /\ mps' \in Seq(Player) /\ DOMAIN mps' = DOMAIN mps /\ Len(mps') = Len(mps)
      /\ \A j \in DOMAIN mps : mps'[j].stream = mps[j].stream /\ mps'[j].open = mps[j].open
      /\ UNCHANGED <<arg, streams, players, src, media>>
  BY Types, Started DEF PlayStarts, Holding, HoldsId
<1>u. /\ UNCHANGED <<arg, streams, media, players>> /\ at[c] = "playing" /\ at'[c] = "reading"
      /\ \A d \in Conns : d # c => at'[d] = at[d]
      /\ \A t \in Streams : t # arg[c].s => st'[t] = st[t]
  BY <1>0, <1>t
<1>v. LET s == arg[c].s IN
        /\ s \in Streams /\ Owner[s] = c /\ arg[c].n \in Names /\ players[s] # 0
        /\ st[s].live /\ st[s].used /\ ~st[s].publishing /\ ~st[s].playing
  BY <1>u, Types DEF Working, WorksOn, Holding, HoldsId, Busy
<1>w. LET s == arg[c].s IN
        /\ st'[s].name = arg[c].n /\ st'[s].playing /\ st'[s].publishing = st[s].publishing
        /\ st'[s].live = st[s].live /\ st'[s].made = st[s].made /\ st'[s].used = st[s].used
  <2>1. PICK s, n : s = arg[c].s /\ n = arg[c].n
    OBVIOUS
  <2>2. s \in Streams /\ st \in [Streams -> Object] /\ st[s] \in Object
    BY <1>v, <2>1, Ranges
  <2>3. st' = [st EXCEPT ![s].name = n, ![s].playing = TRUE]
    BY <1>0, <2>1
  <2> QED BY <2>1, <2>2, <2>3 DEF Object
<1>1. Working'
  <2> SUFFICES ASSUME NEW d \in Conns PROVE WorksOn(d)'
    BY DEF Working
  <2>1. /\ WorksOn(c) /\ WorksOn(d) /\ at[c] \in Busy /\ arg[c].s \in Streams /\ Owner[arg[c].s] = c
    BY <1>0 DEF Working, WorksOn, Busy
  <2>2. CASE d = c
    BY <2>1, <2>2, <1>0, <1>t DEF WorksOn, Busy
  <2>3. CASE d # c
    <3>1. at'[d] = at[d] /\ (at[d] \in Busy => arg[d].s # arg[c].s /\ st'[arg[d].s] = st[arg[d].s])
      BY <2>1, <2>3, <1>0, <1>t DEF WorksOn
    <3> QED BY <2>1, <3>1, <1>0 DEF WorksOn
  <2> QED BY <2>2, <2>3
<1>2. Holding'
  <2> SUFFICES ASSUME NEW d \in Conns PROVE HoldsId(d)'
    BY DEF Holding
  <2>1. CASE d = c
    BY <2>1, <1>0, Types DEF Holding, HoldsId
  <2>2. CASE d # c
    BY <2>2, <1>0, Types DEF Holding, HoldsId
  <2> QED BY <2>1, <2>2
<1>3. Named'
  <2> SUFFICES ASSUME NEW m \in Names PROVE HeldName(m)'
    BY DEF Named
  <2>1. CASE streams[m] = 0
    BY <2>1, <1>u DEF HeldName
  <2>0. /\ HeldName(m)
        /\ streams[m] # 0 => /\ media[streams[m]].owner \in Streams /\ Owner[media[streams[m]].owner] \in Conns
    BY Holder
  <2>2. CASE streams[m] # 0 /\ media[streams[m]].owner = arg[c].s
    BY <2>0, <2>2, <1>u, <1>v DEF HeldName
  <2>3. CASE streams[m] # 0 /\ media[streams[m]].owner # arg[c].s
    BY <2>0, <2>3, <1>u DEF HeldName
  <2> QED BY <2>1, <2>2, <2>3
<1>4. Mapped'
  <2> SUFFICES ASSUME NEW i \in DOMAIN media' PROVE InMap(i)'
    BY DEF Mapped
  <2> QED BY <1>0, Types DEF Mapped, InMap
<1>5. Once'
  <2> SUFFICES ASSUME NEW t \in Streams PROVE UsedOnce(t)'
    BY DEF Once
  <2>1. UsedOnce(t) /\ Owner[t] \in Conns
    BY <1>t DEF Once
  <2>2. CASE t = arg[c].s
    BY <2>1, <2>2, <1>u, <1>v, <1>w DEF UsedOnce
  <2>3. CASE t # arg[c].s
    <3>1. at'[Owner[t]] \in {"none", "handshake", "gone"} => at[Owner[t]] \in {"none", "handshake", "gone"}
      BY <1>u, <2>1
    <3> QED BY <2>1, <2>3, <3>1, <1>u DEF UsedOnce
  <2> QED BY <2>2, <2>3
<1>6. Played'
  <2> SUFFICES ASSUME NEW t \in Streams, players'[t] # 0 PROVE HeldPlayer(t)'
    BY DEF Played, HeldPlayer
  <2>1. HeldPlayer(t) /\ Owner[t] \in Conns /\ (players[t] # 0 => players[t] \in DOMAIN mps)
    BY <1>t, Types DEF Played
  <2>2. arg[c].s \in Streams /\ Owner[arg[c].s] = c /\ st[arg[c].s].live
    BY <1>0 DEF Working, WorksOn, Busy
  <2> QED BY <1>0, <1>t, <2>1, <2>2 DEF HeldPlayer
<1>7. Followed'
  <2> SUFFICES ASSUME NEW i \in DOMAIN mps' PROVE OpenInMap(i)'
    BY DEF Followed
  <2> QED BY <1>0, Types DEF Followed, OpenInMap
<1>8. SourceIsOwn'
  BY <1>0, Types DEF SourceIsOwn
<1>9. ClosedByOwner'
  BY <1>0, Types DEF ClosedByOwner
<1>10. TypeOK'
  <2>1. at' \in [Conns -> Labels] /\ net' \in [Conns -> {"up", "down"}]
    BY <1>0, Types DEF PlayStarts, TypeOK, Labels
  <2>2. arg' \in [Conns -> Arg]
    BY <1>0, Types DEF PlayStarts, TypeOK, Arg
  <2>3. /\ streams' \in [Names -> 0..Len(media')] /\ src' \in [Streams -> 0..Len(media')]
         /\ players' \in [Streams -> 0..Len(mps')]
    BY <1>0, Ranges
  <2>4. st' \in [Streams -> Object]
    <3>1. st \in [Streams -> Object] /\ arg[c].s \in Streams /\ st[arg[c].s] \in Object /\ arg[c].n \in Names
      BY <1>0, Ranges DEF Working, WorksOn, Holding, HoldsId, Busy
    <3>2. [st[arg[c].s] EXCEPT !.name = arg[c].n, !.playing = TRUE] \in Object
      BY <3>1, Ranges DEF Object
    <3>3. st' = [st EXCEPT ![arg[c].s] = [st[arg[c].s] EXCEPT !.name = arg[c].n, !.playing = TRUE]]
      BY <1>0
    <3> QED BY <3>1, <3>2, <3>3
  <2>5. media' \in Seq(Media) /\ mps' \in Seq(Player)
    BY <1>0, Types DEF PlayStarts, TypeOK
  <2> QED BY <2>1, <2>2, <2>3, <2>4, <2>5 DEF TypeOK, Ids, Media, Player, Object, Arg
<1> QED BY <1>10, <1>1, <1>2, <1>3, <1>4, <1>5, <1>6, <1>7, <1>8, <1>9

\* The player leaves the map and is closed.
LEMMA PlayFailsKeeps ==
  ASSUME SingleUse, TypeOK, RegistryInv, connections' \in Nat, NEW c \in Conns,
         PlayFails(c)
  PROVE  TypeOK' /\ RegistryInv'
<1> USE DEF RegistryInv
<1>t. /\ DOMAIN at = Conns /\ DOMAIN arg = Conns /\ DOMAIN st = Streams
      /\ DOMAIN streams = Names /\ DOMAIN players = Streams
      /\ Len(media) \in Nat /\ Len(mps) \in Nat
      /\ \A x \in Streams : Owner[x] \in Conns
  BY Types
<1>0. /\ at[c] = "playing" /\ at' = [at EXCEPT ![c] = "reading"]
      /\ players' = [players EXCEPT ![arg[c].s] = 0]
      /\ mps' \in Seq(Player) /\ DOMAIN mps' = DOMAIN mps /\ Len(mps') = Len(mps)
      /\ \A j \in DOMAIN mps : /\ mps'[j].stream = mps[j].stream
                               /\ j = arg[c].id => ~mps'[j].open
                               /\ j # arg[c].id => mps'[j].open = mps[j].open
      /\ UNCHANGED <<arg, streams, st, src, media>>
  BY Types, Ended DEF PlayFails, Holding, HoldsId
<1>1. Working'
  <2> SUFFICES ASSUME NEW d \in Conns PROVE WorksOn(d)'
    BY DEF Working
  <2>1. CASE d = c
    BY <2>1, <1>0, Types DEF Working, WorksOn, Busy
  <2>2. CASE d # c
    BY <2>2, <1>0, Types DEF Working, WorksOn, Busy
  <2> QED BY <2>1, <2>2
<1>2. Holding'
  <2> SUFFICES ASSUME NEW d \in Conns PROVE HoldsId(d)'
    BY DEF Holding
  <2>1. HoldsId(d) /\ WorksOn(c) /\ WorksOn(d)
    BY DEF Holding, Working
  <2>2. CASE d = c
    BY <2>1, <2>2, <1>0, <1>t DEF HoldsId
  <2>3. CASE d # c
    <3>1. at'[d] = at[d] /\ (at[d] \in Busy => arg[d].s \in Streams /\ arg[d].s # arg[c].s)
      BY <2>1, <2>3, <1>0, <1>t DEF WorksOn, Busy
    <3> QED BY <2>1, <3>1, <1>0, <1>t DEF HoldsId, Busy
  <2> QED BY <2>2, <2>3
<1>3. Named'
  <2> SUFFICES ASSUME NEW m \in Names PROVE HeldName(m)'
    BY DEF Named
  <2> QED BY <1>0, Types DEF Named, HeldName
<1>4. Mapped'
  <2> SUFFICES ASSUME NEW i \in DOMAIN media' PROVE InMap(i)'
    BY DEF Mapped
  <2> QED BY <1>0, Types DEF Mapped, InMap
<1>5. Once'
  <2> SUFFICES ASSUME NEW t \in Streams PROVE UsedOnce(t)'
    BY DEF Once
  <2> QED BY <1>0, Types DEF Once, Working, Holding, Named, UsedOnce, WorksOn, HoldsId, HeldName, Busy
<1>6. Played'
  <2> SUFFICES ASSUME NEW t \in Streams, players'[t] # 0 PROVE HeldPlayer(t)'
    BY DEF Played, HeldPlayer
  <2>1. HeldPlayer(t) /\ Owner[t] \in Conns /\ (players[t] # 0 => players[t] \in DOMAIN mps)
    BY <1>t, Types DEF Played
  <2>2. arg[c].s \in Streams /\ Owner[arg[c].s] = c
    BY <1>0 DEF Working, WorksOn, Busy
  <2> QED BY <1>0, <1>t, <2>1, <2>2 DEF HeldPlayer
<1>7. Followed'
  <2> SUFFICES ASSUME NEW i \in DOMAIN mps', mps'[i].open PROVE OpenInMap(i)'
    BY DEF Followed, OpenInMap
  <2>1. /\ i \in DOMAIN mps /\ i # 0 /\ OpenInMap(i) /\ mps[i].open
        /\ mps[i].stream \in Streams /\ mps'[i].stream = mps[i].stream
    BY <1>0, Types DEF Followed
  <2>2. players[arg[c].s] = arg[c].id
    BY <1>0 DEF Holding, HoldsId
  <2> QED BY <1>0, <1>t, <2>1, <2>2 DEF OpenInMap
<1>8. SourceIsOwn'
  BY <1>0, Types DEF SourceIsOwn
<1>9. ClosedByOwner'
  BY <1>0, Types DEF ClosedByOwner
<1>10. TypeOK'
  <2>1. at' \in [Conns -> Labels] /\ net' \in [Conns -> {"up", "down"}]
    BY <1>0, Types DEF PlayFails, TypeOK, Labels
  <2>2. arg' \in [Conns -> Arg]
    BY <1>0, Types DEF PlayFails, TypeOK, Arg
  <2>3. /\ streams' \in [Names -> 0..Len(media')] /\ src' \in [Streams -> 0..Len(media')]
         /\ players' \in [Streams -> 0..Len(mps')]
    <3>1. players' = [players EXCEPT ![arg[c].s] = 0] /\ Len(mps') = Len(mps) /\ UNCHANGED <<streams, src, media>>
      BY <1>0
    <3>2. 0 \in 0..Len(media) /\ 0 \in 0..Len(mps)
      BY <1>t
    <3> QED BY <3>1, <3>2, Ranges
  <2>4. st' \in [Streams -> Object]
    BY <1>0, Types DEF PlayFails, TypeOK, Object
  <2>5. media' \in Seq(Media) /\ mps' \in Seq(Player)
    BY <1>0, Types DEF PlayFails, TypeOK
  <2> QED BY <2>1, <2>2, <2>3, <2>4, <2>5 DEF TypeOK, Ids, Media, Player, Object, Arg
<1> QED BY <1>10, <1>1, <1>2, <1>3, <1>4, <1>5, <1>6, <1>7, <1>8, <1>9

\* The stream object hands what it registered over to the handler.
LEMMA DestroyKeeps ==
  ASSUME SingleUse, TypeOK, RegistryInv, connections' \in Nat, NEW s \in Streams,
         Destroy(s)
  PROVE  TypeOK' /\ RegistryInv'
<1> USE DEF RegistryInv
<1>t. /\ DOMAIN at = Conns /\ DOMAIN arg = Conns /\ DOMAIN st = Streams
      /\ DOMAIN streams = Names /\ DOMAIN players = Streams
      /\ Len(media) \in Nat /\ Len(mps) \in Nat
      /\ \A x \in Streams : Owner[x] \in Conns
  BY Types
<1>0. /\ at[Owner[s]] \in {"reading", "closing"} /\ at' = [at EXCEPT ![Owner[s]] = "destroy"]
      /\ st[s].live /\ st' = [st EXCEPT ![s].live = FALSE]
      /\ \E id \in Nat, back \in {"reading", "closing"} :
           /\ arg' = [arg EXCEPT ![Owner[s]] = [s |-> s, n |-> st[s].name, id |-> id, back |-> back]]
           /\ id = IF st[s].publishing THEN streams[st[s].name] ELSE 0
      /\ UNCHANGED <<streams, players, src, media, mps>>
  BY Types DEF Destroy, Once, UsedOnce
<1>1. Working'
  <2> SUFFICES ASSUME NEW d \in Conns PROVE WorksOn(d)'
    BY DEF Working
  <2>1. CASE d = Owner[s]
    BY <2>1, <1>0, Types DEF Working, WorksOn, Busy
  <2>2. CASE d # Owner[s]
    BY <2>2, <1>0, Types DEF Working, WorksOn, Busy
  <2> QED BY <2>1, <2>2
<1>2. Holding'
  <2> SUFFICES ASSUME NEW d \in Conns PROVE HoldsId(d)'
    BY DEF Holding
  <2>1. HoldsId(d) /\ UsedOnce(s)
    BY DEF Holding, Once
  <2>2. CASE d = Owner[s]
    BY <2>1, <2>2, <1>0, <1>t DEF HoldsId, UsedOnce
  <2>3. CASE d # Owner[s]
    BY <2>1, <2>3, <1>0, <1>t DEF HoldsId
  <2> QED BY <2>2, <2>3
<1>3. Named'
  <2> SUFFICES ASSUME NEW m \in Names, streams'[m] # 0 PROVE HeldName(m)'
    BY DEF Named, HeldName
  <2>1. /\ streams'[m] = streams[m] /\ HeldName(m) /\ streams[m] \in DOMAIN media
        /\ media[streams[m]].owner \in Streams /\ Owner[media[streams[m]].owner] \in Conns
        /\ media'[streams[m]].name = media[streams[m]].name
        /\ media'[streams[m]].owner = media[streams[m]].owner
    BY <1>0, Types DEF Named
  <2> QED BY <1>0, <1>t, <2>1 DEF HeldName
<1>4. Mapped'
  <2> SUFFICES ASSUME NEW i \in DOMAIN media' PROVE InMap(i)'
    BY DEF Mapped
  <2> QED BY <1>0, Types DEF Mapped, InMap
<1>5. Once'
  <2> SUFFICES ASSUME NEW t \in Streams PROVE UsedOnce(t)'
    BY DEF Once
  <2> QED BY <1>0, Types DEF Once, UsedOnce
<1>6. Played'
  <2> SUFFICES ASSUME NEW t \in Streams PROVE HeldPlayer(t)'
    BY DEF Played
  <2> QED BY <1>0, Types DEF Played, HeldPlayer
<1>7. Followed'
  <2> SUFFICES ASSUME NEW i \in DOMAIN mps' PROVE OpenInMap(i)'
    BY DEF Followed
  <2> QED BY <1>0, Types DEF Followed, OpenInMap
<1>8. SourceIsOwn'
  BY <1>0, Types DEF SourceIsOwn
<1>9. ClosedByOwner'
  BY <1>0, Types DEF ClosedByOwner
<1>10. TypeOK'
  <2>1. at' \in [Conns -> Labels] /\ net' \in [Conns -> {"up", "down"}]
    BY <1>0, Types, SMTT(30) DEF Destroy, TypeOK, Labels
  <2>2. arg' \in [Conns -> Arg]
    BY <1>0, Types DEF Destroy, TypeOK, Once, UsedOnce, NoArg, Arg
  <2>3. /\ streams' \in [Names -> 0..Len(media')] /\ src' \in [Streams -> 0..Len(media')]
         /\ players' \in [Streams -> 0..Len(mps')]
    BY <1>0, Ranges
  <2>4. st' \in [Streams -> Object]
    <3>1. st \in [Streams -> Object] /\ s \in Streams /\ st[s] \in Object
      BY <1>0, Ranges
    <3>2. [st[s] EXCEPT !.live = FALSE] \in Object
      BY <3>1, Ranges DEF Object
    <3>3. st' = [st EXCEPT ![s] = [st[s] EXCEPT !.live = FALSE]]
      BY <1>0
    <3> QED BY <3>1, <3>2, <3>3
  <2>5. media' \in Seq(Media) /\ mps' \in Seq(Player)
    <3>1. media' = media /\ mps' = mps
      BY <1>0
    <3> QED BY <3>1, Types
  <2> QED BY <2>1, <2>2, <2>3, <2>4, <2>5 DEF TypeOK, Ids, Media, Player, Object, Arg
<1> QED BY <1>10, <1>1, <1>2, <1>3, <1>4, <1>5, <1>6, <1>7, <1>8, <1>9

\* The stream is closed while its name is still taken.
LEMMA DestroyCloseKeeps ==
  ASSUME SingleUse, TypeOK, RegistryInv, connections' \in Nat, NEW c \in Conns,
         DestroyClose(c)
  PROVE  TypeOK' /\ RegistryInv'
<1> USE DEF RegistryInv
<1>t. /\ DOMAIN at = Conns /\ DOMAIN arg = Conns /\ DOMAIN st = Streams
      /\ DOMAIN streams = Names /\ DOMAIN players = Streams
      /\ Len(media) \in Nat /\ Len(mps) \in Nat
      /\ \A x \in Streams : Owner[x] \in Conns
  BY Types
<1>0. /\ at[c] = "destroy" /\ at' = [at EXCEPT ![c] = "delStream"]
      /\ arg[c].id # 0
      /\ media' \in Seq(Media) /\ Len(media') = Len(media)
      /\ arg[c].id \in DOMAIN media /\ DOMAIN media' = DOMAIN media /\ media[arg[c].id].owner = arg[c].s
      /\ \A j \in DOMAIN media :
           /\ media'[j].name = media[j].name /\ media'[j].owner = media[j].owner
           /\ j = arg[c].id => ~media'[j].open
           /\ j # arg[c].id => media'[j].open = media[j].open
           /\ media'[j].closedBy = media[j].closedBy \/ (j = arg[c].id /\ media'[j].closedBy = c)
      /\ UNCHANGED <<arg, streams, players, st, src, mps>>
  <2>1. arg[c].id \in DOMAIN media /\ media[arg[c].id].owner = arg[c].s
    BY Types DEF DestroyClose, Holding, HoldsId
  <2> QED BY <2>1, Types, Closed DEF DestroyClose
<1>1. Working'
  <2> SUFFICES ASSUME NEW d \in Conns PROVE WorksOn(d)'
    BY DEF Working
  <2>1. CASE d = c
    BY <2>1, <1>0, Types DEF Working, WorksOn, Busy
  <2>2. CASE d # c
    BY <2>2, <1>0, Types DEF Working, WorksOn, Busy
  <2> QED BY <2>1, <2>2
<1>2. Holding'
  <2> SUFFICES ASSUME NEW d \in Conns PROVE HoldsId(d)'
    BY DEF Holding
  <2>1. CASE d = c
    BY <2>1, <1>0, Types DEF Holding, HoldsId
  <2>2. CASE d # c
    BY <2>2, <1>0, Types DEF Holding, HoldsId
  <2> QED BY <2>1, <2>2
<1>3. Named'
  <2> SUFFICES ASSUME NEW m \in Names, streams'[m] # 0 PROVE HeldName(m)'
    BY DEF Named, HeldName
  <2>1. /\ streams'[m] = streams[m] /\ HeldName(m) /\ streams[m] \in DOMAIN media
        /\ media[streams[m]].owner \in Streams /\ Owner[media[streams[m]].owner] \in Conns
        /\ media'[streams[m]].name = media[streams[m]].name
        /\ media'[streams[m]].owner = media[streams[m]].owner
    BY <1>0, Types DEF Named
  <2>2. /\ arg[c].s \in Streams /\ Owner[arg[c].s] = c
    BY <1>0 DEF Working, WorksOn, Busy
  <2> QED BY <1>0, <1>t, <2>1, <2>2 DEF HeldName
<1>4. Mapped'
  <2> SUFFICES ASSUME NEW i \in DOMAIN media', media'[i].open PROVE InMap(i)'
    BY DEF Mapped, InMap
  <2>1. /\ i \in DOMAIN media /\ InMap(i) /\ media[i].open
        /\ media[i].owner \in Streams /\ Owner[media[i].owner] \in Conns /\ media[i].name \in Names
        /\ media'[i].name = media[i].name /\ media'[i].owner = media[i].owner
    BY <1>0, Types DEF Mapped
  <2> QED BY <1>0, <1>t, <2>1 DEF InMap
<1>5. Once'
  <2> SUFFICES ASSUME NEW t \in Streams PROVE UsedOnce(t)'
    BY DEF Once
  <2>1. UsedOnce(t) /\ Owner[t] \in Conns
    BY <1>t DEF Once
  <2>2. st[t].live /\ st[t].publishing =>
          media'[streams[st[t].name]].owner = media[streams[st[t].name]].owner
    BY <1>0, <2>1, Types DEF UsedOnce
  <2> QED BY <1>0, <1>t, <2>1, <2>2 DEF UsedOnce
<1>6. Played'
  <2> SUFFICES ASSUME NEW t \in Streams PROVE HeldPlayer(t)'
    BY DEF Played
  <2> QED BY <1>0, Types DEF Played, HeldPlayer
<1>7. Followed'
  <2> SUFFICES ASSUME NEW i \in DOMAIN mps' PROVE OpenInMap(i)'
    BY DEF Followed
  <2> QED BY <1>0, Types DEF Followed, OpenInMap
<1>8. SourceIsOwn'
  BY <1>0, Types DEF SourceIsOwn
<1>9. ClosedByOwner'
  <2>1. Owner[media[arg[c].id].owner] = c
    BY <1>0 DEF Working, WorksOn, Busy
  <2> QED BY <1>0, <2>1 DEF ClosedByOwner
<1>10. TypeOK'
  <2>1. at' \in [Conns -> Labels] /\ net' \in [Conns -> {"up", "down"}]
    BY <1>0, Types DEF DestroyClose, TypeOK, Labels
  <2>2. arg' \in [Conns -> Arg]
    BY <1>0, Types DEF DestroyClose, TypeOK, Arg
  <2>3. /\ streams' \in [Names -> 0..Len(media')] /\ src' \in [Streams -> 0..Len(media')]
         /\ players' \in [Streams -> 0..Len(mps')]
    BY <1>0, Ranges
  <2>4. st' \in [Streams -> Object]
    BY <1>0, Types DEF DestroyClose, TypeOK, Object
  <2>5. media' \in Seq(Media) /\ mps' \in Seq(Player)
    BY <1>0, Types DEF DestroyClose, TypeOK
  <2> QED BY <2>1, <2>2, <2>3, <2>4, <2>5 DEF TypeOK, Ids, Media, Player, Object, Arg
<1> QED BY <1>10, <1>1, <1>2, <1>3, <1>4, <1>5, <1>6, <1>7, <1>8, <1>9

\* The name that is freed is that of the closed stream.
LEMMA DestroyDeleteKeeps ==
  ASSUME SingleUse, TypeOK, RegistryInv, connections' \in Nat, NEW c \in Conns,
         DestroyDelete(c)
  PROVE  TypeOK' /\ RegistryInv'
<1> USE DEF RegistryInv
<1>t. /\ DOMAIN at = Conns /\ DOMAIN arg = Conns /\ DOMAIN st = Streams
      /\ DOMAIN streams = Names /\ DOMAIN players = Streams
      /\ Len(media) \in Nat /\ Len(mps) \in Nat
      /\ \A x \in Streams : Owner[x] \in Conns
  BY Types
<1>0. /\ at[c] = "delStream" /\ at' = [at EXCEPT ![c] = "destroy"]
      /\ arg' = [arg EXCEPT ![c].id = 0]
      /\ streams' = [streams EXCEPT ![arg[c].n] = 0]
      /\ UNCHANGED <<players, st, src, media, mps>>
  BY DEF DestroyDelete, DelStream
<1>1. Working'
  <2> SUFFICES ASSUME NEW d \in Conns PROVE WorksOn(d)'
    BY DEF Working
  <2>1. CASE d = c
    BY <2>1, <1>0, Types DEF Working, WorksOn, Busy
  <2>2. CASE d # c
    BY <2>2, <1>0, Types DEF Working, WorksOn, Busy
  <2> QED BY <2>1, <2>2
<1>2. Holding'
  <2> SUFFICES ASSUME NEW d \in Conns PROVE HoldsId(d)'
    BY DEF Holding
  <2>1. HoldsId(c) /\ HoldsId(d) /\ WorksOn(c) /\ WorksOn(d) /\ arg[c].n \in Names
    BY <1>0 DEF Holding, Working, HoldsId
  <2>2. CASE d = c
    BY <2>1, <2>2, <1>0, <1>t DEF HoldsId
  <2>3. CASE d # c
    <3>1. at'[d] = at[d] /\ arg'[d] = arg[d]
      BY <2>3, <1>0, <1>t
    <3>2. at[d] \in {"publish", "destroy", "delStream"} /\ arg[d].id # 0 => arg[d].n # arg[c].n
      BY <2>1, <2>3, <1>0 DEF HoldsId, WorksOn, Busy
    <3>3. at[d] = "unpublish" => arg[d].id # 0
      BY <2>1, Types DEF HoldsId
    <3> QED BY <2>1, <3>1, <3>2, <3>3, <1>0, <1>t DEF HoldsId
  <2> QED BY <2>2, <2>3
<1>3. Named'
  <2> SUFFICES ASSUME NEW m \in Names PROVE HeldName(m)'
    BY DEF Named
  <2>1. arg[c].n \in Names /\ arg[c].id # 0 /\ streams[arg[c].n] = arg[c].id
    BY <1>0 DEF Holding, HoldsId
  <2>2. /\ UNCHANGED <<st, media>> /\ (\A d \in Conns : d # c => at'[d] = at[d] /\ arg'[d] = arg[d])
        /\ streams'[arg[c].n] = 0 /\ (m # arg[c].n => streams'[m] = streams[m])
    BY <1>0, <1>t, <2>1
  <2>3. CASE m = arg[c].n
    BY <2>2, <2>3 DEF HeldName
  <2>4. CASE m # arg[c].n /\ streams[m] # 0
    <3>1. media[streams[m]].name = m
      BY <2>4, Holder DEF HeldName
    <3>2. streams[m] # arg[c].id
      BY <2>1, <2>4, <3>1, Holder DEF HeldName
    <3> QED BY <2>1, <2>2, <2>4, <3>2, Holder DEF HeldName
  <2>5. CASE m # arg[c].n /\ streams[m] = 0
    BY <2>2, <2>5 DEF HeldName
  <2> QED BY <2>3, <2>4, <2>5
<1>4. Mapped'
  <2> SUFFICES ASSUME NEW i \in DOMAIN media', media'[i].open PROVE InMap(i)'
    BY DEF Mapped, InMap
  <2>1. /\ i \in DOMAIN media /\ InMap(i) /\ media[i].open
        /\ media[i].owner \in Streams /\ Owner[media[i].owner] \in Conns /\ media[i].name \in Names
        /\ media'[i].name = media[i].name /\ media'[i].owner = media[i].owner
    BY <1>0, Types DEF Mapped
  <2>2. arg[c].id = streams[arg[c].n] /\ ~media[arg[c].id].open
    BY <1>0 DEF Holding, HoldsId
  <2> QED BY <1>0, <1>t, <2>1, <2>2 DEF InMap
<1>5. Once'
  <2> SUFFICES ASSUME NEW t \in Streams PROVE UsedOnce(t)'
    BY DEF Once
  <2> QED BY <1>0, Types DEF Once, Working, Holding, Named, UsedOnce, WorksOn, HoldsId, HeldName, Busy
<1>6. Played'
  <2> SUFFICES ASSUME NEW t \in Streams PROVE HeldPlayer(t)'
    BY DEF Played
  <2> QED BY <1>0, Types DEF Played, HeldPlayer
<1>7. Followed'
  <2> SUFFICES ASSUME NEW i \in DOMAIN mps' PROVE OpenInMap(i)'
    BY DEF Followed
  <2> QED BY <1>0, Types DEF Followed, OpenInMap
<1>8. SourceIsOwn'
  BY <1>0, Types DEF SourceIsOwn
<1>9. ClosedByOwner'
  BY <1>0, Types DEF ClosedByOwner
<1>10. TypeOK'
  <2>1. at' \in [Conns -> Labels] /\ net' \in [Conns -> {"up", "down"}]
    BY <1>0, Types DEF DestroyDelete, TypeOK, Labels
  <2>2. arg' \in [Conns -> Arg]
    <3>1. arg \in [Conns -> Arg] /\ c \in Conns /\ arg[c] \in Arg
      BY <1>0, Ranges
    <3>2. [arg[c] EXCEPT !.id = 0] \in Arg
      BY <3>1, Ranges DEF Arg
    <3>3. arg' = [arg EXCEPT ![c] = [arg[c] EXCEPT !.id = 0]]
      BY <1>0
    <3> QED BY <3>1, <3>2, <3>3
  <2>3. /\ streams' \in [Names -> 0..Len(media')] /\ src' \in [Streams -> 0..Len(media')]
         /\ players' \in [Streams -> 0..Len(mps')]
    <3>1. streams' = [streams EXCEPT ![arg[c].n] = 0] /\ UNCHANGED <<src, players, media, mps>>
      BY <1>0
    <3>2. 0 \in 0..Len(media) /\ 0 \in 0..Len(mps)
      BY <1>t
    <3> QED BY <3>1, <3>2, Ranges
  <2>4. st' \in [Streams -> Object]
    BY <1>0, Types DEF DestroyDelete, TypeOK, Object
  <2>5. media' \in Seq(Media) /\ mps' \in Seq(Player)
    BY <1>0, Types DEF DestroyDelete, TypeOK
  <2> QED BY <2>1, <2>2, <2>3, <2>4, <2>5 DEF TypeOK, Ids, Media, Player, Object, Arg
<1> QED BY <1>10, <1>1, <1>2, <1>3, <1>4, <1>5, <1>6, <1>7, <1>8, <1>9

\* The player of the stream object leaves the map and is closed.
LEMMA DestroyPlayerKeeps ==
  ASSUME SingleUse, TypeOK, RegistryInv, connections' \in Nat, NEW c \in Conns,
         DestroyPlayer(c)
  PROVE  TypeOK' /\ RegistryInv'
<1> USE DEF RegistryInv
<1>t. /\ DOMAIN at = Conns /\ DOMAIN arg = Conns /\ DOMAIN st = Streams
      /\ DOMAIN streams = Names /\ DOMAIN players = Streams
      /\ Len(media) \in Nat /\ Len(mps) \in Nat
      /\ \A x \in Streams : Owner[x] \in Conns
  BY Types
<1>0. /\ mps' \in Seq(Player) /\ DOMAIN mps' = DOMAIN mps /\ Len(mps') = Len(mps)
      /\ \A j \in DOMAIN mps : /\ mps'[j].stream = mps[j].stream
                               /\ j = players[arg[c].s] => ~mps'[j].open
                               /\ j # players[arg[c].s] => mps'[j].open = mps[j].open
      /\ players' = [players EXCEPT ![arg[c].s] = 0]
      /\ at' = [at EXCEPT ![c] = arg[c].back] /\ arg[c].back \in {"reading", "closing"} /\ at[c] = "destroy" /\ arg[c].id = 0
      /\ UNCHANGED <<arg, streams, st, src, media>>
  <2>0. arg[c].s \in Streams /\ at[c] = "destroy"
    BY Types DEF DestroyPlayer, Working, WorksOn, Busy
  <2>3. players[arg[c].s] # 0 => st[arg[c].s].playing
    BY <2>0, Types DEF Played, HeldPlayer, Working, WorksOn, Busy
  <2>1. CASE players[arg[c].s] # 0
    BY <2>1, <2>0, <2>3, Types, Ended, SMTT(30) DEF DestroyPlayer, TypeOK
  <2>2. CASE players[arg[c].s] = 0
    BY <2>2, <2>0, Types DEF DestroyPlayer, TypeOK
  <2> QED BY <2>1, <2>2
<1>1. Working'
  <2> SUFFICES ASSUME NEW d \in Conns PROVE WorksOn(d)'
    BY DEF Working
  <2>1. CASE d = c
    BY <2>1, <1>0, Types DEF Working, WorksOn, Busy
  <2>2. CASE d # c
    BY <2>2, <1>0, Types DEF Working, WorksOn, Busy
  <2> QED BY <2>1, <2>2
<1>2. Holding'
  <2> SUFFICES ASSUME NEW d \in Conns PROVE HoldsId(d)'
    BY DEF Holding
  <2>1. CASE d = c
    BY <2>1, <1>0, Types DEF Working, Holding, Named, WorksOn, HoldsId, HeldName, Busy
  <2>2. CASE d # c
    <3>1. at'[d] = at[d] /\ arg'[d] = arg[d] /\ streams' = streams /\ DOMAIN mps' = DOMAIN mps /\ media' = media
      BY <2>2, <1>0, Types
    <3>2. at[d] = "playing" => players'[arg[d].s] = players[arg[d].s]
      <4>1. arg[c].s \in Streams /\ Owner[arg[c].s] = c
        BY <1>0 DEF Working, WorksOn, Busy
      <4>2. at[d] = "playing" => Owner[arg[d].s] = d /\ arg[d].s \in Streams
        BY DEF Working, WorksOn, Busy
      <4> QED BY <2>2, <1>0, <4>1, <4>2, Types
    <3>3. HoldsId(d)
      BY DEF Holding
    <3> QED BY <3>1, <3>2, <3>3 DEF HoldsId
  <2> QED BY <2>1, <2>2
<1>3. Named'
  <2> SUFFICES ASSUME NEW m \in Names PROVE HeldName(m)'
    BY DEF Named
  <2> QED BY <1>0, Types DEF Named, HeldName
<1>4. Mapped'
  <2> SUFFICES ASSUME NEW i \in DOMAIN media' PROVE InMap(i)'
    BY DEF Mapped
  <2> QED BY <1>0, Types DEF Mapped, InMap
<1>5. Once'
  <2> SUFFICES ASSUME NEW t \in Streams PROVE UsedOnce(t)'
    BY DEF Once
  <2> QED BY <1>0, Types DEF Once, Working, Holding, Named, UsedOnce, WorksOn, HoldsId, HeldName, Busy
<1>6. Played'
  <2> SUFFICES ASSUME NEW t \in Streams, players'[t] # 0 PROVE HeldPlayer(t)'
    BY DEF Played, HeldPlayer
  <2>1. HeldPlayer(t) /\ Owner[t] \in Conns /\ (players[t] # 0 => players[t] \in DOMAIN mps)
    BY <1>t, Types DEF Played
  <2>2. arg[c].s \in Streams /\ Owner[arg[c].s] = c
    BY <1>0 DEF Working, WorksOn, Busy
  <2> QED BY <1>0, <1>t, <2>1, <2>2 DEF HeldPlayer
<1>7. Followed'
  <2> SUFFICES ASSUME NEW i \in DOMAIN mps', mps'[i].open PROVE OpenInMap(i)'
    BY DEF Followed, OpenInMap
  <2>1. /\ i \in DOMAIN mps /\ i # 0 /\ OpenInMap(i) /\ mps[i].open
        /\ mps[i].stream \in Streams /\ mps'[i].stream = mps[i].stream
    BY <1>0, Types DEF Followed
  <2>2. arg[c].s \in Streams
    BY <1>0 DEF Working, WorksOn, Busy
  <2> QED BY <1>0, <1>t, <2>1, <2>2 DEF OpenInMap
<1>8. SourceIsOwn'
  BY <1>0, Types DEF SourceIsOwn
<1>9. ClosedByOwner'
  BY <1>0, Types DEF ClosedByOwner
<1>10. TypeOK'
  <2>1. at' \in [Conns -> Labels] /\ net' \in [Conns -> {"up", "down"}]
    BY <1>0, Types DEF DestroyPlayer, TypeOK, Labels
  <2>2. arg' \in [Conns -> Arg]
    BY <1>0, Types DEF DestroyPlayer, TypeOK, Arg
  <2>3. /\ streams' \in [Names -> 0..Len(media')] /\ src' \in [Streams -> 0..Len(media')]
         /\ players' \in [Streams -> 0..Len(mps')]
    <3>1. players' = [players EXCEPT ![arg[c].s] = 0] /\ Len(mps') = Len(mps) /\ UNCHANGED <<streams, src, media>>
      BY <1>0
    <3>2. 0 \in 0..Len(media) /\ 0 \in 0..Len(mps)
      BY <1>t
    <3> QED BY <3>1, <3>2, Ranges
  <2>4. st' \in [Streams -> Object]
    BY <1>0, Types DEF DestroyPlayer, TypeOK, Object
  <2>5. media' \in Seq(Media) /\ mps' \in Seq(Player)
    BY <1>0, Types DEF DestroyPlayer, TypeOK
  <2> QED BY <2>1, <2>2, <2>3, <2>4, <2>5 DEF TypeOK, Ids, Media, Player, Object, Arg
<1> QED BY <1>10, <1>1, <1>2, <1>3, <1>4, <1>5, <1>6, <1>7, <1>8, <1>9

----------------------------------------------------------------------------
(* The counter.                                                            *)

Connected == {c \in Conns : at[c] \notin {"none", "gone"}}

\* There are finitely many connections, however many may come, and they are counted.
\* A handler goes back to where it was, so that nobody leaves twice.
CountInv ==
  /\ at \in [Conns -> Labels] /\ DOMAIN arg = Conns
  /\ \A c \in Conns : /\ arg[c] = [s |-> arg[c].s, n |-> arg[c].n, id |-> arg[c].id, back |-> arg[c].back]
                      /\ arg[c].back \in {"reading", "closing"}
  /\ IsFiniteSet(Connected) /\ connections = Cardinality(Connected)

\* A step in which nobody comes or goes.
LEMMA StaysConnected ==
  ASSUME CountInv, NEW c \in Conns, UNCHANGED connections,
         at' = at \/ (at[c] \notin {"none", "gone"} /\ \E l \in Labels \ {"none", "gone"} : at' = [at EXCEPT ![c] = l]),
         \/ UNCHANGED arg
         \/ \E id : arg' = [arg EXCEPT ![c].id = id]
         \/ \E s, n, id : \E b \in {"reading", "closing"} :
              arg' = [arg EXCEPT ![c] = [s |-> s, n |-> n, id |-> id, back |-> b]]
  PROVE  CountInv'
<1>1. at' \in [Conns -> Labels] /\ Connected' = Connected
  BY DEF CountInv, Connected
<1>2. DOMAIN arg' = Conns /\ \A d \in Conns :
         /\ arg'[d] = [s |-> arg'[d].s, n |-> arg'[d].n, id |-> arg'[d].id, back |-> arg'[d].back]
         /\ arg'[d].back \in {"reading", "closing"}
  <2>1. CASE UNCHANGED arg
    BY <2>1 DEF CountInv
  <2>2. ASSUME NEW id, arg' = [arg EXCEPT ![c].id = id] PROVE <1>2!2
    BY <2>2 DEF CountInv
  <2>3. ASSUME NEW s, NEW n, NEW id, NEW b \in {"reading", "closing"},
               arg' = [arg EXCEPT ![c] = [s |-> s, n |-> n, id |-> id, back |-> b]]
        PROVE  <1>2!2
    BY <2>3 DEF CountInv
  <2> QED BY <2>1, <2>2, <2>3 DEF CountInv
<1> QED BY <1>1, <1>2 DEF CountInv

\* Each step keeps the count.
LEMMA CountStep == CountInv /\ [Next]_vars => CountInv'
<1> SUFFICES ASSUME CountInv, [Next]_vars PROVE CountInv'
  OBVIOUS
<1>1. ASSUME NEW c \in Conns, Accept(c) PROVE CountInv'
  <2>1. c \notin Connected /\ Connected' = Connected \cup {c} /\ connections' = connections + 1
        /\ at' \in [Conns -> Labels] /\ UNCHANGED arg
    BY <1>1 DEF Accept, CountInv, Connected, Labels
  <2> QED BY <2>1, FS_AddElement DEF CountInv
<1>2. ASSUME NEW c \in Conns, HandshakeFails(c) \/ OnClose(c) PROVE CountInv'
  <2>1. c \in Connected /\ Connected' = Connected \ {c} /\ connections' = connections - 1
        /\ at' \in [Conns -> Labels] /\ UNCHANGED arg
    BY <1>2 DEF HandshakeFails, OnClose, CountInv, Connected, Labels
  <2> QED BY <2>1, FS_RemoveElement DEF CountInv
<1>3. ASSUME NEW c \in Conns,
             HandshakeDone(c) \/ Break(c) \/ ReadEnds(c) \/ PublishStarts(c) \/ OnPublish(c) \/ PublishFails(c)
               \/ Unpublish(c) \/ PlayRefused(c) \/ PlayStarts(c) \/ PlayFails(c) \/ DestroyClose(c)
      PROVE  CountInv'
  BY <1>3, StaysConnected DEF HandshakeDone, Break, ReadEnds, PublishStarts, OnPublish, PublishFails, Unpublish,
       PlayRefused, PlayStarts, PlayFails, DestroyClose, Labels
<1>4. ASSUME NEW c \in Conns, PutPlayer(c) \/ DestroyDelete(c) PROVE CountInv'
  BY <1>4, StaysConnected DEF PutPlayer, DestroyDelete, Labels
<1>5. ASSUME NEW c \in Conns, DestroyPlayer(c) PROVE CountInv'
  BY <1>5, StaysConnected DEF DestroyPlayer, Labels, CountInv
<1>6. ASSUME NEW s \in Streams, CreateStream(s) \/ Destroy(s) PROVE CountInv'
  <2>1. Owner[s] \in Conns
    BY ServerAssumption
  <2> QED BY <1>6, <2>1, StaysConnected, SMTT(30) DEF CreateStream, Destroy, Labels
<1>7. ASSUME NEW s \in Streams, NEW n \in Names, Publish(s, n) \/ Play(s, n) PROVE CountInv'
  <2>1. Owner[s] \in Conns
    BY ServerAssumption
  <2>2. /\ at[Owner[s]] = "reading" /\ UNCHANGED connections
        /\ \/ UNCHANGED <<at, arg>>
           \/ /\ \E l \in {"publish", "play"} : at' = [at EXCEPT ![Owner[s]] = l]
              /\ \E id : arg' = [arg EXCEPT ![Owner[s]] = [s |-> s, n |-> n, id |-> id, back |-> "reading"]]
    BY <1>7 DEF Publish, Play, Ready
  <2>3. CASE UNCHANGED <<at, arg>>
    BY <2>1, <2>2, <2>3, StaysConnected
  <2>4. ASSUME NEW l \in {"publish", "play"}, at' = [at EXCEPT ![Owner[s]] = l],
               NEW id, arg' = [arg EXCEPT ![Owner[s]] = [s |-> s, n |-> n, id |-> id, back |-> "reading"]]
        PROVE  CountInv'
    <3>1. /\ at[Owner[s]] \notin {"none", "gone"} /\ \E k \in Labels \ {"none", "gone"} : at' = [at EXCEPT ![Owner[s]] = k]
          /\ \E t, m, i : \E b \in {"reading", "closing"} :
               arg' = [arg EXCEPT ![Owner[s]] = [s |-> t, n |-> m, id |-> i, back |-> b]]
      BY <2>2, <2>4 DEF Labels
    <3> QED BY <2>1, <2>2, <3>1, StaysConnected
  <2> QED BY <2>2, <2>3, <2>4
<1>8. CASE UNCHANGED vars
  BY <1>8 DEF vars, CountInv, Connected
<1> QED BY <1>1, <1>2, <1>3, <1>4, <1>5, <1>6, <1>7, <1>8 DEF Next, Handlers

\* Nobody is connected at first.
LEMMA CountInit == Init => CountInv
<1> SUFFICES ASSUME Init PROVE CountInv
  OBVIOUS
<1>1. Connected = {}
  BY DEF Init, Connected
<1> QED BY <1>1, FS_EmptySet DEF Init, CountInv, NoArg, Labels

\* The counter is the number of connections, for any number of them, whichever way each of
\* them ends and whatever clients send.
THEOREM Counts == Spec => []CountIsExact
<1>1. CountInv => CountIsExact
  BY DEF CountInv, CountIsExact, Connected
<1> QED BY <1>1, CountInit, CountStep, PTL DEF Spec

----------------------------------------------------------------------------
(* The registry.                                                           *)

ServerInv == TypeOK /\ RegistryInv /\ CountInv

\* The invariant holds at first.
LEMMA ServerInit == Init => ServerInv
<1>1. Init => TypeOK /\ RegistryInv
  BY ServerAssumption, EmptySeq
  DEF Init, TypeOK, RegistryInv, Ids, Labels, NoArg, Working, WorksOn, Holding, HoldsId, Named, HeldName, Mapped, InMap,
      Once, UsedOnce, Played, HeldPlayer, Followed, OpenInMap, SourceIsOwn, ClosedByOwner, Busy
<1> QED BY <1>1, CountInit DEF ServerInv

\* Every step keeps the invariant.
LEMMA ServerStep ==
  ASSUME SingleUse
  PROVE  ServerInv /\ [Next]_vars => ServerInv'
<1> SUFFICES ASSUME ServerInv, [Next]_vars PROVE ServerInv'
  OBVIOUS
<1>1. CountInv' /\ TypeOK /\ RegistryInv
  BY CountStep DEF ServerInv
<1>2. connections' \in Nat
  BY <1>1, FS_CardinalityType DEF CountInv
<1> SUFFICES TypeOK' /\ RegistryInv'
  BY <1>1 DEF ServerInv
<1>3. ASSUME NEW c \in Conns,
             Accept(c) \/ HandshakeDone(c) \/ HandshakeFails(c) \/ Break(c) \/ ReadEnds(c) \/ OnClose(c) \/ PlayRefused(c)
      PROVE  TypeOK' /\ RegistryInv'
  BY <1>1, <1>2, <1>3, MovesKeeps DEF Moves
<1>4. ASSUME NEW c \in Conns, PublishStarts(c) \/ OnPublish(c) \/ PublishFails(c) \/ Unpublish(c)
      PROVE  TypeOK' /\ RegistryInv'
  BY <1>1, <1>2, <1>4, PublishStartsKeeps, OnPublishKeeps, PublishFailsKeeps, UnpublishKeeps
<1>5. ASSUME NEW c \in Conns, PutPlayer(c) \/ PlayStarts(c) \/ PlayFails(c)
      PROVE  TypeOK' /\ RegistryInv'
  BY <1>1, <1>2, <1>5, PutPlayerKeeps, PlayStartsKeeps, PlayFailsKeeps
<1>6. ASSUME NEW c \in Conns, DestroyClose(c) \/ DestroyDelete(c) \/ DestroyPlayer(c)
      PROVE  TypeOK' /\ RegistryInv'
  BY <1>1, <1>2, <1>6, DestroyCloseKeeps, DestroyDeleteKeeps, DestroyPlayerKeeps
<1>7. ASSUME NEW s \in Streams, CreateStream(s) \/ Destroy(s)
      PROVE  TypeOK' /\ RegistryInv'
  BY <1>1, <1>2, <1>7, CreateStreamKeeps, DestroyKeeps
<1>8. ASSUME NEW s \in Streams, NEW n \in Names, Publish(s, n) \/ Play(s, n)
      PROVE  TypeOK' /\ RegistryInv'
  <2>1. CASE Publish(s, n) /\ streams[n] = 0
    BY <1>1, <1>2, <2>1, PublishKeeps
  <2>2. CASE Play(s, n) /\ streams[n] # 0
    BY <1>1, <1>2, <2>2, PlayKeeps
  <2>3. CASE (Publish(s, n) /\ streams[n] # 0) \/ (Play(s, n) /\ streams[n] = 0)
    BY <1>1, <1>2, <2>3, RefusedKeeps
  <2> QED BY <1>8, <2>1, <2>2, <2>3
<1>9. CASE UNCHANGED vars
  <2>1. TypeOK'
    BY <1>1, <1>9 DEF vars, TypeOK, Ids
  <2>2. Working' /\ Holding'
    BY <1>1, <1>9 DEF vars, RegistryInv, Working, WorksOn, Holding, HoldsId
  <2>3. Named' /\ Mapped' /\ Played' /\ Followed'
    BY <1>1, <1>9 DEF vars, RegistryInv, Named, HeldName, Mapped, InMap, Played, HeldPlayer, Followed, OpenInMap
  <2>4. Once' /\ SourceIsOwn' /\ ClosedByOwner'
    BY <1>1, <1>9 DEF vars, RegistryInv, Once, UsedOnce, SourceIsOwn, ClosedByOwner
  <2> QED BY <2>1, <2>2, <2>3, <2>4 DEF RegistryInv
<1> QED BY <1>3, <1>4, <1>5, <1>6, <1>7, <1>8, <1>9 DEF Next, Handlers

\* Every variable keeps its type.
THEOREM ServerTypeCorrect ==
  ASSUME SingleUse
  PROVE  Spec => []TypeOK
<1>1. ServerInv => TypeOK
  BY DEF ServerInv
<1> QED BY <1>1, ServerInit, ServerStep, PTL DEF Spec

\* A name in server.streams leads to an open stream of that name, but while its publisher
\* tears it down.
THEOREM RegistryIsOpen ==
  ASSUME SingleUse
  PROVE  Spec => []RegisteredIsOpen
<1>1. ServerInv => RegisteredIsOpen
  BY DEF ServerInv, RegistryInv, Named, HeldName, RegisteredIsOpen
<1> QED BY <1>1, ServerInit, ServerStep, PTL DEF Spec

\* What a stream object receives goes to the stream it registered, and to no other of its name.
THEOREM StreamsAreOwned ==
  ASSUME SingleUse
  PROVE  Spec => []SourceIsOwn
<1>1. ServerInv => SourceIsOwn
  BY DEF ServerInv, RegistryInv
<1> QED BY <1>1, ServerInit, ServerStep, PTL DEF Spec

\* Nobody closes the stream of another: a stream is closed by the connection that publishes it.
THEOREM OwnersClose ==
  ASSUME SingleUse
  PROVE  Spec => []ClosedByOwner
<1>1. ServerInv => ClosedByOwner
  BY DEF ServerInv, RegistryInv
<1> QED BY <1>1, ServerInit, ServerStep, PTL DEF Spec

\* After the clean-up of a connection nothing of it is registered, open or subscribed.
THEOREM LeavesNothing ==
  ASSUME SingleUse
  PROVE  Spec => []NothingLeaks
<1>1. ASSUME ServerInv PROVE NothingLeaks
  <2> SUFFICES ASSUME NEW c \in Conns, at[c] = "gone"
               PROVE  /\ \A i \in Mine(c) : ~media[i].open /\ \A n \in Names : streams[n] # i
                      /\ \A s \in Streams : Owner[s] = c => players[s] = 0
                      /\ \A i \in DOMAIN mps : Owner[mps[i].stream] = c => ~mps[i].open
    BY DEF NothingLeaks
  <2> USE <1>1 DEF ServerInv, RegistryInv
  <2>1. \A s \in Streams : Owner[s] = c => ~st[s].live
    BY DEF Once, UsedOnce
  <2>2. ASSUME NEW i \in Mine(c), NEW n \in Names PROVE streams[n] # i
    <3>1. media[i].owner \in Streams /\ Owner[media[i].owner] = c /\ i # 0
      BY <2>2, Types DEF Mine
    <3> QED BY <2>1, <3>1 DEF Named, HeldName
  <2>3. ASSUME NEW i \in Mine(c) PROVE ~media[i].open
    <3>1. media[i].name \in Names /\ i \in DOMAIN media /\ Owner[media[i].owner] = c
      BY <2>3, Types DEF Mine
    <3> QED BY <2>2, <3>1 DEF Mapped, InMap
  <2>4. ASSUME NEW s \in Streams, Owner[s] = c PROVE players[s] = 0
    BY <2>1, <2>4 DEF Played, HeldPlayer
  <2>5. ASSUME NEW i \in DOMAIN mps, Owner[mps[i].stream] = c PROVE ~mps[i].open
    <3>1. mps[i].stream \in Streams /\ i # 0
      BY <2>5, Types
    <3> QED BY <2>4, <2>5, <3>1 DEF Followed, OpenInMap
  <2> QED BY <2>2, <2>3, <2>4, <2>5
<1> QED BY <1>1, ServerInit, ServerStep, PTL DEF Spec
=============================================================================
