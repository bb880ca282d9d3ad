----------------------------- MODULE Handshake -----------------------------
(***************************************************************************)
(* The server's half of the RTMP handshake: SHandshake of handshake.go, as *)
(* handle() of server.go calls it for a socket it has accepted.            *)
(*                                                                         *)
(* The client sends C0, C1 and C2; the server answers C0 and C1 with S0,   *)
(* S1 and S2 in one piece.  One goroutine writes that answer, another      *)
(* reads C2, and each reports on the unbuffered channel done, from which   *)
(* SHandshake receives until it has an error or both.                      *)
(*                                                                         *)
(* S1 carries a digest of itself at a place that four of its own bytes     *)
(* choose.  There are two schemes for where these are, and the server uses *)
(* the one the digest of C1 is found by.  HMAC is external: a function of  *)
(* the bytes it covers, one for each key.  The digest of S2 is left out.   *)
(***************************************************************************)
EXTENDS Naturals, FiniteSets

CONSTANTS Size,          \* HANDSHAKE_SIZE
          DigestLength,  \* DIGEST_LENGTH
          Modulus,       \* 728
          Area,          \* Area[s]: where the digest may begin by scheme s, 12 and 776
          Bytes,         \* the values of a byte
          HmacFP,        \* HMAC with the key of the player, by which C1 is signed
          HmacFMS,       \* HMAC with the key of the server
          Hellos,        \* the C1 that clients send
          Fills          \* the S1 that rand.Read makes, its version filled in

Schemes  == {0, 1}
Buffers  == [0..(Size - 1) -> Bytes]
Digests  == [0..(DigestLength - 1) -> Bytes]
Unsigned == [0..(Size - DigestLength - 1) -> Bytes]

\* The areas of the two schemes, each after its four bytes, and the end of the buffer.
ASSUME HandshakeAssumption ==
  /\ Size \in Nat /\ DigestLength \in Nat /\ Modulus \in Nat \ {0}
  /\ Bytes \subseteq Nat
  /\ Area \in [Schemes -> Nat]
  /\ Area[0] >= 4
  /\ Area[1] >= Area[0] + (Modulus - 1) + DigestLength + 4
  /\ Size >= Area[1] + (Modulus - 1) + DigestLength
  /\ HmacFP \in [Unsigned -> Digests] /\ HmacFMS \in [Unsigned -> Digests]
  /\ Hellos \subseteq Buffers /\ Fills \subseteq Buffers

----------------------------------------------------------------------------
(* Digests.                                                                *)

SumBytes(buf, first) == buf[first] + buf[first + 1] + buf[first + 2] + buf[first + 3]

DigestOffset(buf, scheme) == (SumBytes(buf, Area[scheme] - 4) % Modulus) + Area[scheme]

\* What a digest at offset covers, and the digest that is there.
Covered(buf, offset) ==
  [i \in 0..(Size - DigestLength - 1) |-> IF i < offset THEN buf[i] ELSE buf[i + DigestLength]]
DigestAt(buf, offset) == [i \in 0..(DigestLength - 1) |-> buf[offset + i]]

ValidateScheme(buf, scheme, hmac) ==
  LET offset == DigestOffset(buf, scheme) IN DigestAt(buf, offset) = hmac[Covered(buf, offset)]

\* The first scheme that validates, and scheme 0, with a warning, when none does.
Validate(c1) == IF ~ValidateScheme(c1, 0, HmacFP) /\ ValidateScheme(c1, 1, HmacFP) THEN 1 ELSE 0

\* Fault for the mutation runs: the digest is put where scheme 0 has it.
SignFirst(buf, scheme) ==
  LET offset == DigestOffset(buf, scheme) IN
    [i \in 0..(Size - 1) |-> IF i \in Area[0]..(Area[0] + DigestLength - 1)
                               THEN HmacFMS[Covered(buf, offset)][i - Area[0]] ELSE buf[i]]

Sign(buf, scheme) ==
  LET offset == DigestOffset(buf, scheme) IN
    [i \in 0..(Size - 1) |-> IF i \in offset..(offset + DigestLength - 1)
                               THEN HmacFMS[Covered(buf, offset)][i - offset] ELSE buf[i]]

----------------------------------------------------------------------------

VARIABLES
  stage,     \* "hello", "exchange", then "failed" and "over", or "established"
  c1, s1,    \* C1 as received, S1 as sent, while SHandshake has them; None
  doing,     \* doing[g]: what goroutine g of SHandshake does next
  outcome,   \* outcome[g]: the error it reports, or "nil"
  reports,   \* errors received from done
  consumed,  \* the parts of C0, C1, C2 that were read
  flushed,   \* the answer is on the wire
  socket,    \* "open", or "closed" by this side
  peer       \* "there" or "gone"

handshakeVars == <<stage, c1, s1, doing, outcome, reports, consumed, flushed, socket, peer>>

None    == <<>>
Workers == {"writer", "reader"}

\* From here on a read or a flush returns, with an error at the latest when what
\* is there has been read.
Broken == socket = "closed" \/ peer = "gone"

\* C0, C1 and S1: the answer is made, and both goroutines are started.
ReadHello ==
  /\ stage = "hello"
  /\ \E c \in Hellos, s \in Fills : c1' = c /\ s1' = Sign(s, Validate(c))
  /\ stage' = "exchange"
  /\ consumed' = {"C0", "C1"}
  /\ doing' = [writer |-> "write", reader |-> "read"]
  /\ UNCHANGED <<outcome, reports, flushed, socket, peer>>

\* C0 or C1 is not read in full, or there are no random bytes.
HelloFails ==
  /\ stage = "hello"
  /\ stage' = "failed"
  /\ UNCHANGED <<c1, s1, doing, outcome, reports, consumed, flushed, socket, peer>>

\* The answer fits into the bufio.Writer, which is empty: no error is possible yet.
WriteAnswer ==
  /\ doing["writer"] = "write"
  /\ doing' = [doing EXCEPT !["writer"] = "flush"]
  /\ UNCHANGED <<stage, c1, s1, outcome, reports, consumed, flushed, socket, peer>>

Report(g, error) ==
  /\ doing' = [doing EXCEPT ![g] = "report"]
  /\ outcome' = [outcome EXCEPT ![g] = error]

FlushAnswer ==
  /\ doing["writer"] = "flush"
  /\ socket = "open"
  /\ Report("writer", "nil")
  /\ flushed' = TRUE
  /\ UNCHANGED <<stage, c1, s1, reports, consumed, socket, peer>>

FlushFails ==
  /\ doing["writer"] = "flush"
  /\ Broken
  /\ Report("writer", "error")
  /\ UNCHANGED <<stage, c1, s1, reports, consumed, flushed, socket, peer>>

ReadC2 ==
  /\ doing["reader"] = "read"
  /\ socket = "open"
  /\ Report("reader", "nil")
  /\ consumed' = consumed \cup {"C2"}
  /\ UNCHANGED <<stage, c1, s1, reports, flushed, socket, peer>>

\* Fault: a goroutine that has an error returns without a report.
ReturnSilently(g) ==
  /\ doing' = [doing EXCEPT ![g] = "ended"]
  /\ UNCHANGED outcome
ReportError(g) == Report(g, "error")

ReadC2Fails ==
  /\ doing["reader"] = "read"
  /\ Broken
  /\ ReportError("reader")
  /\ UNCHANGED <<stage, c1, s1, reports, consumed, flushed, socket, peer>>

\* Fault: SHandshake receives one report only.
FirstReport(n) == TRUE
AllReports(n)  == n = Cardinality(Workers)

\* err := <-done.  After an error SHandshake returns and receives no more.
ReceiveReport(g) ==
  /\ stage = "exchange"
  /\ doing[g] = "report"
  /\ doing' = [doing EXCEPT ![g] = "ended"]
  /\ reports' = reports + 1
  /\ stage' = IF outcome[g] = "error" THEN "failed"
              ELSE IF AllReports(reports + 1) THEN "established" ELSE "exchange"
  /\ IF stage' = "exchange" THEN UNCHANGED <<c1, s1>> ELSE c1' = None /\ s1' = None
  /\ UNCHANGED <<outcome, consumed, flushed, socket, peer>>

\* handle() counts the failure and closes the socket.
HandleFailure ==
  /\ stage = "failed"
  /\ stage' = "over"
  /\ socket' = "closed"
  /\ UNCHANGED <<c1, s1, doing, outcome, reports, consumed, flushed, peer>>

PeerLeaves ==
  /\ peer = "there"
  /\ peer' = "gone"
  /\ UNCHANGED <<stage, c1, s1, doing, outcome, reports, consumed, flushed, socket>>

HandshakeInit ==
  /\ stage = "hello"
  /\ c1 = None /\ s1 = None
  /\ doing = [g \in Workers |-> "none"]
  /\ outcome = [g \in Workers |-> "nil"]
  /\ reports = 0
  /\ consumed = {}
  /\ flushed = FALSE
  /\ socket = "open"
  /\ peer = "there"

Exchange ==
  \/ WriteAnswer \/ FlushAnswer \/ FlushFails \/ ReadC2 \/ ReadC2Fails
  \/ \E g \in Workers : ReceiveReport(g)

HandshakeNext == ReadHello \/ HelloFails \/ Exchange \/ HandleFailure \/ PeerLeaves

HandshakeSpec == HandshakeInit /\ [][HandshakeNext]_handshakeVars

----------------------------------------------------------------------------
(* Properties.                                                             *)

Idle(g) == doing[g] \in {"none", "ended"}

\* Every variable keeps its type.
HandshakeTypeOK ==
  /\ stage \in {"hello", "exchange", "failed", "over", "established"}
  /\ c1 \in Buffers \cup {None} /\ s1 \in Buffers \cup {None}
  /\ doing \in [Workers -> {"none", "write", "flush", "read", "report", "ended"}]
  /\ outcome \in [Workers -> {"nil", "error"}]
  /\ reports \in Nat
  /\ consumed \subseteq {"C0", "C1", "C2"}
  /\ flushed \in BOOLEAN
  /\ socket \in {"open", "closed"} /\ peer \in {"there", "gone"}

\* The connection made of the socket starts at the first chunk: the handshake of the
\* client is read to its end, the answer has left the bufio.Writer, and no goroutine
\* of SHandshake reads or writes beside readFrom and writeTo.
StartsAligned ==
  stage = "established" => consumed = {"C0", "C1", "C2"} /\ flushed /\ \A g \in Workers : Idle(g)

\* A client that signed C1 by one scheme finds a valid digest in S1 by that scheme:
\* the digest does not move the bytes that say where it is, nor itself.
AnswerValidates ==
  s1 # None => \A scheme \in Schemes :
    (ValidateScheme(c1, scheme, HmacFP) /\ ~ValidateScheme(c1, 1 - scheme, HmacFP))
      => ValidateScheme(s1, scheme, HmacFMS)

\* A handshake with a client that leaves comes to an end, and a failed one leaves nobody
\* on the socket.  One goroutine may be left for ever, the second to report, since
\* SHandshake returns after the first error; never both.
HandshakeEnds ==
  (peer = "gone" /\ stage # "established") ~>
    \/ stage = "established"
    \/ /\ stage = "over"
       /\ \A g \in Workers : Idle(g) \/ doing[g] = "report"
       /\ \E g \in Workers : Idle(g)
=============================================================================
