-------------------------- MODULE HandshakeProofs --------------------------
(***************************************************************************)
(* Theorems about Handshake, for buffers and digests of any length, any    *)
(* HMAC and whatever the clients send: with Size = 1536, DigestLength = 32 *)
(* and Modulus = 728 they are about the handshake of the code.             *)
(***************************************************************************)
EXTENDS Handshake, FiniteSetTheorems, TLAPS

----------------------------------------------------------------------------
(* Where the digest is.                                                    *)

\* The digest of a scheme begins in the area of the scheme, and ends in the buffer:
\* getDigestOffset never leads out of the 1536 bytes.
LEMMA OffsetInArea ==
  ASSUME NEW buf \in Buffers, NEW scheme \in Schemes
  PROVE  /\ DigestOffset(buf, scheme) \in Nat
         /\ DigestOffset(buf, scheme) >= Area[scheme]
         /\ DigestOffset(buf, scheme) + DigestLength <= Size
<1>1. Area[0] \in Nat /\ Area[1] \in Nat /\ Area[scheme] \in Nat /\ Area[scheme] >= 4
  BY HandshakeAssumption DEF Schemes
<1>2. Area[scheme] + (Modulus - 1) + DigestLength <= Size
  BY <1>1, HandshakeAssumption DEF Schemes
<1> DEFINE a == Area[scheme] - 4
<1>3. a \in 0..(Size - 1) /\ a + 1 \in 0..(Size - 1) /\ a + 2 \in 0..(Size - 1) /\ a + 3 \in 0..(Size - 1)
  BY <1>1, <1>2, HandshakeAssumption
<1>4. buf[a] \in Nat /\ buf[a + 1] \in Nat /\ buf[a + 2] \in Nat /\ buf[a + 3] \in Nat
  BY <1>3, HandshakeAssumption DEF Buffers
<1>5. SumBytes(buf, a) \in Nat
  BY <1>4 DEF SumBytes
<1> HIDE DEF a
<1>6. SumBytes(buf, a) % Modulus \in 0..(Modulus - 1)
  BY <1>5, HandshakeAssumption
<1>7. DigestOffset(buf, scheme) = (SumBytes(buf, a) % Modulus) + Area[scheme]
  BY DEF DigestOffset, a
<1> QED
  BY <1>1, <1>2, <1>6, <1>7, HandshakeAssumption

\* What is left of a buffer without its digest.
LEMMA CoveredType ==
  ASSUME NEW buf \in Buffers, NEW offset \in Nat, offset + DigestLength <= Size
  PROVE  Covered(buf, offset) \in Unsigned
  BY HandshakeAssumption DEF Covered, Buffers, Unsigned

\* Signing gives a buffer.
LEMMA SignType ==
  ASSUME NEW buf \in Buffers, NEW scheme \in Schemes
  PROVE  Sign(buf, scheme) \in Buffers
<1> DEFINE offset == DigestOffset(buf, scheme)
<1>1. offset \in Nat /\ offset + DigestLength <= Size
  BY OffsetInArea
<1>2. Covered(buf, offset) \in Unsigned
  BY <1>1, CoveredType
<1> DEFINE digest == HmacFMS[Covered(buf, offset)]
<1>3. digest \in Digests
  BY <1>2, HandshakeAssumption
<1>4. Sign(buf, scheme) = [i \in 0..(Size - 1) |-> IF i \in offset..(offset + DigestLength - 1)
                                                     THEN digest[i - offset] ELSE buf[i]]
  BY DEF Sign
<1> HIDE DEF offset, digest
<1>5. ASSUME NEW i \in 0..(Size - 1), i \in offset..(offset + DigestLength - 1)
      PROVE  digest[i - offset] \in Bytes
  <2>1. i - offset \in 0..(DigestLength - 1)
    BY <1>1, <1>5, HandshakeAssumption
  <2> QED BY <2>1, <1>3 DEF Digests
<1>6. \A i \in 0..(Size - 1) : buf[i] \in Bytes
  BY DEF Buffers
<1> QED
  BY <1>4, <1>5, <1>6 DEF Buffers

\* The digest does not touch the four bytes that say where it is, so that the signed
\* buffer has its digest where it was put; what the digest covers is as it was.
LEMMA SignKeepsOffset ==
  ASSUME NEW buf \in Buffers, NEW scheme \in Schemes
  PROVE  DigestOffset(Sign(buf, scheme), scheme) = DigestOffset(buf, scheme)
<1> DEFINE offset == DigestOffset(buf, scheme)
           a == Area[scheme] - 4
           signed == Sign(buf, scheme)
<1>1. offset \in Nat /\ offset >= Area[scheme] /\ offset + DigestLength <= Size
  BY OffsetInArea
<1>2. Area[scheme] \in Nat /\ Area[scheme] >= 4
  BY HandshakeAssumption DEF Schemes
<1>3. \A i \in 0..(Size - 1) : i < offset => signed[i] = buf[i]
  <2> SUFFICES ASSUME NEW i \in 0..(Size - 1), i < offset PROVE signed[i] = buf[i]
    OBVIOUS
  <2>1. i \notin offset..(offset + DigestLength - 1)
    BY <1>1, HandshakeAssumption
  <2> QED BY <2>1 DEF Sign
<1>4. /\ a \in 0..(Size - 1) /\ a + 1 \in 0..(Size - 1) /\ a + 2 \in 0..(Size - 1) /\ a + 3 \in 0..(Size - 1)
      /\ a + 3 < offset /\ a + 2 < offset /\ a + 1 < offset /\ a < offset
  BY <1>1, <1>2, HandshakeAssumption
<1>5. SumBytes(signed, a) = SumBytes(buf, a)
  BY <1>3, <1>4 DEF SumBytes
<1> QED
  BY <1>5 DEF DigestOffset

LEMMA SignKeepsCovered ==
  ASSUME NEW buf \in Buffers, NEW scheme \in Schemes
  PROVE  LET offset == DigestOffset(buf, scheme) IN
           /\ Covered(Sign(buf, scheme), offset) = Covered(buf, offset)
           /\ DigestAt(Sign(buf, scheme), offset) = HmacFMS[Covered(buf, offset)]
<1> DEFINE offset == DigestOffset(buf, scheme)
           digest == HmacFMS[Covered(buf, offset)]
           signed == Sign(buf, scheme)
<1>1. offset \in Nat /\ offset + DigestLength <= Size
  BY OffsetInArea
<1>2. digest \in Digests
  BY <1>1, CoveredType, HandshakeAssumption
<1>3. signed = [i \in 0..(Size - 1) |-> IF i \in offset..(offset + DigestLength - 1)
                                          THEN digest[i - offset] ELSE buf[i]]
  BY DEF Sign
<1> HIDE DEF offset, digest, signed
<1>4. ASSUME NEW i \in 0..(Size - DigestLength - 1)
      PROVE  (IF i < offset THEN signed[i] ELSE signed[i + DigestLength])
               = (IF i < offset THEN buf[i] ELSE buf[i + DigestLength])
  <2>1. CASE i < offset
    <3>1. i \in 0..(Size - 1) /\ i \notin offset..(offset + DigestLength - 1)
      BY <2>1, <1>1, HandshakeAssumption
    <3> QED BY <2>1, <3>1, <1>3
  <2>2. CASE ~(i < offset)
    <3>1. i + DigestLength \in 0..(Size - 1) /\ i + DigestLength \notin offset..(offset + DigestLength - 1)
      BY <2>2, <1>1, HandshakeAssumption
    <3> QED BY <2>2, <3>1, <1>3
  <2> QED BY <2>1, <2>2
<1>5. Covered(signed, offset) = Covered(buf, offset)
  BY <1>4 DEF Covered
<1>6. \A i \in 0..(DigestLength - 1) : signed[offset + i] = digest[i]
  <2> SUFFICES ASSUME NEW i \in 0..(DigestLength - 1) PROVE signed[offset + i] = digest[i]
    OBVIOUS
  <2>1. /\ offset + i \in 0..(Size - 1) /\ offset + i \in offset..(offset + DigestLength - 1)
        /\ (offset + i) - offset = i
    BY <1>1, HandshakeAssumption
  <2> QED BY <2>1, <1>3
<1>7. DigestAt(signed, offset) = [i \in 0..(DigestLength - 1) |-> digest[i]]
  BY <1>6 DEF DigestAt
<1>8. digest = [i \in 0..(DigestLength - 1) |-> digest[i]]
  BY <1>2 DEF Digests
<1> QED
  BY <1>5, <1>7, <1>8 DEF offset, digest, signed

\* A buffer signed by a scheme validates by that scheme.
LEMMA SignedValidates ==
  ASSUME NEW buf \in Buffers, NEW scheme \in Schemes
  PROVE  ValidateScheme(Sign(buf, scheme), scheme, HmacFMS)
BY SignKeepsOffset, SignKeepsCovered DEF ValidateScheme

----------------------------------------------------------------------------
(* The exchange.                                                           *)

\* What makes the connection start where it should: how many reports have been received
\* is how many goroutines have ended, each with nil while the exchange goes on; who
\* reports nil has done its part; S1 is signed by the scheme of C1.
Ended(g) == IF doing[g] = "ended" THEN 1 ELSE 0

ExchangeInv ==
  /\ stage = "hello" => \A g \in Workers : doing[g] = "none"
  /\ stage \in {"hello", "exchange"} => reports = Ended("writer") + Ended("reader")
  /\ stage \in {"exchange", "established"} =>
       /\ {"C0", "C1"} \subseteq consumed
       /\ \A g \in Workers : doing[g] = "ended" => outcome[g] = "nil"
  /\ stage = "established" => \A g \in Workers : doing[g] = "ended"
  /\ doing["writer"] \in {"report", "ended"} /\ outcome["writer"] = "nil" => flushed
  /\ doing["reader"] \in {"report", "ended"} /\ outcome["reader"] = "nil" => "C2" \in consumed

SignedInv == s1 # None => c1 \in Hellos /\ \E s \in Fills : s1 = Sign(s, Validate(c1))

LEMMA TwoWorkers == Cardinality(Workers) = 2
<1>1. IsFiniteSet({"writer"}) /\ Cardinality({"writer"}) = 1
  BY FS_Singleton
<1>2. Workers = {"writer"} \cup {"reader"} /\ "reader" \notin {"writer"}
  BY DEF Workers
<1> QED
  BY <1>1, <1>2, FS_AddElement

LEMMA TypeInit == HandshakeInit => HandshakeTypeOK
<1> SUFFICES ASSUME HandshakeInit PROVE HandshakeTypeOK
  OBVIOUS
<1>1. doing \in [Workers -> {"none", "write", "flush", "read", "report", "ended"}]
  BY DEF HandshakeInit
<1>2. outcome \in [Workers -> {"nil", "error"}]
  BY DEF HandshakeInit
<1> QED
  BY <1>1, <1>2 DEF HandshakeInit, HandshakeTypeOK

LEMMA TypeStep == HandshakeTypeOK /\ [HandshakeNext]_handshakeVars => HandshakeTypeOK'
<1> SUFFICES ASSUME HandshakeTypeOK, [HandshakeNext]_handshakeVars
             PROVE  HandshakeTypeOK'
  OBVIOUS
<1> USE DEF HandshakeTypeOK, Workers
<1>1. CASE ReadHello
  <2>1. PICK c \in Hellos, s \in Fills : c1' = c /\ s1' = Sign(s, Validate(c))
    BY <1>1 DEF ReadHello
  <2>2. c \in Buffers /\ Sign(s, Validate(c)) \in Buffers
    <3>1. Validate(c) \in Schemes
      BY DEF Validate, Schemes
    <3> QED BY <3>1, SignType, HandshakeAssumption
  <2> QED BY <1>1, <2>1, <2>2 DEF ReadHello
<1>2. CASE HelloFails \/ HandleFailure \/ PeerLeaves
  BY <1>2 DEF HelloFails, HandleFailure, PeerLeaves
<1>3. CASE WriteAnswer \/ FlushAnswer \/ FlushFails
  BY <1>3 DEF WriteAnswer, FlushAnswer, FlushFails, Report
<1>4. CASE ReadC2 \/ ReadC2Fails
  BY <1>4 DEF ReadC2, ReadC2Fails, Report, ReportError
<1>5. ASSUME NEW g \in Workers, ReceiveReport(g) PROVE HandshakeTypeOK'
  BY <1>5 DEF ReceiveReport
<1>6. CASE UNCHANGED handshakeVars
  BY <1>6 DEF handshakeVars
<1> QED
  BY <1>1, <1>2, <1>3, <1>4, <1>5, <1>6 DEF HandshakeNext, Exchange

LEMMA ExchangeStep ==
  HandshakeTypeOK /\ ExchangeInv /\ [HandshakeNext]_handshakeVars => ExchangeInv'
<1> SUFFICES ASSUME HandshakeTypeOK, ExchangeInv, [HandshakeNext]_handshakeVars
             PROVE  ExchangeInv'
  OBVIOUS
<1> USE DEF HandshakeTypeOK, ExchangeInv, Workers, Ended
<1>1. CASE ReadHello
  BY <1>1 DEF ReadHello
<1>2. CASE HelloFails \/ HandleFailure \/ PeerLeaves
  BY <1>2 DEF HelloFails, HandleFailure, PeerLeaves
<1>3. CASE WriteAnswer
  BY <1>3 DEF WriteAnswer
<1>4. CASE FlushAnswer \/ FlushFails
  BY <1>4 DEF FlushAnswer, FlushFails, Report
<1>5. CASE ReadC2 \/ ReadC2Fails
  BY <1>5 DEF ReadC2, ReadC2Fails, Report, ReportError
<1>6. ASSUME NEW g \in Workers, ReceiveReport(g) PROVE ExchangeInv'
  <2>1. stage = "exchange" /\ doing[g] = "report" /\ doing' = [doing EXCEPT ![g] = "ended"]
    BY <1>6 DEF ReceiveReport
  <2>2. CASE outcome[g] = "error"
    BY <1>6, <2>1, <2>2 DEF ReceiveReport
  <2>3. CASE outcome[g] = "nil" /\ reports + 1 = 2
    <3>1. \A h \in Workers : doing'[h] = "ended"
      BY <2>1, <2>3
    <3> QED BY <1>6, <2>1, <2>3, <3>1, TwoWorkers DEF ReceiveReport, AllReports
  <2>4. CASE outcome[g] = "nil" /\ reports + 1 # 2
    BY <1>6, <2>1, <2>4, TwoWorkers DEF ReceiveReport, AllReports
  <2> QED BY <2>2, <2>3, <2>4
<1>7. CASE UNCHANGED handshakeVars
  BY <1>7 DEF handshakeVars
<1> QED
  BY <1>1, <1>2, <1>3, <1>4, <1>5, <1>6, <1>7 DEF HandshakeNext, Exchange

LEMMA SignedStep == SignedInv /\ [HandshakeNext]_handshakeVars => SignedInv'
<1> SUFFICES ASSUME SignedInv, [HandshakeNext]_handshakeVars
             PROVE  SignedInv'
  OBVIOUS
<1>1. CASE ReadHello
  BY <1>1 DEF ReadHello, SignedInv
<1>2. ASSUME NEW g \in Workers, ReceiveReport(g) PROVE SignedInv'
  BY <1>2 DEF ReceiveReport, SignedInv
<1>3. CASE UNCHANGED <<c1, s1>>
  BY <1>3 DEF SignedInv
<1> QED
  BY <1>1, <1>2, <1>3
  DEF HandshakeNext, Exchange, HelloFails, HandleFailure, PeerLeaves, WriteAnswer,
      FlushAnswer, FlushFails, ReadC2, ReadC2Fails, handshakeVars

LEMMA HandshakeInvariant == HandshakeSpec => [](HandshakeTypeOK /\ ExchangeInv /\ SignedInv)
<1>1. HandshakeInit => HandshakeTypeOK /\ ExchangeInv /\ SignedInv
  BY TypeInit DEF HandshakeInit, ExchangeInv, SignedInv, Ended, Workers
<1> QED
  BY <1>1, TypeStep, ExchangeStep, SignedStep, PTL DEF HandshakeSpec

----------------------------------------------------------------------------

\* The variables keep their types: in particular the answer is a buffer, every byte of it.
THEOREM HandshakeTypeCorrect == HandshakeSpec => []HandshakeTypeOK
BY HandshakeInvariant, PTL

\* SHandshake (handshake.go:138-246) returns nil only when the handshake of the client is
\* read, its own is sent, and both of its goroutines have ended.
THEOREM Aligned == HandshakeSpec => []StartsAligned
<1>1. HandshakeTypeOK /\ ExchangeInv => StartsAligned
  BY DEF HandshakeTypeOK, ExchangeInv, StartsAligned, Idle, Workers
<1> QED BY <1>1, HandshakeInvariant, PTL

\* Whatever the client and the random bytes are, the digest of S1 validates by the scheme
\* by which that of C1 does (handshake.go:61-131).
THEOREM AnswersValidate == HandshakeSpec => []AnswerValidates
<1>1. SignedInv => AnswerValidates
  <2> SUFFICES ASSUME SignedInv, s1 # None, NEW scheme \in Schemes,
                      ValidateScheme(c1, scheme, HmacFP), ~ValidateScheme(c1, 1 - scheme, HmacFP)
               PROVE  ValidateScheme(s1, scheme, HmacFMS)
    BY DEF AnswerValidates
  <2>1. PICK s \in Fills : s1 = Sign(s, Validate(c1))
    BY DEF SignedInv
  <2>2. Validate(c1) = scheme
    BY DEF Validate, Schemes
  <2>3. s \in Buffers
    BY HandshakeAssumption
  <2> QED BY <2>1, <2>2, <2>3, SignedValidates
<1> QED BY <1>1, HandshakeInvariant, PTL
=============================================================================
