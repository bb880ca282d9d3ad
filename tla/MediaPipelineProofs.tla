------------------------- MODULE MediaPipelineProofs -------------------------
(* Theorems about MediaPipeline, for any viewers, watchers, tags and sizes. *)
EXTENDS MediaPipeline, MediaStreamProofs

----------------------------------------------------------------------------
(* The account of a buffer.                                                *)

\* f[i] is the size of the first i tags of q, z that of all; what is added never shrinks it.
PrefixSums(q, z, f) ==
  /\ f \in [0..Len(q) -> Nat] /\ f[0] = 0 /\ f[Len(q)] = z
  /\ \A i \in 1..Len(q) : f[i] = f[i - 1] + q[i].size
  /\ \A i, j \in 0..Len(q) : i <= j => f[i] <= f[j]

Sums(q, z) == \E f : PrefixSums(q, z, f)

\* A tag and a sequence of tags have the parts the buffer uses.
LEMMA TagParts ==
  ASSUME NEW q \in Seq(MP!TagType)
  PROVE  /\ Len(q) \in Nat /\ DOMAIN q = 1..Len(q)
         /\ \A i \in 1..Len(q) : q[i].pos \in Nat /\ q[i].size \in Nat /\ q[i] \in MP!TagType
<1>1. \A i \in 1..Len(q) : q[i] \in MP!TagType
  BY ElementOfSeq
<1> QED BY <1>1, LenProperties DEF MP!TagType

LEMMA SumsEmpty == Sums(<<>>, 0)
<1>1. PrefixSums(<<>>, 0, [i \in 0..0 |-> 0])
  BY EmptySeq DEF PrefixSums
<1> QED BY <1>1 DEF Sums

\* A pushed tag adds its size.
LEMMA SumsAppend ==
  ASSUME NEW q \in Seq(MP!TagType), NEW z \in Nat, NEW t \in MP!TagType, Sums(q, z)
  PROVE  Sums(Append(q, t), z + t.size)
<1>1. PICK f : PrefixSums(q, z, f)
  BY DEF Sums
<1> DEFINE n == Len(q)
           g == [i \in 0..(n + 1) |-> IF i = n + 1 THEN z + t.size ELSE f[i]]
<1>2. n \in Nat /\ t.size \in Nat
  BY TagParts DEF MP!TagType
<1>3. /\ Len(Append(q, t)) = n + 1 /\ Append(q, t)[n + 1] = t
      /\ \A i \in 1..n : Append(q, t)[i] = q[i]
  BY AppendProperties
<1>4. /\ f \in [0..n -> Nat] /\ f[0] = 0 /\ f[n] = z /\ \A i \in 1..n : f[i] = f[i - 1] + q[i].size
      /\ \A i, j \in 0..n : i <= j => f[i] <= f[j]
  BY <1>1 DEF PrefixSums
<1> HIDE DEF n
<1>5. g \in [0..(n + 1) -> Nat] /\ g[0] = 0 /\ g[n + 1] = z + t.size /\ \A i \in 0..n : g[i] = f[i]
  BY <1>2, <1>4
<1> HIDE DEF g
<1>6. ASSUME NEW i \in 1..(n + 1) PROVE g[i] = g[i - 1] + Append(q, t)[i].size
  <2>1. CASE i = n + 1
    <3>1. i - 1 = n /\ n \in 0..n
      BY <1>2, <2>1
    <3> QED BY <1>3, <1>4, <1>5, <2>1, <3>1
  <2>2. CASE i # n + 1
    <3>1. i \in 1..n /\ i - 1 \in 0..n /\ i \in 0..n
      BY <1>2, <2>2
    <3> QED BY <1>3, <1>4, <1>5, <3>1
  <2> QED BY <2>1, <2>2
<1>7. ASSUME NEW i \in 0..(n + 1), NEW j \in 0..(n + 1), i <= j PROVE g[i] <= g[j]
  <2>1. CASE j = n + 1
    <3>1. CASE i = n + 1
      BY <1>2, <1>5, <2>1, <3>1
    <3>2. CASE i # n + 1
      <4>1. i \in 0..n /\ n \in 0..n /\ i <= n
        BY <1>2, <3>2
      <4>2. g[i] <= z /\ g[i] \in Nat
        BY <1>4, <1>5, <4>1
      <4> QED BY <1>2, <1>5, <2>1, <4>2
    <3> QED BY <3>1, <3>2
  <2>2. CASE j # n + 1
    <3>1. i \in 0..n /\ j \in 0..n
      BY <1>2, <1>7, <2>2
    <3> QED BY <1>4, <1>5, <1>7, <3>1
  <2> QED BY <2>1, <2>2
<1>8. PrefixSums(Append(q, t), z + t.size, g)
  BY <1>3, <1>5, <1>6, <1>7 DEF PrefixSums
<1> QED BY <1>8 DEF Sums

\* The front tag is no larger than the account, and is taken off it whole.
LEMMA SumsTail ==
  ASSUME NEW q \in Seq(MP!TagType), q # <<>>, NEW z \in Nat, Sums(q, z)
  PROVE  Head(q).size <= z /\ Sums(Tail(q), z - Head(q).size)
<1>1. PICK f : PrefixSums(q, z, f)
  BY DEF Sums
<1> DEFINE n == Len(q)
           h == Head(q).size
           g == [i \in 0..(n - 1) |-> f[i + 1] - h]
<1>2. /\ n \in Nat /\ n # 0 /\ h \in Nat /\ h = q[1].size
      /\ Len(Tail(q)) = n - 1 /\ \A i \in 1..(n - 1) : Tail(q)[i] = q[i + 1]
  <2>1. n \in Nat /\ n # 0
    BY TagParts, EmptySeq
  <2>2. Head(q) = q[1] /\ Len(Tail(q)) = n - 1 /\ \A i \in 1..(n - 1) : Tail(q)[i] = q[i + 1]
    BY HeadTailProperties
  <2>3. 1 \in 1..n
    BY <2>1
  <2> QED BY <2>1, <2>2, <2>3, TagParts
<1>3. /\ f \in [0..n -> Nat] /\ f[0] = 0 /\ f[n] = z /\ \A i \in 1..n : f[i] = f[i - 1] + q[i].size
      /\ \A i, j \in 0..n : i <= j => f[i] <= f[j]
  BY <1>1 DEF PrefixSums
<1> HIDE DEF n, h
<1>4. f[1] = h
  <2>1. f[1] = f[1 - 1] + q[1].size
    BY <1>2, <1>3
  <2> QED BY <1>2, <1>3, <2>1
<1>5. \A i \in 1..n : f[i] \in Nat /\ f[i] >= h
  BY <1>2, <1>3, <1>4
<1>6. h <= z
  BY <1>2, <1>3, <1>5
<1>7. g \in [0..(n - 1) -> Nat] /\ g[0] = 0 /\ g[n - 1] = z - h /\ \A i \in 0..(n - 1) : g[i] = f[i + 1] - h
  <2>1. ASSUME NEW i \in 0..(n - 1) PROVE f[i + 1] - h \in Nat
    BY <1>2, <1>5, <2>1
  <2> QED BY <1>2, <1>3, <1>4, <2>1
<1> HIDE DEF g
<1>8. ASSUME NEW i \in 1..(n - 1) PROVE g[i] = g[i - 1] + Tail(q)[i].size
  <2>1. /\ i \in 0..(n - 1) /\ i - 1 \in 0..(n - 1) /\ i + 1 \in 1..n /\ i \in 1..n /\ (i - 1) + 1 = i /\ (i + 1) - 1 = i
    BY <1>2
  <2>2. g[i] = f[i + 1] - h /\ g[i - 1] = f[i] - h /\ f[i + 1] = f[i] + q[i + 1].size
    BY <1>3, <1>7, <2>1
  <2>3. f[i] \in Nat /\ q[i + 1].size \in Nat
    BY <1>5, <2>1, TagParts DEF n
  <2>4. Tail(q)[i] = q[i + 1]
    BY <1>2, <2>1
  <2>5. (f[i] + q[i + 1].size) - h = (f[i] - h) + q[i + 1].size
    BY <1>2, <2>3
  <2> QED BY <2>2, <2>4, <2>5
<1>9. ASSUME NEW i \in 0..(n - 1), NEW j \in 0..(n - 1), i <= j PROVE g[i] <= g[j]
  <2>1. i + 1 \in 1..n /\ j + 1 \in 1..n /\ i + 1 \in 0..n /\ j + 1 \in 0..n /\ i + 1 <= j + 1
    BY <1>2, <1>9
  <2>2. f[i + 1] <= f[j + 1] /\ f[i + 1] \in Nat /\ f[j + 1] \in Nat
    BY <1>3, <1>5, <2>1
  <2>3. g[i] = f[i + 1] - h /\ g[j] = f[j + 1] - h
    BY <1>7
  <2>4. h \in Nat
    BY <1>2
  <2> QED BY <2>2, <2>3, <2>4
<1>10. PrefixSums(Tail(q), z - h, g)
  BY <1>2, <1>7, <1>8, <1>9 DEF PrefixSums
<1> QED BY <1>6, <1>10 DEF Sums, h

LEMMA SumsTotal ==
  ASSUME NEW q \in Seq(MP!TagType), NEW z \in Nat, Sums(q, z)
  PROVE  MP!IsTotal(z, q)
<1>1. PICK f : PrefixSums(q, z, f)
  BY DEF Sums
<1>2. f \in [0..Len(q) -> 0..z]
  <2>1. ASSUME NEW i \in 0..Len(q) PROVE f[i] \in 0..z
    BY <1>1, TagParts DEF PrefixSums
  <2> QED BY <1>1, <2>1 DEF PrefixSums
<1> QED BY <1>1, <1>2 DEF PrefixSums, MP!IsTotal

----------------------------------------------------------------------------
(* The tags a viewer keeps.                                                *)

\* What was sent, what the player is sending, and what waits, as one sequence of positions.
KeptOf(a, q, t) == a \o MP!Positions(q) \o MP!Positions(t)

LEMMA ConcatNat == \A s, t, u \in Seq(Nat) : (s \o t) \o u = s \o (t \o u)
  BY ConcatAssociative, SMTT(30)

LEMMA PositionsType ==
  ASSUME NEW q \in Seq(MP!TagType)
  PROVE  /\ MP!Positions(q) \in Seq(Nat) /\ Len(MP!Positions(q)) = Len(q)
         /\ \A i \in 1..Len(q) : MP!Positions(q)[i] = q[i].pos
<1>1. DOMAIN q = 1..Len(q) /\ Len(q) \in Nat /\ \A i \in 1..Len(q) : q[i].pos \in Nat
  BY TagParts
<1>2. MP!Positions(q) = [i \in 1..Len(q) |-> q[i].pos]
  BY <1>1 DEF MP!Positions
<1>3. MP!Positions(q) \in Seq(Nat)
  BY <1>1, <1>2, IsASeq
<1> QED BY <1>1, <1>2, <1>3, LenProperties

LEMMA PositionsEmpty == MP!Positions(<<>>) = <<>>
<1>1. <<>> \in Seq(MP!TagType) /\ Len(<<>>) = 0
  BY EmptySeq
<1>2. MP!Positions(<<>>) \in Seq(Nat) /\ Len(MP!Positions(<<>>)) = 0
  BY <1>1, PositionsType
<1> QED BY <1>2, EmptySeq

LEMMA PositionsOne ==
  ASSUME NEW x \in MP!TagType
  PROVE  <<x>> \in Seq(MP!TagType) /\ MP!Positions(<<x>>) = <<x.pos>> /\ x.pos \in Nat
<1>1. <<x>> \in Seq(MP!TagType) /\ Len(<<x>>) = 1 /\ <<x>>[1] = x
  OBVIOUS
<1>2. x.pos \in Nat
  BY DEF MP!TagType
<1>3. <<x.pos>> \in Seq(Nat) /\ Len(<<x.pos>>) = 1 /\ <<x.pos>>[1] = x.pos
  BY <1>2
<1>4. /\ MP!Positions(<<x>>) \in Seq(Nat) /\ Len(MP!Positions(<<x>>)) = 1
      /\ MP!Positions(<<x>>)[1] = x.pos
  <2>1. 1 \in 1..Len(<<x>>)
    BY <1>1
  <2> QED BY <1>1, <2>1, PositionsType
<1>5. MP!Positions(<<x>>) = <<x.pos>>
  BY <1>3, <1>4, SeqEqual
<1> QED BY <1>1, <1>2, <1>5

LEMMA PositionsAppend ==
  ASSUME NEW q \in Seq(MP!TagType), NEW x \in MP!TagType
  PROVE  MP!Positions(Append(q, x)) = Append(MP!Positions(q), x.pos)
<1> DEFINE b == MP!Positions(q)
           c == MP!Positions(Append(q, x))
<1>1. /\ Append(q, x) \in Seq(MP!TagType) /\ Len(Append(q, x)) = Len(q) + 1 /\ Append(q, x)[Len(q) + 1] = x
      /\ \A i \in 1..Len(q) : Append(q, x)[i] = q[i]
  BY AppendProperties
<1>2. x.pos \in Nat /\ Len(q) \in Nat
  BY TagParts DEF MP!TagType
<1>3. b \in Seq(Nat) /\ Len(b) = Len(q) /\ \A i \in 1..Len(q) : b[i] = q[i].pos
  BY PositionsType
<1>4. c \in Seq(Nat) /\ Len(c) = Len(q) + 1 /\ \A i \in 1..(Len(q) + 1) : c[i] = Append(q, x)[i].pos
  BY <1>1, PositionsType
<1> HIDE DEF b, c
<1>5. /\ Append(b, x.pos) \in Seq(Nat) /\ Len(Append(b, x.pos)) = Len(b) + 1
      /\ Append(b, x.pos)[Len(b) + 1] = x.pos /\ \A i \in 1..Len(b) : Append(b, x.pos)[i] = b[i]
  BY <1>2, <1>3, AppendProperties
<1>6. ASSUME NEW i \in 1..Len(c) PROVE c[i] = Append(b, x.pos)[i]
  <2>1. i \in 1..(Len(q) + 1)
    BY <1>4
  <2>2. CASE i = Len(q) + 1
    BY <1>1, <1>3, <1>4, <1>5, <2>1, <2>2
  <2>3. CASE i # Len(q) + 1
    <3>1. i \in 1..Len(q)
      BY <1>2, <2>1, <2>3
    <3> QED BY <1>1, <1>3, <1>4, <1>5, <2>1, <3>1
  <2> QED BY <2>2, <2>3
<1>7. c = Append(b, x.pos)
  BY <1>3, <1>4, <1>5, <1>6, SeqEqual
<1> QED BY <1>7 DEF b, c

LEMMA PositionsFront ==
  ASSUME NEW q \in Seq(MP!TagType), q # <<>>
  PROVE  /\ Head(q) \in MP!TagType /\ Tail(q) \in Seq(MP!TagType)
         /\ MP!Positions(q) = <<Head(q).pos>> \o MP!Positions(Tail(q))
<1> DEFINE h == Head(q)
           r == Tail(q)
           b == MP!Positions(q)
           c == MP!Positions(r)
<1>1. h \in MP!TagType /\ r \in Seq(MP!TagType) /\ h = q[1] /\ Len(r) = Len(q) - 1
      /\ \A i \in 1..Len(r) : r[i] = q[i + 1]
  BY HeadTailProperties
<1>2. Len(q) \in Nat /\ Len(q) # 0
  BY TagParts, EmptySeq
<1>3. b \in Seq(Nat) /\ Len(b) = Len(q) /\ \A i \in 1..Len(q) : b[i] = q[i].pos
  BY PositionsType
<1> HIDE DEF h, r
<1>4. c \in Seq(Nat) /\ Len(c) = Len(r) /\ \A i \in 1..Len(r) : c[i] = r[i].pos
  BY <1>1, PositionsType
<1>5. <<h.pos>> \in Seq(Nat) /\ Len(<<h.pos>>) = 1 /\ <<h.pos>>[1] = h.pos
  <2>1. h.pos \in Nat
    BY <1>1 DEF MP!TagType
  <2> QED BY <2>1
<1> HIDE DEF b, c
<1> DEFINE d == <<h.pos>>
<1> HIDE DEF d
<1>6. d \in Seq(Nat) /\ Len(d) = 1 /\ d[1] = h.pos
  BY <1>5 DEF d
<1>7. /\ d \o c \in Seq(Nat) /\ Len(d \o c) = Len(d) + Len(c)
      /\ \A i \in 1..(Len(d) + Len(c)) : (d \o c)[i] = IF i <= Len(d) THEN d[i] ELSE c[i - Len(d)]
  <2>1. c \in Seq(Nat) /\ d \in Seq(Nat)
    BY <1>4, <1>6
  <2> QED BY <2>1, ConcatProperties
<1>8. ASSUME NEW i \in 1..Len(b) PROVE b[i] = (d \o c)[i]
  <2>1. i \in 1..(Len(d) + Len(c)) /\ i \in 1..Len(q)
    BY <1>1, <1>2, <1>3, <1>4, <1>6
  <2>2. CASE i = 1
    BY <1>1, <1>3, <1>6, <1>7, <2>1, <2>2
  <2>3. CASE i # 1
    <3>1. ~(i <= Len(d)) /\ i - Len(d) \in 1..Len(r) /\ (i - Len(d)) + 1 = i
      BY <1>1, <1>2, <1>6, <2>1, <2>3
    <3>2. (d \o c)[i] = c[i - Len(d)]
      BY <1>7, <2>1, <3>1
    <3> QED BY <1>1, <1>3, <1>4, <2>1, <3>1, <3>2
  <2> QED BY <2>2, <2>3
<1>9. b = d \o c
  <2>1. Len(b) = Len(d \o c)
    BY <1>1, <1>2, <1>3, <1>4, <1>6, <1>7
  <2> QED BY <1>3, <1>7, <1>8, <2>1, SeqEqual
<1> QED BY <1>1, <1>9 DEF b, c, d, h, r

\* A push appends to what is kept, ...
LEMMA KeptPushed ==
  ASSUME NEW a \in Seq(Nat), NEW q \in Seq(MP!TagType), NEW t \in Seq(MP!TagType), NEW x \in MP!TagType
  PROVE  KeptOf(a, q, t) \in Seq(Nat) /\ KeptOf(a, q, Append(t, x)) = Append(KeptOf(a, q, t), x.pos)
<1>1. PICK b \in Seq(Nat) : b = MP!Positions(q)
  BY PositionsType
<1>2. PICK c \in Seq(Nat) : c = MP!Positions(t)
  BY PositionsType
<1>3. x.pos \in Nat /\ <<x.pos>> \in Seq(Nat)
  <2>1. x.pos \in Nat
    BY DEF MP!TagType
  <2> QED BY <2>1
<1>4. PICK e \in Seq(Nat) : e = <<x.pos>>
  BY <1>3
<1>5. a \o b \in Seq(Nat)
  BY ConcatProperties
<1>6. PICK d \in Seq(Nat) : d = a \o b
  BY <1>5
<1>7. d \o c \in Seq(Nat)
  BY ConcatProperties
<1>8. Append(c, x.pos) = c \o e /\ Append(d \o c, x.pos) = (d \o c) \o e
  BY <1>3, <1>4, <1>7, AppendIsConcat
<1>9. (d \o c) \o e = d \o (c \o e)
  BY ConcatNat
<1>10. KeptOf(a, q, t) = d \o c
  BY <1>1, <1>2, <1>6 DEF KeptOf
<1>11. KeptOf(a, q, Append(t, x)) = d \o Append(c, x.pos)
  BY <1>1, <1>2, <1>6, PositionsAppend DEF KeptOf
<1> QED BY <1>7, <1>8, <1>9, <1>10, <1>11

\* ... a tag on its way from the buffer to the player and from there to the socket keeps its place, ...
LEMMA KeptHandedOver ==
  ASSUME NEW a \in Seq(Nat), NEW t \in Seq(MP!TagType), t # <<>>
  PROVE  KeptOf(a, <<Head(t)>>, Tail(t)) = KeptOf(a, <<>>, t)
<1>1. /\ Head(t) \in MP!TagType /\ Tail(t) \in Seq(MP!TagType)
      /\ MP!Positions(t) = <<Head(t).pos>> \o MP!Positions(Tail(t))
  BY PositionsFront
<1>2. MP!Positions(<<Head(t)>>) = <<Head(t).pos>> /\ Head(t).pos \in Nat
  BY <1>1, PositionsOne
<1>3. PICK e \in Seq(Nat) : e = <<Head(t).pos>>
  <2>1. PICK n \in Nat : n = Head(t).pos
    BY <1>2
  <2>2. <<n>> \in Seq(Nat)
    OBVIOUS
  <2> QED BY <2>1, <2>2
<1>4. PICK c \in Seq(Nat) : c = MP!Positions(Tail(t))
  BY <1>1, PositionsType
<1>5. (a \o e) \o c = a \o (e \o c)
  BY ConcatNat
<1>6. a \o <<>> = a
  BY ConcatEmptySeq
<1>7. KeptOf(a, <<Head(t)>>, Tail(t)) = (a \o e) \o c
  BY <1>2, <1>3, <1>4 DEF KeptOf
<1>8. KeptOf(a, <<>>, t) = a \o (e \o c)
  BY <1>1, <1>3, <1>4, <1>6, PositionsEmpty DEF KeptOf
<1> QED BY <1>5, <1>7, <1>8

LEMMA KeptSent ==
  ASSUME NEW a \in Seq(Nat), NEW x \in MP!TagType, NEW t \in Seq(MP!TagType)
  PROVE  KeptOf(Append(a, x.pos), <<>>, t) = KeptOf(a, <<x>>, t)
<1>1. MP!Positions(<<x>>) = <<x.pos>> /\ x.pos \in Nat
  BY PositionsOne
<1>2. Append(a, x.pos) = a \o <<x.pos>> /\ Append(a, x.pos) \in Seq(Nat)
  BY <1>1, AppendIsConcat, AppendProperties
<1>3. Append(a, x.pos) \o <<>> = Append(a, x.pos)
  BY <1>2, ConcatEmptySeq
<1> QED BY <1>1, <1>2, <1>3, PositionsEmpty DEF KeptOf

\* ... and one whose send fails is taken out of the middle.
LEMMA KeptLost ==
  ASSUME NEW a \in Seq(Nat), NEW x \in MP!TagType, NEW t \in Seq(MP!TagType)
  PROVE  /\ KeptOf(a, <<>>, t) \in Seq(Nat) /\ KeptOf(a, <<x>>, t) \in Seq(Nat)
         /\ Len(KeptOf(a, <<x>>, t)) = Len(KeptOf(a, <<>>, t)) + 1
         /\ \A i \in 1..Len(KeptOf(a, <<>>, t)) :
              KeptOf(a, <<>>, t)[i] = KeptOf(a, <<x>>, t)[IF i <= Len(a) THEN i ELSE i + 1]
<1>1. PICK c \in Seq(Nat) : c = MP!Positions(t)
  BY PositionsType
<1>2. MP!Positions(<<x>>) = <<x.pos>> /\ x.pos \in Nat
  BY PositionsOne
<1>3. Append(a, x.pos) = a \o <<x.pos>> /\ a \o <<>> = a
  BY <1>2, AppendIsConcat, ConcatEmptySeq
<1>4. KeptOf(a, <<x>>, t) = Append(a, x.pos) \o c /\ KeptOf(a, <<>>, t) = a \o c
  BY <1>1, <1>2, <1>3, PositionsEmpty DEF KeptOf
<1>5. PICK d : d = Append(a, x.pos)
  OBVIOUS
<1>6. d \in Seq(Nat) /\ Len(d) = Len(a) + 1 /\ \A i \in 1..Len(a) : d[i] = a[i]
  BY <1>2, <1>5, AppendProperties
<1>7. Len(a) \in Nat /\ Len(c) \in Nat
  BY LenProperties
<1>8. /\ a \o c \in Seq(Nat) /\ Len(a \o c) = Len(a) + Len(c)
      /\ \A i \in 1..(Len(a) + Len(c)) : (a \o c)[i] = IF i <= Len(a) THEN a[i] ELSE c[i - Len(a)]
  BY ConcatProperties
<1>9. /\ d \o c \in Seq(Nat) /\ Len(d \o c) = Len(d) + Len(c)
      /\ \A i \in 1..(Len(d) + Len(c)) : (d \o c)[i] = IF i <= Len(d) THEN d[i] ELSE c[i - Len(d)]
  BY <1>6, ConcatProperties
<1>10. ASSUME NEW i \in 1..(Len(a) + Len(c))
       PROVE  (a \o c)[i] = (d \o c)[IF i <= Len(a) THEN i ELSE i + 1]
  <2>1. CASE i <= Len(a)
    <3>1. i \in 1..(Len(d) + Len(c)) /\ i <= Len(d) /\ i \in 1..Len(a)
      BY <1>6, <1>7, <2>1
    <3> QED BY <1>6, <1>8, <1>9, <2>1, <3>1
  <2>2. CASE ~(i <= Len(a))
    <3>1. i + 1 \in 1..(Len(d) + Len(c)) /\ ~(i + 1 <= Len(d)) /\ (i + 1) - Len(d) = i - Len(a)
      BY <1>6, <1>7, <2>2
    <3> QED BY <1>8, <1>9, <2>2, <3>1
  <2> QED BY <2>1, <2>2
<1>11. PICK k : k = KeptOf(a, <<x>>, t)
  OBVIOUS
<1>12. PICK l : l = KeptOf(a, <<>>, t)
  OBVIOUS
<1>13. k = d \o c /\ l = a \o c
  BY <1>4, <1>5, <1>11, <1>12
<1>14. k \in Seq(Nat) /\ l \in Seq(Nat) /\ Len(k) = Len(l) + 1
  BY <1>6, <1>7, <1>8, <1>9, <1>13
<1>15. \A i \in 1..Len(l) : l[i] = k[IF i <= Len(a) THEN i ELSE i + 1]
  BY <1>8, <1>10, <1>13
<1> QED BY <1>11, <1>12, <1>14, <1>15

\* The positions in k are those up to m less D, in increasing order.
Rising(k, m) ==
  /\ \A i \in DOMAIN k : k[i] \in 1..m
  /\ \A i, j \in DOMAIN k : i < j => k[i] < k[j]
Values(k) == {k[i] : i \in DOMAIN k}

LEMMA RisingAppend ==
  ASSUME NEW k \in Seq(Nat), NEW m \in Nat, Rising(k, m)
  PROVE  Rising(Append(k, m + 1), m + 1) /\ Values(Append(k, m + 1)) = Values(k) \cup {m + 1}
<1> DEFINE n == Len(k)
           l == Append(k, m + 1)
<1>1. /\ l \in Seq(Nat) /\ Len(l) = n + 1 /\ l[n + 1] = m + 1 /\ \A i \in 1..n : l[i] = k[i]
  BY AppendProperties
<1>2. n \in Nat /\ DOMAIN k = 1..n /\ DOMAIN l = 1..(n + 1)
  BY <1>1, LenProperties
<1> HIDE DEF n, l
<1>3. Rising(l, m + 1)
  BY <1>1, <1>2, SMTT(30) DEF Rising
<1>4. Values(l) = Values(k) \cup {m + 1}
  BY <1>1, <1>2 DEF Values
<1> QED BY <1>3, <1>4 DEF l

----------------------------------------------------------------------------
(* The invariant.                                                          *)

Playing == {"none", "new", "get", "send"}

KeptOK(s) ==
  /\ Rising(MP!Kept(s), offered[s])
  /\ player[s] \in Playing => Values(MP!Kept(s)) = (1..offered[s]) \ dropped[s]

\* A viewer's buffer is offered exactly what the hub sends on the channel, accounts for
\* what it holds, and hands it to the player, which sends one tag at a time.
ViewerInv(s) ==
  /\ Sums(tags[s], size[s]) /\ (tags[s] # <<>> => size[s] < MaxSize)
  /\ Len(cur[s]) = IF player[s] = "send" THEN 1 ELSE 0
  /\ offered[s] = Len(received[s])
  /\ dropped[s] \subseteq 1..offered[s]
  /\ KeptOK(s)

\* Only tags that have a size are published.
KindsInv ==
  /\ \A p \in Publishers : pub[p] \in Kinds \cup {Idle}
  /\ \A n \in Tags : published[n] \in Kinds

PipelineInv == HubInv /\ MP!TypeOK /\ KindsInv /\ \A s \in Viewers : ViewerInv(s)

\* The steps of one viewer that are nothing to what another keeps, or to its own.
LEMMA ViewerQuiet ==
  ASSUME NEW s \in Viewers, ViewerInv(s), received'[s] = received[s], tags'[s] = tags[s], size'[s] = size[s],
         cur'[s] = cur[s], offered'[s] = offered[s], dropped'[s] = dropped[s], sent'[s] = sent[s],
         (player'[s] = "send") = (player[s] = "send"), player'[s] \in Playing => player[s] \in Playing
  PROVE  ViewerInv(s)'
<1>1. MP!Kept(s)' = MP!Kept(s)
  BY DEF MP!Kept, MP!Positions
<1>2. KeptOK(s)'
  BY <1>1 DEF ViewerInv, KeptOK, Rising, Values
<1> QED BY <1>2 DEF ViewerInv, Sums, PrefixSums

\* What a viewer's variables are, for the lemmas above.
LEMMA ViewerTypes ==
  ASSUME MP!TypeOK, NEW s \in Viewers
  PROVE  /\ sent[s] \in Seq(Nat) /\ cur[s] \in Seq(MP!TagType) /\ tags[s] \in Seq(MP!TagType)
         /\ offered[s] \in Nat /\ size[s] \in Nat /\ dropped[s] \subseteq Nat /\ player[s] \in MP!PlayerStates
         /\ MP!Kept(s) = KeptOf(sent[s], cur[s], tags[s])
  BY DEF MP!TypeOK, MP!Kept, KeptOf

\* A tag is offered to the buffer.
LEMMA ViewerPush ==
  ASSUME MP!TypeOK, NEW s \in Viewers, ViewerInv(s), NEW z \in Nat, MP!Push(s, z),
         Len(received'[s]) = Len(received[s]) + 1
  PROVE  ViewerInv(s)'
<1> DEFINE x == [pos |-> offered[s] + 1, size |-> z]
<1>1. /\ sent'[s] = sent[s] /\ cur'[s] = cur[s] /\ player'[s] = player[s] /\ offered'[s] = offered[s] + 1
      /\ \/ /\ MP!Fits(s, z) /\ tags'[s] = Append(tags[s], x) /\ size'[s] = size[s] + z /\ dropped'[s] = dropped[s]
         \/ /\ tags'[s] = tags[s] /\ size'[s] = size[s] /\ dropped'[s] = dropped[s] \cup {offered[s] + 1}
  BY DEF MP!Push, MP!TypeOK, MP!playerLoop, MP!Grown
<1>2. PICK a, q, t, m : a = sent[s] /\ q = cur[s] /\ t = tags[s] /\ m = offered[s]
  OBVIOUS
<1>3. /\ a \in Seq(Nat) /\ q \in Seq(MP!TagType) /\ t \in Seq(MP!TagType) /\ m \in Nat /\ size[s] \in Nat
      /\ MP!Kept(s) = KeptOf(a, q, t) /\ x \in MP!TagType /\ x.pos = m + 1 /\ x.size = z
  BY <1>2, ViewerTypes DEF MP!TagType
<1>4. PICK k : k = KeptOf(a, q, t)
  OBVIOUS
<1> HIDE DEF x
<1>5. k \in Seq(Nat) /\ KeptOf(a, q, Append(t, x)) = Append(k, m + 1)
  <2>1. KeptOf(a, q, t) \in Seq(Nat) /\ KeptOf(a, q, Append(t, x)) = Append(KeptOf(a, q, t), x.pos)
    BY <1>3, KeptPushed
  <2> QED BY <1>3, <1>4, <2>1
<1>6. MP!Kept(s)' = KeptOf(a, q, tags'[s])
  BY <1>1, <1>2 DEF MP!Kept, KeptOf, MP!Positions
<1>7. Rising(k, m) /\ (player[s] \in Playing => Values(k) = (1..m) \ dropped[s]) /\ dropped[s] \subseteq 1..m
  BY <1>2, <1>3, <1>4 DEF ViewerInv, KeptOK
<1>8. Sums(t, size[s]) /\ Len(cur'[s]) = IF player'[s] = "send" THEN 1 ELSE 0
  BY <1>1, <1>2 DEF ViewerInv
<1>9. offered'[s] = Len(received'[s])
  BY <1>1 DEF ViewerInv
<1>10. CASE MP!Fits(s, z) /\ tags'[s] = Append(tags[s], x) /\ size'[s] = size[s] + z /\ dropped'[s] = dropped[s]
  <2>1. Sums(Append(t, x), size[s] + x.size)
    BY <1>3, <1>8, SumsAppend
  <2>2. Sums(tags[s], size[s])' /\ (tags'[s] # <<>> => size'[s] < MaxSize)
    BY <1>2, <1>3, <1>10, <2>1 DEF MP!Fits, Sums, PrefixSums
  <2>3. Rising(Append(k, m + 1), m + 1) /\ Values(Append(k, m + 1)) = Values(k) \cup {m + 1}
    BY <1>3, <1>5, <1>7, RisingAppend
  <2>4. MP!Kept(s)' = Append(k, m + 1) /\ offered'[s] = m + 1
    BY <1>1, <1>2, <1>5, <1>6, <1>10
  <2>5. (1..(m + 1)) \ dropped[s] = ((1..m) \ dropped[s]) \cup {m + 1}
    BY <1>3, <1>7
  <2>6. KeptOK(s)'
    BY <1>1, <1>7, <1>10, <2>3, <2>4, <2>5 DEF KeptOK, Rising, Values
  <2>7. dropped'[s] \subseteq 1..offered'[s]
    BY <1>3, <1>7, <1>10, <2>4
  <2> QED BY <1>8, <1>9, <2>2, <2>6, <2>7 DEF ViewerInv
<1>11. CASE tags'[s] = tags[s] /\ size'[s] = size[s] /\ dropped'[s] = dropped[s] \cup {offered[s] + 1}
  <2>1. MP!Kept(s)' = k /\ offered'[s] = m + 1 /\ dropped'[s] = dropped[s] \cup {m + 1}
    BY <1>1, <1>2, <1>4, <1>6, <1>11
  <2>2. Rising(k, m + 1)
    BY <1>3, <1>7 DEF Rising
  <2>3. (1..(m + 1)) \ (dropped[s] \cup {m + 1}) = (1..m) \ dropped[s]
    BY <1>3
  <2>4. KeptOK(s)'
    BY <1>1, <1>7, <2>1, <2>2, <2>3 DEF KeptOK, Rising, Values
  <2>5. dropped'[s] \subseteq 1..offered'[s]
    BY <1>3, <1>7, <2>1
  <2>6. Sums(tags[s], size[s])' /\ (tags'[s] # <<>> => size'[s] < MaxSize)
    BY <1>11 DEF ViewerInv, Sums, PrefixSums
  <2> QED BY <1>8, <1>9, <2>4, <2>5, <2>6 DEF ViewerInv
<1> QED BY <1>1, <1>10, <1>11

\* The buffer's front tag goes to the player.
LEMMA ViewerHandOver ==
  ASSUME MP!TypeOK, NEW s \in Viewers, ViewerInv(s), MP!HandOver(s), received'[s] = received[s]
  PROVE  ViewerInv(s)' /\ Head(tags[s]).size <= size[s] /\ Head(tags[s]) \in MP!TagType /\ Tail(tags[s]) \in Seq(MP!TagType)
<1>1. /\ tags[s] # <<>> /\ player[s] = "get" /\ player'[s] = "send" /\ cur'[s] = <<Head(tags[s])>>
      /\ tags'[s] = Tail(tags[s]) /\ size'[s] = size[s] - Head(tags[s]).size
      /\ sent'[s] = sent[s] /\ offered'[s] = offered[s] /\ dropped'[s] = dropped[s]
  BY DEF MP!HandOver, MP!TypeOK, MP!Waiting, MP!Front, MP!Remaining
<1>2. PICK a, t, z : a = sent[s] /\ t = tags[s] /\ z = size[s]
  OBVIOUS
<1>3. /\ a \in Seq(Nat) /\ t \in Seq(MP!TagType) /\ t # <<>> /\ z \in Nat /\ Sums(t, z) /\ z < MaxSize
      /\ cur[s] \in Seq(MP!TagType) /\ Len(cur[s]) = 0 /\ MP!Kept(s) = KeptOf(a, cur[s], t)
  BY <1>1, <1>2, ViewerTypes DEF ViewerInv
<1>4. cur[s] = <<>>
  BY <1>3, EmptySeq
<1>5. Head(t).size <= z /\ Sums(Tail(t), z - Head(t).size)
  BY <1>3, SumsTail
<1>6. KeptOf(a, <<Head(t)>>, Tail(t)) = KeptOf(a, <<>>, t)
  BY <1>3, KeptHandedOver
<1>7. MP!Kept(s)' = KeptOf(a, <<Head(t)>>, Tail(t))
  BY <1>1, <1>2 DEF MP!Kept, KeptOf, MP!Positions
<1>8. MP!Kept(s)' = MP!Kept(s)
  BY <1>3, <1>4, <1>6, <1>7
<1>9. KeptOK(s)'
  BY <1>1, <1>8 DEF ViewerInv, KeptOK, Rising, Values, Playing
<1>10. Head(t) \in MP!TagType /\ Tail(t) \in Seq(MP!TagType) /\ Head(t).size \in Nat
  <2>1. Head(t) \in MP!TagType /\ Tail(t) \in Seq(MP!TagType)
    BY <1>3, HeadTailProperties
  <2> QED BY <2>1 DEF MP!TagType
<1>11. Sums(tags[s], size[s])' /\ (tags'[s] # <<>> => size'[s] < MaxSize)
  <2>1. z - Head(t).size < MaxSize
    BY <1>3, <1>5, <1>10, MediaPipelineAssumption
  <2> QED BY <1>1, <1>2, <1>5, <2>1 DEF Sums, PrefixSums
<1>12. Len(cur'[s]) = 1
  BY <1>1
<1>13. offered'[s] = Len(received'[s]) /\ dropped'[s] \subseteq 1..offered'[s]
  BY <1>1 DEF ViewerInv
<1>14. ViewerInv(s)'
  BY <1>1, <1>9, <1>11, <1>12, <1>13 DEF ViewerInv
<1> QED BY <1>2, <1>5, <1>10, <1>14

\* The player's Send returns, with or without an error.
LEMMA ViewerSends ==
  ASSUME MP!TypeOK, NEW s \in Viewers, ViewerInv(s), MP!SendReturns(s) \/ MP!SendFails(s), received'[s] = received[s]
  PROVE  ViewerInv(s)' /\ cur[s][1].pos \in Nat
<1>1. /\ player[s] = "send" /\ cur'[s] = <<>> /\ tags'[s] = tags[s] /\ size'[s] = size[s]
      /\ offered'[s] = offered[s] /\ dropped'[s] = dropped[s]
      /\ \/ player'[s] = "get" /\ sent'[s] = Append(sent[s], cur[s][1].pos)
         \/ player'[s] = "exit" /\ sent'[s] = sent[s]
  BY DEF MP!SendReturns, MP!SendFails, MP!TypeOK, MP!bufferVars
<1>2. PICK a, t, q, m : a = sent[s] /\ t = tags[s] /\ q = cur[s] /\ m = offered[s]
  OBVIOUS
<1>3. /\ a \in Seq(Nat) /\ t \in Seq(MP!TagType) /\ q \in Seq(MP!TagType) /\ Len(q) = 1 /\ m \in Nat
      /\ MP!Kept(s) = KeptOf(a, q, t)
  BY <1>1, <1>2, ViewerTypes DEF ViewerInv
<1>4. PICK x \in MP!TagType : q = <<x>>
  <2>1. 1 \in 1..Len(q)
    BY <1>3
  <2>2. q[1] \in MP!TagType
    BY <1>3, <2>1, TagParts
  <2>3. q = <<q[1]>>
    <3>1. <<q[1]>> \in Seq(MP!TagType) /\ Len(<<q[1]>>) = 1 /\ \A i \in 1..1 : <<q[1]>>[i] = q[i]
      BY <2>2
    <3> QED BY <1>3, <3>1, SeqEqual
  <2> QED BY <2>2, <2>3
<1>5. x.pos \in Nat /\ cur[s][1] = x
  BY <1>2, <1>4 DEF MP!TagType
<1>6. PICK k : k = MP!Kept(s)
  OBVIOUS
<1>7. Rising(k, m) /\ (player[s] \in Playing => Values(k) = (1..m) \ dropped[s])
  BY <1>2, <1>6 DEF ViewerInv, KeptOK
<1>8. MP!Kept(s)' = KeptOf(sent'[s], <<>>, t)
  BY <1>1, <1>2 DEF MP!Kept, KeptOf, MP!Positions
<1>9. ASSUME player'[s] = "get", sent'[s] = Append(sent[s], cur[s][1].pos) PROVE KeptOK(s)'
  <2>1. KeptOf(Append(a, x.pos), <<>>, t) = KeptOf(a, <<x>>, t)
    BY <1>3, KeptSent
  <2>2. MP!Kept(s)' = k
    BY <1>2, <1>3, <1>4, <1>5, <1>6, <1>8, <1>9, <2>1
  <2> QED BY <1>1, <1>2, <1>7, <1>9, <2>2 DEF KeptOK, Playing, Rising, Values
<1>10. ASSUME player'[s] = "exit", sent'[s] = sent[s] PROVE KeptOK(s)'
  <2>1. PICK l : l = KeptOf(a, <<>>, t)
    OBVIOUS
  <2>2. /\ l \in Seq(Nat) /\ k \in Seq(Nat) /\ Len(k) = Len(l) + 1
        /\ \A i \in 1..Len(l) : l[i] = k[IF i <= Len(a) THEN i ELSE i + 1]
    <3>1. PICK b : b = KeptOf(a, <<x>>, t)
      OBVIOUS
    <3>2. k = b
      BY <1>3, <1>4, <1>6, <3>1
    <3>3. /\ l \in Seq(Nat) /\ b \in Seq(Nat) /\ Len(b) = Len(l) + 1
          /\ \A i \in 1..Len(l) : l[i] = b[IF i <= Len(a) THEN i ELSE i + 1]
      BY <1>3, <2>1, <3>1, KeptLost
    <3> QED BY <3>2, <3>3
  <2>3. DOMAIN l = 1..Len(l) /\ DOMAIN k = 1..(Len(l) + 1) /\ Len(l) \in Nat /\ Len(a) \in Nat
    BY <1>3, <2>2, LenProperties
  <2>4. Rising(l, m)
    <3> DEFINE old(i) == IF i <= Len(a) THEN i ELSE i + 1
    <3>1. \A i \in 1..Len(l) : old(i) \in DOMAIN k /\ l[i] = k[old(i)]
      BY <2>2, <2>3
    <3>2. \A i, j \in 1..Len(l) : i < j => old(i) < old(j)
      BY <2>3
    <3>3. /\ \A i \in DOMAIN k : k[i] \in 1..m
          /\ \A i, j \in DOMAIN k : i < j => k[i] < k[j]
      BY <1>7 DEF Rising
    <3> HIDE DEF old
    <3>4. \A i \in 1..Len(l) : l[i] \in 1..m
      BY <3>1, <3>3
    <3>5. \A i, j \in 1..Len(l) : i < j => l[i] < l[j]
      BY <3>1, <3>2, <3>3
    <3> QED BY <2>3, <3>4, <3>5 DEF Rising
  <2>5. MP!Kept(s)' = l
    BY <1>2, <1>8, <1>10, <2>1
  <2> QED BY <1>1, <1>2, <1>10, <2>4, <2>5 DEF KeptOK, Playing, Rising, Values
<1>11. KeptOK(s)'
  BY <1>1, <1>9, <1>10 DEF KeptOK
<1>12. Sums(tags[s], size[s])' /\ (tags'[s] # <<>> => size'[s] < MaxSize)
  BY <1>1 DEF ViewerInv, Sums, PrefixSums
<1>13. Len(cur'[s]) = 0 /\ player'[s] # "send"
  BY <1>1, EmptySeq
<1>14. offered'[s] = Len(received'[s]) /\ dropped'[s] \subseteq 1..offered'[s]
  BY <1>1 DEF ViewerInv
<1>15. ViewerInv(s)'
  BY <1>11, <1>12, <1>13, <1>14 DEF ViewerInv
<1> QED BY <1>5, <1>15

\* The steps of the buffers and players keep their types.
LEMMA PlayersType ==
  ASSUME MP!TypeOK, NEW s \in Viewers,
         \/ \E z \in Nat : MP!Push(s, z)
         \/ MP!NewPlayer(s) \/ MP!EndOfStream(s) \/ MP!Start(s) \/ MP!GetClosed(s) \/ MP!Unsubscribed(s)
         \/ /\ MP!HandOver(s) /\ Head(tags[s]).size <= size[s]
            /\ Head(tags[s]) \in MP!TagType /\ Tail(tags[s]) \in Seq(MP!TagType)
         \/ (MP!SendReturns(s) \/ MP!SendFails(s)) /\ cur[s][1].pos \in Nat
  PROVE  MP!TypeOK'
<1>1. ASSUME NEW z \in Nat, MP!Push(s, z) PROVE MP!TypeOK'
  <2>1. [pos |-> offered[s] + 1, size |-> z] \in MP!TagType
    BY DEF MP!TypeOK, MP!TagType
  <2>2. PICK x \in MP!TagType : x = [pos |-> offered[s] + 1, size |-> z]
    BY <2>1
  <2>3. Append(tags[s], x) \in Seq(MP!TagType)
    BY AppendProperties DEF MP!TypeOK
  <2>4. tags' \in [Viewers -> Seq(MP!TagType)] /\ size' \in [Viewers -> Nat] /\ dropped' \in [Viewers -> SUBSET Nat]
    <3>1. size[s] + z \in Nat /\ dropped[s] \cup {offered[s] + 1} \in SUBSET Nat
      BY DEF MP!TypeOK
    <3>2. \/ /\ tags' = [tags EXCEPT ![s] = Append(tags[s], x)] /\ size' = [size EXCEPT ![s] = size[s] + z]
             /\ dropped' = dropped
          \/ /\ tags' = tags /\ size' = size
             /\ dropped' = [dropped EXCEPT ![s] = dropped[s] \cup {offered[s] + 1}]
      BY <1>1, <2>2 DEF MP!Push, MP!Grown
    <3> QED BY <2>3, <3>1, <3>2 DEF MP!TypeOK
  <2> QED BY <1>1, <2>4, SMTT(30) DEF MP!Push, MP!TypeOK, MP!playerLoop
<1>2. CASE MP!NewPlayer(s) \/ MP!EndOfStream(s) \/ MP!Start(s) \/ MP!GetClosed(s) \/ MP!Unsubscribed(s)
  BY <1>2 DEF MP!NewPlayer, MP!EndOfStream, MP!Start, MP!GetClosed, MP!Unsubscribed, MP!TypeOK, MP!PlayerStates,
     MP!playerLoop, MP!bufferVars
<1>3. CASE /\ MP!HandOver(s) /\ Head(tags[s]).size <= size[s]
           /\ Head(tags[s]) \in MP!TagType /\ Tail(tags[s]) \in Seq(MP!TagType)
  <2>1. PICK x \in MP!TagType : x = Head(tags[s])
    BY <1>3
  <2>2. <<x>> \in Seq(MP!TagType) /\ x.size \in Nat
    BY DEF MP!TagType
  <2>3. size[s] - x.size \in Nat
    BY <1>3, <2>1, <2>2 DEF MP!TypeOK
  <2>4. size' \in [Viewers -> Nat] /\ cur' \in [Viewers -> Seq(MP!TagType)]
    BY <1>3, <2>1, <2>2, <2>3 DEF MP!HandOver, MP!Front, MP!Remaining, MP!TypeOK
  <2>5. tags' \in [Viewers -> Seq(MP!TagType)] /\ player' \in [Viewers -> MP!PlayerStates]
    BY <1>3 DEF MP!HandOver, MP!TypeOK, MP!PlayerStates
  <2> QED BY <1>3, <2>4, <2>5 DEF MP!HandOver, MP!TypeOK
<1>4. CASE (MP!SendReturns(s) \/ MP!SendFails(s)) /\ cur[s][1].pos \in Nat
  <2>1. PICK n \in Nat : n = cur[s][1].pos
    BY <1>4
  <2>2. Append(sent[s], n) \in Seq(Nat)
    BY AppendProperties DEF MP!TypeOK
  <2>3. sent' \in [Viewers -> Seq(Nat)]
    BY <1>4, <2>1, <2>2 DEF MP!SendReturns, MP!SendFails, MP!TypeOK
  <2>4. cur' \in [Viewers -> Seq(MP!TagType)]
    <3>1. <<>> \in Seq(MP!TagType)
      BY EmptySeq
    <3> QED BY <1>4, <3>1 DEF MP!SendReturns, MP!SendFails, MP!TypeOK
  <2> QED BY <1>4, <2>3, <2>4 DEF MP!SendReturns, MP!SendFails, MP!TypeOK, MP!PlayerStates, MP!bufferVars
<1> QED BY <1>1, <1>2, <1>3, <1>4

\* The hub takes a step of its own, or the one with which a watcher ends.
LEMMA HubStep ==
  ASSUME HubInv, Next \/ UNCHANGED vars \/ \E s \in Watchers : WatchEnds(s)
  PROVE  HubInv'
<1>1. CASE Next \/ UNCHANGED vars
  BY <1>1, TypeStep, LoopStep, HistoryStep DEF HubInv
<1>2. ASSUME NEW s \in Watchers, WatchEnds(s) PROVE HubInv'
  <2>1. /\ s \in Subs /\ ByReader \in Closers /\ sub[s] = "open" /\ Closed(s)
        /\ sub' = [sub EXCEPT ![s] = "ended"] /\ unsub' = unsub \cup {<<s, ByReader>>}
        /\ UNCHANGED <<pub, done, loopVars, closes, historyVars>>
    BY <1>2, MediaPipelineAssumption DEF WatchEnds
  <2>2. s \notin subs
    BY <2>1 DEF HubInv, LoopInv, TypeOK, Closed
  <2>3. TypeOK'
    BY <2>1 DEF HubInv, TypeOK, SubStates, loopVars, historyVars, Tags
  <2>4. LoopInv'
    BY <2>1, <2>2 DEF HubInv, LoopInv, TypeOK, loopVars, historyVars, Closed
  <2>5. HistoryInv'
    BY <2>1, HistoryQuiet DEF HubInv, TypeOK, loopVars, historyVars
  <2> QED BY <2>3, <2>4, <2>5 DEF HubInv
<1> QED BY <1>1, <1>2

\* Every tag the loop receives was offered by CallPublish.
LEMMA KindsStep ==
  ASSUME TypeOK, KindsInv,
         \/ UNCHANGED <<pub, published>>
         \/ \E p \in Publishers : PublishClosed(p) \/ ReceiveTag(p) \/ \E k \in Kinds : CallPublish(p, k)
  PROVE  KindsInv'
<1>1. CASE UNCHANGED <<pub, published>>
  BY <1>1 DEF KindsInv, Tags
<1>2. ASSUME NEW p \in Publishers, PublishClosed(p) \/ \E k \in Kinds : CallPublish(p, k) PROVE KindsInv'
  BY <1>2 DEF PublishClosed, CallPublish, KindsInv, Tags, TypeOK, historyVars
<1>3. ASSUME NEW p \in Publishers, ReceiveTag(p) PROVE KindsInv'
  <2>1. pub[p] \in Kinds /\ pub[p] \in AllKinds /\ published' = Append(published, pub[p])
    BY <1>3, MediaStreamAssumption DEF ReceiveTag, KindsInv
  <2>2. PICK k \in AllKinds : k = pub[p]
    BY <2>1
  <2>3. Tags' = 1..(Newest + 1) /\ published'[Newest + 1] = k /\ \A m \in Tags : published'[m] = published[m]
    BY <2>1, <2>2, LogGrows
  <2>4. Newest \in Nat /\ Tags = 1..Newest
    BY HubTypes
  <2>5. \A n \in Tags' : published'[n] \in Kinds
    <3> SUFFICES ASSUME NEW n \in 1..(Newest + 1) PROVE published'[n] \in Kinds
      BY <2>3
    <3>1. CASE n = Newest + 1
      BY <2>1, <2>2, <2>3, <3>1
    <3>2. CASE n # Newest + 1
      <4>1. n \in Tags
        BY <2>4, <3>2
      <4> QED BY <2>3, <4>1 DEF KindsInv
    <3> QED BY <3>1, <3>2
  <2>6. \A r \in Publishers : pub'[r] \in Kinds \cup {Idle}
    BY <1>3 DEF ReceiveTag, KindsInv, TypeOK
  <2> QED BY <2>5, <2>6 DEF KindsInv
<1> QED BY <1>1, <1>2, <1>3

\* The steps of the hub that send nothing.
LEMMA NothingSent ==
  ASSUME Hub \/ (\E s \in Subs : ReceiveSub(s)) \/ (\E s \in Subs : ReaderEnds(s))
         \/ (\E s \in Subs, c \in Closers : CallUnsubscribe(s, c)) \/ (\E s \in Watchers : WatchEnds(s))
         \/ UNCHANGED vars
  PROVE  received' = received
  BY DEF Hub, CallPublish, PublishClosed, ReceiveTag, CallSubscribe, SubscribeClosed, UnsubscribeClosed, ReceiveUnsub,
     Close, Exit, ReceiveSub, ReaderEnds, CallUnsubscribe, WatchEnds, historyVars, vars

LEMMA PipelineStart == PipelineInit => PipelineInv
<1> SUFFICES ASSUME PipelineInit PROVE PipelineInv
  OBVIOUS
<1>1. HubInv
  BY TypeInit, LoopInit, HistoryInit DEF PipelineInit, HubInv
<1>2. MP!TypeOK
  <2>1. <<>> \in Seq(MP!TagType) /\ <<>> \in Seq(Nat)
    BY EmptySeq
  <2> QED BY <2>1 DEF PipelineInit, MP!Init, MP!TypeOK, MP!PlayerStates
<1>3. KindsInv
  <2>1. Tags = {}
    BY EmptySeq DEF PipelineInit, Init, Tags
  <2> QED BY <2>1 DEF PipelineInit, Init, KindsInv
<1>4. ASSUME NEW s \in Viewers PROVE ViewerInv(s)
  <2>1. /\ tags[s] = <<>> /\ size[s] = 0 /\ player[s] = "none" /\ cur[s] = <<>> /\ offered[s] = 0
        /\ dropped[s] = {} /\ sent[s] = <<>> /\ received[s] = <<>>
    BY DEF PipelineInit, Init, MP!Init, Viewers
  <2>2. <<>> \in Seq(Nat) /\ Len(<<>>) = 0
    BY EmptySeq
  <2>3. MP!Kept(s) = <<>>
    <3>1. <<>> \o <<>> = <<>>
      BY <2>2, ConcatEmptySeq
    <3> QED BY <2>1, <3>1, PositionsEmpty DEF MP!Kept
  <2>4. DOMAIN MP!Kept(s) = {}
    BY <2>2, <2>3, LenProperties
  <2>5. KeptOK(s)
    BY <2>1, <2>4 DEF KeptOK, Rising, Values
  <2>6. Sums(tags[s], size[s])
    BY <2>1, SumsEmpty
  <2> QED BY <2>1, <2>2, <2>5, <2>6 DEF ViewerInv
<1> QED BY <1>1, <1>2, <1>3, <1>4 DEF PipelineInv

\* A viewer is none of the others, and a watcher has no buffer.
LEMMA RestQuiet ==
  ASSUME PipelineInv, UNCHANGED playerVars, \A s \in Viewers : received'[s] = received[s]
  PROVE  MP!TypeOK' /\ \A s \in Viewers : ViewerInv(s)'
<1>1. UNCHANGED <<buf, tags, size, player, cur, offered, dropped, sent>>
  BY DEF playerVars
<1>2. MP!TypeOK'
  BY <1>1 DEF PipelineInv, MP!TypeOK
<1>3. ASSUME NEW s \in Viewers PROVE ViewerInv(s)'
  BY <1>1, ViewerQuiet DEF PipelineInv
<1> QED BY <1>2, <1>3

LEMMA OthersQuiet ==
  ASSUME PipelineInv, NEW s \in Viewers,
         \/ \E z \in Nat : MP!Push(s, z)
         \/ MP!NewPlayer(s) \/ MP!EndOfStream(s) \/ MP!Start(s) \/ MP!GetClosed(s) \/ MP!Unsubscribed(s)
         \/ MP!HandOver(s) \/ MP!SendReturns(s) \/ MP!SendFails(s),
         \A r \in Viewers : r # s => received'[r] = received[r]
  PROVE  \A r \in Viewers : r # s => ViewerInv(r)'
<1> SUFFICES ASSUME NEW r \in Viewers, r # s PROVE ViewerInv(r)'
  OBVIOUS
<1> DEFINE Same == /\ tags'[r] = tags[r] /\ size'[r] = size[r] /\ cur'[r] = cur[r] /\ player'[r] = player[r]
                   /\ offered'[r] = offered[r] /\ dropped'[r] = dropped[r] /\ sent'[r] = sent[r]
<1>1. Same
  <2>1. ASSUME NEW z \in Nat, MP!Push(s, z) PROVE Same
    BY <2>1 DEF PipelineInv, MP!TypeOK, MP!Push, MP!playerLoop
  <2>2. CASE MP!NewPlayer(s) \/ MP!EndOfStream(s)
    BY <2>2 DEF PipelineInv, MP!TypeOK, MP!NewPlayer, MP!EndOfStream, MP!playerLoop, MP!bufferVars
  <2>3. CASE MP!Start(s) \/ MP!GetClosed(s) \/ MP!Unsubscribed(s)
    BY <2>3 DEF PipelineInv, MP!TypeOK, MP!Start, MP!GetClosed, MP!Unsubscribed, MP!playerLoop, MP!bufferVars
  <2>4. CASE MP!HandOver(s)
    BY <2>4 DEF PipelineInv, MP!TypeOK, MP!HandOver, MP!playerLoop, MP!bufferVars
  <2>5. CASE MP!SendReturns(s) \/ MP!SendFails(s)
    BY <2>5 DEF PipelineInv, MP!TypeOK, MP!SendReturns, MP!SendFails, MP!playerLoop, MP!bufferVars
  <2> QED BY <2>1, <2>2, <2>3, <2>4, <2>5
<1> QED BY <1>1, ViewerQuiet DEF PipelineInv

\* The viewer whose channel, buffer or player it is.
LEMMA ViewerStep ==
  ASSUME PipelineInv, NEW s \in Viewers, Viewer(s), ~ServerCloses(s)
  PROVE  MP!TypeOK' /\ ViewerInv(s)' /\ \A r \in Viewers : r # s => ViewerInv(r)'
<1>0. TypeOK /\ MP!TypeOK /\ ViewerInv(s) /\ s \in Subs /\ KindsInv /\ LoopInv
  BY DEF PipelineInv, HubInv, Viewers
<1>1. CASE Deliver(s)
  <2>1. PICK n \in Tags : /\ received' = [received EXCEPT ![s] = Append(@, n)]
                          /\ MP!Push(s, SizeOf(n))
    <3>1. CASE SendTag(s) /\ MP!Push(s, SizeOf(Len(published)))
      <4>1. Len(published) \in Tags
        BY <1>0, <3>1, HubTypes, EmptySeq DEF SendTag, LoopInv, TypeOK, Newest
      <4> QED BY <3>1, <4>1 DEF SendTag
    <3>2. CASE SendHeader(s) /\ MP!Push(s, SizeOf(Head(replay)))
      <4>1. Head(replay) \in Tags
        BY <1>0, <3>2, HeadTailProperties DEF SendHeader, TypeOK
      <4> QED BY <3>2, <4>1 DEF SendHeader
    <3> QED BY <1>1, <3>1, <3>2 DEF Deliver
  <2>2. SizeOf(n) \in Nat
    BY <1>0, MediaPipelineAssumption DEF SizeOf, KindsInv
  <2>3. PICK z \in Nat : z = SizeOf(n)
    BY <2>2
  <2>4. Len(received'[s]) = Len(received[s]) + 1 /\ \A r \in Subs : r # s => received'[r] = received[r]
    BY <1>0, <2>1, OneMore
  <2>5. MP!Push(s, z)
    BY <2>1, <2>3
  <2>6. ViewerInv(s)'
    BY <1>0, <2>4, <2>5, ViewerPush
  <2>7. MP!TypeOK'
    BY <1>0, <2>5, PlayersType
  <2>8. \A r \in Viewers : r # s => received'[r] = received[r]
    BY <2>4 DEF Viewers
  <2> QED BY <2>5, <2>6, <2>7, <2>8, OthersQuiet
<1>2. ASSUME \/ Subscribed(s) \/ ChannelClosed(s) \/ GetClosed(s) \/ Unsubscribed(s)
             \/ MP!Start(s) /\ UNCHANGED vars
      PROVE  MP!TypeOK' /\ ViewerInv(s)' /\ \A r \in Viewers : r # s => ViewerInv(r)'
  <2>1. received' = received
    BY <1>0, <1>2, NothingSent, MediaPipelineAssumption DEF Subscribed, ChannelClosed, GetClosed, Unsubscribed
  <2>2. MP!NewPlayer(s) \/ MP!EndOfStream(s) \/ MP!Start(s) \/ MP!GetClosed(s) \/ MP!Unsubscribed(s)
    BY <1>2 DEF Subscribed, ChannelClosed, GetClosed, Unsubscribed
  <2>3. MP!TypeOK'
    BY <1>0, <2>2, PlayersType
  <2>4. /\ tags'[s] = tags[s] /\ size'[s] = size[s] /\ cur'[s] = cur[s] /\ offered'[s] = offered[s]
        /\ dropped'[s] = dropped[s] /\ sent'[s] = sent[s] /\ (player'[s] = "send") = (player[s] = "send")
        /\ (player'[s] \in Playing => player[s] \in Playing)
    BY <1>0, <2>2 DEF MP!NewPlayer, MP!EndOfStream, MP!Start, MP!GetClosed, MP!Unsubscribed, MP!TypeOK,
       MP!playerLoop, MP!bufferVars, Playing
  <2>5. ViewerInv(s)'
    BY <1>0, <2>1, <2>4, ViewerQuiet
  <2> QED BY <2>1, <2>2, <2>3, <2>5, OthersQuiet
<1>3. ASSUME MP!HandOver(s), UNCHANGED vars
      PROVE  MP!TypeOK' /\ ViewerInv(s)' /\ \A r \in Viewers : r # s => ViewerInv(r)'
  <2>1. received' = received
    BY <1>3, NothingSent
  <2>2. /\ ViewerInv(s)' /\ Head(tags[s]).size <= size[s]
        /\ Head(tags[s]) \in MP!TagType /\ Tail(tags[s]) \in Seq(MP!TagType)
    BY <1>0, <1>3, <2>1, ViewerHandOver
  <2>3. MP!TypeOK'
    BY <1>0, <1>3, <2>2, PlayersType
  <2> QED BY <1>3, <2>1, <2>2, <2>3, OthersQuiet
<1>4. ASSUME SendReturns(s) \/ SendFails(s)
      PROVE  MP!TypeOK' /\ ViewerInv(s)' /\ \A r \in Viewers : r # s => ViewerInv(r)'
  <2>1. received' = received
    BY <1>0, <1>4, NothingSent, MediaPipelineAssumption DEF SendReturns, SendFails
  <2>2. MP!SendReturns(s) \/ MP!SendFails(s)
    BY <1>4 DEF SendReturns, SendFails
  <2>3. ViewerInv(s)' /\ cur[s][1].pos \in Nat
    BY <1>0, <2>1, <2>2, ViewerSends
  <2>4. MP!TypeOK'
    BY <1>0, <2>2, <2>3, PlayersType
  <2> QED BY <2>1, <2>2, <2>3, <2>4, OthersQuiet
<1>5. ASSUME PlayerRuns(s)
      PROVE  MP!TypeOK' /\ ViewerInv(s)' /\ \A r \in Viewers : r # s => ViewerInv(r)'
  <2>1. (MP!Start(s) \/ MP!HandOver(s)) /\ UNCHANGED vars
    BY <1>5 DEF PlayerRuns
  <2> QED BY <1>2, <1>3, <2>1
<1>6. \/ Deliver(s) \/ PlayerRuns(s) \/ SendReturns(s) \/ SendFails(s)
      \/ Subscribed(s) \/ ChannelClosed(s) \/ GetClosed(s) \/ Unsubscribed(s)
  BY DEF Viewer
<1>7. CASE SendReturns(s) \/ SendFails(s)
  BY <1>4, <1>7
<1>8. CASE Subscribed(s) \/ ChannelClosed(s) \/ GetClosed(s) \/ Unsubscribed(s)
  BY <1>2, <1>8
<1> QED BY <1>1, <1>5, <1>6, <1>7, <1>8

LEMMA PipelineStep == PipelineInv /\ [PipelineNext]_pipelineVars => PipelineInv'
<1> SUFFICES ASSUME PipelineInv, [PipelineNext]_pipelineVars PROVE PipelineInv'
  OBVIOUS
<1>0. TypeOK /\ KindsInv /\ HubInv /\ Viewers \subseteq Subs /\ Watchers \subseteq Subs /\ {ByReader, ByServer} = Closers
  BY MediaPipelineAssumption DEF PipelineInv, HubInv, Viewers
<1>1. CASE Hub
  <2>1. Next
    BY <1>1 DEF Hub, Next, Callers, Loop
  <2>2. KindsInv'
    BY <1>0, <1>1, KindsStep DEF Hub, CallSubscribe, SubscribeClosed, UnsubscribeClosed, ReceiveUnsub, Close, Exit,
       historyVars
  <2>3. received' = received /\ UNCHANGED playerVars
    BY <1>1, NothingSent DEF Hub, restVars
  <2>4. MP!TypeOK' /\ \A s \in Viewers : ViewerInv(s)'
    BY <2>3, RestQuiet
  <2> QED BY <1>0, <2>1, <2>2, <2>4, HubStep DEF PipelineInv
<1>2. ASSUME NEW s \in Viewers, Viewer(s) PROVE PipelineInv'
  <2>1. Next \/ UNCHANGED vars
    BY <1>0, <1>2 DEF Viewer, Subscribed, Deliver, ChannelClosed, PlayerRuns, SendReturns, SendFails, GetClosed,
       Unsubscribed, ServerCloses, Next, Callers, Loop
  <2>2. UNCHANGED <<pub, published>>
    BY <1>2 DEF Viewer, Subscribed, Deliver, ChannelClosed, PlayerRuns, SendReturns, SendFails, GetClosed,
       Unsubscribed, ServerCloses, ReceiveSub, SendTag, SendHeader, ReaderEnds, CallUnsubscribe, vars, historyVars
  <2>3. HubInv' /\ KindsInv'
    BY <1>0, <2>1, <2>2, HubStep, KindsStep
  <2>4. MP!TypeOK' /\ \A r \in Viewers : ViewerInv(r)'
    <3>1. CASE ServerCloses(s)
      <4>1. received' = received /\ UNCHANGED playerVars
        BY <1>0, <3>1, NothingSent DEF ServerCloses
      <4> QED BY <4>1, RestQuiet
    <3>2. CASE ~ServerCloses(s)
      BY <1>2, <3>2, ViewerStep
    <3> QED BY <3>1, <3>2
  <2> QED BY <2>3, <2>4 DEF PipelineInv
<1>3. ASSUME NEW s \in Watchers, StartsWatching(s) \/ Watches(s) \/ WatchEnds(s) PROVE PipelineInv'
  <2>1. Next \/ WatchEnds(s)
    BY <1>0, <1>3 DEF StartsWatching, Watches, Next, Loop
  <2>2. UNCHANGED <<pub, published>> /\ UNCHANGED playerVars
    BY <1>3 DEF StartsWatching, Watches, WatchEnds, ReceiveSub, SendTag, SendHeader, historyVars, restVars
  <2>3. HubInv' /\ KindsInv'
    BY <1>0, <2>1, <2>2, HubStep, KindsStep
  <2>4. \A r \in Viewers : received'[r] = received[r]
    <3>1. CASE StartsWatching(s) \/ WatchEnds(s)
      BY <1>0, <3>1, NothingSent DEF StartsWatching
    <3>2. CASE Watches(s)
      BY <1>0, <3>2 DEF Watches, SendTag, SendHeader, TypeOK, Viewers
    <3> QED BY <1>3, <3>1, <3>2
  <2>5. MP!TypeOK' /\ \A r \in Viewers : ViewerInv(r)'
    BY <2>2, <2>4, RestQuiet
  <2> QED BY <2>3, <2>5 DEF PipelineInv
<1>4. CASE UNCHANGED pipelineVars
  <2>1. UNCHANGED vars /\ UNCHANGED playerVars /\ UNCHANGED <<pub, published>> /\ received' = received
    BY <1>4, NothingSent DEF pipelineVars, restVars, vars, historyVars
  <2>2. HubInv' /\ KindsInv'
    BY <1>0, <2>1, HubStep, KindsStep
  <2> QED BY <2>1, <2>2, RestQuiet DEF PipelineInv
<1> QED BY <1>1, <1>2, <1>3, <1>4 DEF PipelineNext

LEMMA PipelineInvariant == PipelineSpec => []PipelineInv
BY PipelineStart, PipelineStep, PTL DEF PipelineSpec

----------------------------------------------------------------------------
(* What follows from it.                                                   *)

\* loop() of the hub, with the real readers on its channels: no panic, no send that
\* nobody receives, and viewers that start at a key frame with the header in force.
THEOREM PipelineKeepsHub ==
  PipelineSpec => [](NoChannelPanic /\ SendHasReader /\ StartsAtFirstKeyFrame /\ VideoConfigured)
<1>1. PipelineInv => NoChannelPanic /\ SendHasReader
  BY DEF PipelineInv, HubInv, LoopInv, NoChannelPanic, SendHasReader, Closed
<1>2. PipelineInv => StartsAtFirstKeyFrame /\ VideoConfigured
  BY DEF PipelineInv, HubInv, HistoryInv
<1> QED BY <1>1, <1>2, PipelineInvariant, PTL

\* A step of the pipeline is one of the hub, none of it, or the end of a watcher.
LEMMA PipelineRefines ==
  ASSUME PipelineInv, [PipelineNext]_pipelineVars
  PROVE  Broadcast!Next \/ UNCHANGED Broadcast!vars
<1>0. HubInv /\ Viewers \subseteq Subs /\ Watchers \subseteq Subs /\ {ByReader, ByServer} = Closers
  BY MediaPipelineAssumption DEF PipelineInv, Viewers
<1>1. CASE Hub
  BY <1>0, <1>1, BroadcastStep DEF Hub, Next, Callers, Loop
<1>2. ASSUME NEW s \in Viewers, Viewer(s) PROVE Broadcast!Next \/ UNCHANGED Broadcast!vars
  <2>1. Next \/ UNCHANGED vars
    BY <1>0, <1>2 DEF Viewer, Subscribed, Deliver, ChannelClosed, PlayerRuns, SendReturns, SendFails, GetClosed,
       Unsubscribed, ServerCloses, Next, Callers, Loop
  <2> QED BY <1>0, <2>1, BroadcastStep
<1>3. ASSUME NEW s \in Watchers, StartsWatching(s) \/ Watches(s) PROVE Broadcast!Next \/ UNCHANGED Broadcast!vars
  <2>1. Next
    BY <1>0, <1>3 DEF StartsWatching, Watches, Next, Loop
  <2> QED BY <1>0, <2>1, BroadcastStep
<1>4. ASSUME NEW s \in Watchers, WatchEnds(s) PROVE UNCHANGED Broadcast!vars
  BY <1>4 DEF WatchEnds, loopVars, historyVars, Broadcast!vars, Pos
<1>5. CASE UNCHANGED pipelineVars
  <2>1. UNCHANGED vars
    BY <1>5 DEF pipelineVars
  <2> QED BY <1>0, <2>1, BroadcastStep
<1> QED BY <1>1, <1>2, <1>3, <1>4, <1>5 DEF PipelineNext

\* With buffers, players and watchers in the place of readers that could be anything, and
\* a server that unsubscribes them too, the hub still implements the abstract broadcast log.
THEOREM PipelineIsBroadcast == PipelineSpec => ImplementsBroadcast
<1>1. PipelineInit => Broadcast!Init
  BY BroadcastInit DEF PipelineInit
<1> QED BY <1>1, PipelineRefines, PipelineInvariant, PTL DEF PipelineSpec, ImplementsBroadcast, Broadcast!Spec

\* mb.size is the sum of the sizes of mb.tags, and below maxSize (mediabuffer.go), however
\* pushes, drops and removals alternate.
THEOREM BudgetIsExact == PipelineSpec => []BudgetExact
<1>1. PipelineInv => BudgetExact
  <2> SUFFICES ASSUME PipelineInv, NEW s \in Viewers
               PROVE  MP!IsTotal(size[s], tags[s]) /\ (tags[s] # <<>> => size[s] < MaxSize)
    BY DEF BudgetExact, MP!BudgetExact
  <2>1. PICK q, z : q = tags[s] /\ z = size[s]
    OBVIOUS
  <2>2. q \in Seq(MP!TagType) /\ z \in Nat /\ Sums(q, z)
    BY <2>1, ViewerTypes DEF PipelineInv, ViewerInv
  <2>3. MP!IsTotal(z, q)
    BY <2>2, SumsTotal
  <2> QED BY <2>1, <2>3 DEF PipelineInv, ViewerInv
<1> QED BY <1>1, PipelineInvariant, PTL

\* mediaPlayer.loop() sends what loop() of the hub sent and mediaBuffer kept: in order, each
\* tag at most once, none missing but the dropped, and live tags in the order of publication.
THEOREM ViewersSeeOrder == PipelineSpec => []ViewedInOrder
<1>1. PipelineInv => MP!KeptInOrder
  BY DEF PipelineInv, ViewerInv, KeptOK, Rising, Values, Playing, MP!KeptInOrder
<1>2. ASSUME PipelineInv, NEW s \in Viewers, NEW i \in DOMAIN sent[s], NEW j \in DOMAIN sent[s], i < j,
             received[s][sent[s][i]] > joined[s]
      PROVE  received[s][sent[s][i]] < received[s][sent[s][j]]
  <2>1. /\ TypeOK /\ MP!TypeOK /\ ViewerInv(s) /\ s \in Subs /\ Contiguous(s)
    BY <1>2 DEF PipelineInv, HubInv, HistoryInv, Viewers
  <2>2. PICK a, b, c : a = sent[s] /\ b = MP!Positions(cur[s]) /\ c = MP!Positions(tags[s])
    OBVIOUS
  <2>3. a \in Seq(Nat) /\ b \in Seq(Nat) /\ c \in Seq(Nat) /\ MP!Kept(s) = (a \o b) \o c
    BY <2>1, <2>2, ViewerTypes, PositionsType DEF MP!Kept
  <2>4. Len(a) \in Nat /\ Len(b) \in Nat /\ Len(c) \in Nat /\ DOMAIN a = 1..Len(a)
    BY <2>3, LenProperties
  <2>5. PICK d \in Seq(Nat) : /\ d = a \o b /\ Len(d) = Len(a) + Len(b)
                              /\ \A x \in 1..Len(a) : d[x] = a[x]
    <3>1. /\ a \o b \in Seq(Nat) /\ Len(a \o b) = Len(a) + Len(b)
          /\ \A x \in 1..(Len(a) + Len(b)) : (a \o b)[x] = IF x <= Len(a) THEN a[x] ELSE b[x - Len(a)]
      BY <2>3, ConcatProperties
    <3>2. \A x \in 1..Len(a) : (a \o b)[x] = a[x]
      BY <2>4, <3>1
    <3> QED BY <3>1, <3>2
  <2>6. PICK k \in Seq(Nat) : /\ k = d \o c /\ Len(k) = Len(d) + Len(c)
                              /\ \A x \in 1..Len(a) : k[x] = a[x]
    <3>1. /\ d \o c \in Seq(Nat) /\ Len(d \o c) = Len(d) + Len(c)
          /\ \A x \in 1..(Len(d) + Len(c)) : (d \o c)[x] = IF x <= Len(d) THEN d[x] ELSE c[x - Len(d)]
      BY <2>3, ConcatProperties
    <3>2. \A x \in 1..Len(a) : (d \o c)[x] = a[x]
      BY <2>4, <2>5, <3>1
    <3> QED BY <3>1, <3>2
  <2>7. DOMAIN k = 1..(Len(a) + Len(b) + Len(c)) /\ MP!Kept(s) = k
    BY <2>3, <2>4, <2>5, <2>6, LenProperties
  <2>8. i \in 1..Len(a) /\ j \in 1..Len(a) /\ i \in DOMAIN k /\ j \in DOMAIN k
    <3>1. i \in 1..Len(a) /\ j \in 1..Len(a)
      BY <2>2, <2>4
    <3>2. 1..Len(a) \subseteq 1..(Len(a) + Len(b) + Len(c))
      BY <2>4
    <3> QED BY <2>7, <3>1, <3>2
  <2>9. k[i] < k[j] /\ k[i] \in 1..offered[s] /\ k[j] \in 1..offered[s]
    BY <1>2, <2>1, <2>7, <2>8 DEF ViewerInv, KeptOK, Rising
  <2>10. PICK m, n : m = sent[s][i] /\ n = sent[s][j]
    OBVIOUS
  <2>11. m = k[i] /\ n = k[j]
    BY <2>2, <2>6, <2>8, <2>10
  <2>12. m \in DOMAIN received[s] /\ n \in DOMAIN received[s] /\ m \in Nat /\ n \in Nat /\ m < n
    BY <2>1, <2>9, <2>11, HubTypes, SMTT(30) DEF ViewerInv
  <2>13. received[s][n] = received[s][m] + (n - m)
    BY <1>2, <2>1, <2>10, <2>12 DEF Contiguous
  <2>14. received[s][m] \in Nat
    BY <2>1, <2>12, HubTypes
  <2> QED BY <2>10, <2>12, <2>13, <2>14
<1>3. PipelineInv => ViewedInOrder
  BY <1>1, <1>2 DEF ViewedInOrder
<1> QED BY <1>3, PipelineInvariant, PTL
=============================================================================
