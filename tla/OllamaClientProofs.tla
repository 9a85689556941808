------------------------- MODULE OllamaClientProofs -------------------------
(***************************************************************************)
(* Proofs about OllamaClient and the reception of a response below it.     *)
(*                                                                         *)
(* A body that arrives in chunks is decoded by a loop whose state is a     *)
(* place in the stream.  The invariant says that the place is always one   *)
(* where the server began a chunk and that what was decoded is the body up *)
(* to there; ChunkRead says what the loop then reads.  No bound of the     *)
(* model is used: bodies, chunks and size lines have any length.           *)
(***************************************************************************)
EXTENDS OllamaClient, FiniteSetTheorems, SequenceTheorems, TLAPS

-----------------------------------------------------------------------------
(* Least elements.                                                         *)

(* A set of naturals that is not empty has a least element.                *)
LEMMA LeastNat ==
  ASSUME NEW S \in SUBSET Nat, S # {}
  PROVE  \E x \in S : \A y \in S : x <= y
<1>1. PICK x \in S : \A y \in S : ~ (<<y, x>> \in OpToRel(<, Nat))
  BY WFMin, NatLessThanWellFounded
<1>2. \A y \in S : ~(y < x)
  BY <1>1 DEF OpToRel
<1>3. QED
  BY <1>2

-----------------------------------------------------------------------------
(* Bytes, bodies and chunks.                                               *)

LEMMA DigitBytes ==
  /\ Range(Digits) = {"0", "1", "2", "3", "4", "5", "6", "7",
                      "8", "9", "a", "b", "c", "d", "e", "f"}
  /\ SizeDigits \subseteq Range(Digits)
<1>1. DOMAIN Digits = 1 .. 16 /\ Len(Digits) = 16
  BY DEF Digits
<1>2. Range(Digits) = {"0", "1", "2", "3", "4", "5", "6", "7",
                      "8", "9", "a", "b", "c", "d", "e", "f"}
  BY DEF Range, Digits
<1>3. SizeDigits \subseteq Range(Digits)
  BY <1>1, BodyAssumption DEF Range, SizeDigits
<1>4. QED
  BY <1>2, <1>3

(* A body: a text, and then the byte that closes it and is nowhere else.   *)
Closed(b) ==
  /\ b \in Seq(BodyBytes \cup {Close})
  /\ Len(b) > 0
  /\ b[Len(b)] = Close
  /\ \A i \in 1 .. Len(b) - 1 : b[i] # Close
  /\ IsUtf8(b)

(* What the client is sent is such a body.                                 *)
LEMMA BodiesAreClosed ==
  ASSUME NEW b \in Bodies
  PROVE  Closed(b)
<1>0. PICK n \in 0 .. MaxBody : \E s \in [1 .. n -> BodyBytes] : b = Append(s, Close) /\ IsUtf8(s)
  BY DEF Bodies
<1>1. PICK s \in [1 .. n -> BodyBytes] : b = Append(s, Close) /\ IsUtf8(s)
  BY <1>0
<1>2. n \in Nat /\ MaxBody \in Nat
  BY BodyAssumption
<1>3. s \in Seq(BodyBytes) /\ Len(s) = n
  BY <1>2
<1>4. /\ b \in Seq(BodyBytes \cup {Close}) /\ Len(b) = n + 1
      /\ \A i \in 1 .. n : b[i] = s[i]
      /\ b[n + 1] = Close
  BY <1>1, <1>3
<1>5. Close \notin BodyBytes
  BY BodyAssumption
<1>6. \A i \in 1 .. n : s[i] \in BodyBytes
  BY <1>1
<1>7. IsUtf8(b)
  <2> SUFFICES ASSUME NEW i \in 1 .. n + 1
               PROVE  /\ b[i] = FirstHalf => i < Len(b) /\ b[i + 1] = SecondHalf
                      /\ b[i] = SecondHalf => i > 1 /\ b[i - 1] = FirstHalf
    BY <1>4 DEF IsUtf8
  <2>1. CASE i = n + 1
    BY <2>1, <1>4 DEF Close, FirstHalf, SecondHalf
  <2>2. CASE i # n + 1
    <3>1. i \in 1 .. n /\ i \in DOMAIN s
      BY <2>2, <1>2, <1>3
    <3>2. /\ s[i] = FirstHalf => i < Len(s) /\ s[i + 1] = SecondHalf
          /\ s[i] = SecondHalf => i > 1 /\ s[i - 1] = FirstHalf
      BY <1>1, <3>1 DEF IsUtf8
    <3>3. QED
      BY <3>1, <3>2, <1>2, <1>3, <1>4
  <2>3. QED
    BY <2>1, <2>2
<1>8. QED
  BY <1>1, <1>2, <1>4, <1>5, <1>6, <1>7 DEF Closed

(* The elements of a concatenation, those of the second part counted from  *)
(* its beginning.                                                          *)
Joined(u, s, t) ==
  /\ Len(u) = Len(s) + Len(t)
  /\ \A i \in 1 .. Len(s) : u[i] = s[i]
  /\ \A i \in 1 .. Len(t) : u[Len(s) + i] = t[i]

LEMMA Concatenated ==
  ASSUME NEW B, NEW s \in Seq(B), NEW t \in Seq(B)
  PROVE  s \o t \in Seq(B) /\ Joined(s \o t, s, t)
<1> DEFINE u == s \o t
<1>1. Len(s) \in Nat /\ Len(t) \in Nat
  OBVIOUS
<1>2. /\ u \in Seq(B) /\ Len(u) = Len(s) + Len(t)
      /\ \A i \in 1 .. Len(s) + Len(t) : u[i] = IF i <= Len(s) THEN s[i] ELSE t[i - Len(s)]
  BY ConcatProperties
<1> HIDE DEF u
<1>3. ASSUME NEW i \in 1 .. Len(t) PROVE u[Len(s) + i] = t[i]
  <2>1. Len(s) + i \in 1 .. Len(s) + Len(t) /\ ~(Len(s) + i <= Len(s)) /\ (Len(s) + i) - Len(s) = i
    BY <1>1
  <2>2. QED
    BY <2>1, <1>2
<1>4. ASSUME NEW i \in 1 .. Len(s) PROVE u[i] = s[i]
  <2>1. i \in 1 .. Len(s) + Len(t) /\ i <= Len(s)
    BY <1>1
  <2>2. QED
    BY <2>1, <1>2
<1>5. QED
  BY <1>2, <1>3, <1>4 DEF u, Joined

(* What a chunk consists of: the size line and its end, and the data and   *)
(* its end.                                                                *)
Bytes == BodyBytes \cup {Close, CR, LF} \cup SizeDigits
Data == Seq(BodyBytes \cup {Close})

LEMMA ChunkBytes ==
  ASSUME NEW line \in SizeLines, NEW s \in Data
  PROVE  /\ Chunk(line, s) \in Seq(Bytes)
         /\ line \in Seq(Bytes) /\ Len(line) > 0 /\ \A i \in 1 .. Len(line) : line[i] \in SizeDigits
         /\ Len(Chunk(line, s)) = Len(line) + Len(s) + 4
         /\ \A i \in 1 .. Len(line) : Chunk(line, s)[i] = line[i]
         /\ Chunk(line, s)[Len(line) + 1] = CR /\ Chunk(line, s)[Len(line) + 2] = LF
         /\ \A i \in 1 .. Len(s) : Chunk(line, s)[Len(line) + 2 + i] = s[i]
         /\ Chunk(line, s)[Len(line) + Len(s) + 3] = CR
         /\ Chunk(line, s)[Len(line) + Len(s) + 4] = LF
<1> DEFINE end == <<CR, LF>>
           h == line \o end
           c == h \o s \o end
<1>1. PICK n \in 1 .. MaxDigits : line \in [1 .. n -> SizeDigits]
  BY DEF SizeLines
<1>2. /\ line \in Seq(Bytes) /\ Len(line) = n /\ n \in Nat /\ n > 0
      /\ \A i \in 1 .. n : line[i] \in SizeDigits
  BY <1>1, BodyAssumption DEF Bytes
<1>3. s \in Seq(Bytes) /\ Len(s) \in Nat
  BY DEF Data, Bytes
<1>4. end \in Seq(Bytes) /\ Len(end) = 2 /\ end[1] = CR /\ end[2] = LF
  BY DEF Bytes
<1>5. Chunk(line, s) = c
  BY DEF Chunk
<1> HIDE DEF end
<1>6. h \in Seq(Bytes) /\ Joined(h, line, end)
  BY <1>2, <1>4, Concatenated
<1> HIDE DEF h
<1>7. /\ Len(h) = n + 2
      /\ \A i \in 1 .. n : h[i] = line[i]
      /\ h[n + 1] = CR /\ h[n + 2] = LF
  BY <1>2, <1>4, <1>6 DEF Joined
<1> DEFINE d == h \o s
<1>8. d \in Seq(Bytes) /\ Joined(d, h, s)
  BY <1>3, <1>6, Concatenated
<1> HIDE DEF d
<1>9. /\ Len(d) = n + 2 + Len(s)
      /\ \A i \in 1 .. n + 2 : d[i] = h[i]
      /\ \A i \in 1 .. Len(s) : d[n + 2 + i] = s[i]
  BY <1>7, <1>8 DEF Joined
<1>10. c \in Seq(Bytes) /\ Joined(c, d, end)
  BY <1>4, <1>8, Concatenated DEF d
<1> HIDE DEF c
<1>11. /\ Len(c) = n + 2 + Len(s) + 2
       /\ \A i \in 1 .. n + 2 + Len(s) : c[i] = d[i]
       /\ \A i \in 1 .. 2 : c[n + 2 + Len(s) + i] = end[i]
  BY <1>4, <1>9, <1>10 DEF Joined
<1>12. \A i \in 1 .. n + 2 : c[i] = h[i]
  <2>1. \A i \in 1 .. n + 2 : i \in 1 .. n + 2 + Len(s)
    BY <1>2, <1>3
  <2>2. QED
    BY <2>1, <1>9, <1>11
<1>13. c[n + 1] = CR /\ c[n + 2] = LF /\ \A i \in 1 .. n : c[i] = line[i]
  BY <1>2, <1>7, <1>12
<1>14. \A i \in 1 .. Len(s) : c[n + 2 + i] = s[i]
  <2>1. \A i \in 1 .. Len(s) : n + 2 + i \in 1 .. n + 2 + Len(s)
    BY <1>2, <1>3
  <2>2. QED
    BY <2>1, <1>9, <1>11
<1>15. c[n + Len(s) + 3] = CR /\ c[n + Len(s) + 4] = LF
  <2>1. c[n + 2 + Len(s) + 1] = end[1] /\ c[n + 2 + Len(s) + 2] = end[2]
    BY <1>11
  <2>2. n + 2 + Len(s) + 1 = n + Len(s) + 3 /\ n + 2 + Len(s) + 2 = n + Len(s) + 4
    BY <1>2, <1>3
  <2>3. QED
    BY <2>1, <2>2, <1>4
<1>16. Len(c) = n + Len(s) + 4
  BY <1>2, <1>3, <1>11
<1>17. QED
  BY <1>2, <1>5, <1>10, <1>13, <1>14, <1>15, <1>16

(* The data of a chunk is a part of the body.                              *)
LEMMA SliceIsData ==
  ASSUME NEW b \in Data, NEW m \in Nat, NEW e \in Nat, m <= e, e <= Len(b)
  PROVE  SubSeq(b, m + 1, e) \in Data /\ Len(SubSeq(b, m + 1, e)) = e - m
<1>1. b \in Seq(BodyBytes \cup {Close}) /\ Len(b) \in Nat
  BY DEF Data
<1>2. \A i \in m + 1 .. e : b[i] \in BodyBytes \cup {Close}
  BY <1>1
<1>3. /\ SubSeq(b, m + 1, e) \in Seq(BodyBytes \cup {Close})
      /\ Len(SubSeq(b, m + 1, e)) = IF m + 1 <= e THEN e - (m + 1) + 1 ELSE 0
  BY <1>2, SubSeqProperties
<1>4. QED
  BY <1>3 DEF Data

-----------------------------------------------------------------------------
(* What the loop of decode_chunked_body reads.                             *)

(* Where the stream has a size line and its end, that line is read.        *)
LEMMA SizeRead ==
  ASSUME NEW line \in SizeLines, position \in Nat, stream \in Seq(Bytes),
         position + Len(line) + 2 <= Len(stream),
         \A i \in 1 .. Len(line) : stream[position + i] = line[i],
         stream[position + Len(line) + 1] = CR, stream[position + Len(line) + 2] = LF
  PROVE  SizeLine /\ Size = Value(line) /\ ChunkStart = position + Len(line) + 2
<1> DEFINE h == Len(line)
           e == position + h
<1>1. PICK n \in 1 .. MaxDigits : line \in [1 .. n -> SizeDigits]
  BY DEF SizeLines
<1>2. h = n /\ h \in Nat /\ h > 0 /\ e \in Nat /\ Len(stream) \in Nat
  BY <1>1, BodyAssumption
<1>3. \A i \in 1 .. h : line[i] \in SizeDigits /\ line[i] # CR
  BY <1>1, <1>2, DigitBytes DEF CR
<1>4. e \in LineEnds
  <2>1. e \in position .. Len(stream) - 2
    BY <1>2
  <2>2. QED
    BY <2>1 DEF LineEnds
<1>5. ASSUME NEW i \in LineEnds PROVE i \in Nat /\ e <= i
  <2>1. i \in Nat /\ position <= i /\ stream[i + 1] = CR
    BY DEF LineEnds
  <2>2. ASSUME i < e PROVE FALSE
    <3>1. PICK j \in 1 .. h : position + j = i + 1
      <4>1. h \in Nat /\ i < position + h
        BY <2>2, <1>2
      <4> HIDE DEF h
      <4>2. (i + 1) - position \in 1 .. h
        BY <4>1, <2>1
      <4>3. position + ((i + 1) - position) = i + 1
        BY <2>1
      <4>4. QED
        BY <4>2, <4>3
    <3>2. stream[position + j] = line[j]
      OBVIOUS
    <3>3. QED
      BY <3>1, <3>2, <2>1, <1>3
  <2>3. QED
    BY <2>1, <2>2, <1>2
<1>6. LineEnd = e
  <2>1. \A i \in LineEnds : (\A j \in LineEnds : i <= j) <=> i = e
    BY <1>2, <1>4, <1>5
  <2> HIDE DEF e
  <2>2. QED
    BY <1>4, <2>1 DEF LineEnd
<1>7. SizeText = line
  <2> DEFINE t == SubSeq(stream, position + 1, e)
  <2>1. \A i \in position + 1 .. e : stream[i] \in Bytes
    BY <1>2
  <2>2. /\ t \in Seq(Bytes)
        /\ Len(t) = IF position + 1 <= e THEN e - (position + 1) + 1 ELSE 0
        /\ \A i \in 1 .. e - (position + 1) + 1 : t[i] = stream[(position + 1) + i - 1]
    BY <2>1, <1>2, SubSeqProperties
  <2> HIDE DEF t
  <2>3. Len(t) = h
    BY <2>2, <1>2
  <2>4. \A i \in 1 .. h : t[i] = line[i]
    <3> SUFFICES ASSUME NEW i \in 1 .. h PROVE t[i] = line[i]
      OBVIOUS
    <3>1. i \in 1 .. e - (position + 1) + 1 /\ (position + 1) + i - 1 = position + i
      BY <1>2
    <3>2. QED
      BY <3>1, <2>2
  <2>5. t = [i \in 1 .. h |-> t[i]] /\ line = [i \in 1 .. h |-> line[i]]
    BY <2>2, <2>3, <1>1, <1>2
  <2>6. t = line
    BY <2>4, <2>5
  <2>7. QED
    BY <2>6, <1>6 DEF SizeText, t
<1>8. SizeLine
  <2>1. DOMAIN line = 1 .. h /\ line # << >>
    BY <1>1, <1>2
  <2>2. QED
    BY <2>1, <1>3, <1>4, <1>7 DEF SizeLine
<1>9. QED
  BY <1>6, <1>7, <1>8 DEF Size, ChunkStart

(* Where the stream ends within a size line there is none.                 *)
LEMMA NoSizeRead ==
  ASSUME NEW line \in SizeLines, position \in Nat, stream \in Seq(Bytes),
         Len(stream) < position + Len(line) + 2,
         \A i \in 1 .. Len(line) : position + i <= Len(stream) => stream[position + i] = line[i]
  PROVE  ~SizeLine
<1>1. PICK n \in 1 .. MaxDigits : line \in [1 .. n -> SizeDigits]
  BY DEF SizeLines
<1>2. Len(line) = n /\ n \in Nat /\ Len(stream) \in Nat
  BY <1>1, BodyAssumption
<1>3. \A i \in 1 .. n : line[i] # CR
  BY <1>1, <1>2, DigitBytes DEF CR
<1>4. ASSUME NEW i \in LineEnds PROVE FALSE
  <2>1. i \in Nat /\ position <= i /\ i <= Len(stream) - 2 /\ stream[i + 1] = CR
    BY <1>2 DEF LineEnds
  <2>2. /\ (i + 1) - position \in 1 .. n
        /\ position + ((i + 1) - position) = i + 1 /\ i + 1 <= Len(stream)
    BY <2>1, <1>2
  <2>3. stream[i + 1] = line[(i + 1) - position]
    BY <2>2, <1>2
  <2>4. QED
    BY <2>1, <2>2, <2>3, <1>3
<1>5. QED
  BY <1>4 DEF SizeLine

(* From its place p on the stream has what arrived of a chunk.             *)
ChunkAt(st, p, line, s) ==
  \A j \in 1 .. Len(Chunk(line, s)) : p + j <= Len(st) => st[p + j] = Chunk(line, s)[j]

(* The loop reads the size and, if it is all there, takes the data.        *)
LEMMA ChunkRead ==
  ASSUME NEW line \in SizeLines, NEW s \in Data, Value(line) = Len(s),
         position \in Nat, stream \in Seq(Bytes), ChunkAt(stream, position, line, s)
  PROVE  /\ SizeLine => Size = Len(s)
         /\ SizeLine /\ Terminated => position + Len(Chunk(line, s)) <= Len(stream)
         /\ position + Len(Chunk(line, s)) <= Len(stream) =>
              /\ SizeLine /\ Terminated
              /\ ChunkEnd + 2 = position + Len(Chunk(line, s))
              /\ SubSeq(stream, ChunkStart + 1, ChunkEnd) = s
<1> DEFINE c == Chunk(line, s)
           h == Len(line)
           k == Len(s)
<1>1. /\ h \in Nat /\ h > 0 /\ k \in Nat /\ Len(stream) \in Nat
      /\ Len(c) = h + k + 4
      /\ \A i \in 1 .. h : c[i] = line[i]
      /\ c[h + 1] = CR /\ c[h + 2] = LF
      /\ \A i \in 1 .. k : c[h + 2 + i] = s[i]
      /\ c[h + k + 3] = CR /\ c[h + k + 4] = LF
  BY ChunkBytes DEF Data
<1>2. \A j \in 1 .. h + k + 4 : position + j <= Len(stream) => stream[position + j] = c[j]
  BY <1>1 DEF ChunkAt
<1> HIDE DEF c
<1>3. \A i \in 1 .. h : position + i <= Len(stream) => stream[position + i] = line[i]
  BY <1>1, <1>2
<1>4. CASE Len(stream) < position + h + 2
  <2>1. ~SizeLine
    BY <1>3, <1>4, NoSizeRead
  <2>2. ~(position + Len(c) <= Len(stream))
    BY <1>1, <1>4
  <2>3. QED
    BY <2>1, <2>2 DEF c
<1>5. CASE ~(Len(stream) < position + h + 2)
  <2>1. position + h + 2 <= Len(stream)
    BY <1>1, <1>5
  <2>2. \A i \in 1 .. h : stream[position + i] = line[i]
    BY <2>1, <1>1, <1>3
  <2>3. stream[position + h + 1] = CR /\ stream[position + h + 2] = LF
    <3>1. /\ h + 1 \in 1 .. h + k + 4 /\ position + (h + 1) = position + h + 1
          /\ h + 2 \in 1 .. h + k + 4 /\ position + (h + 2) = position + h + 2
      BY <1>1
    <3>2. QED
      BY <3>1, <2>1, <1>1, <1>2
  <2>4. SizeLine /\ Size = k /\ ChunkStart = position + h + 2
    BY <2>1, <2>2, <2>3, SizeRead
  <2>5. ChunkEnd = position + h + 2 + k
    BY <2>4 DEF ChunkEnd
  <2>6. Terminated => position + Len(c) <= Len(stream)
    BY <2>5, <1>1 DEF Terminated
  <2>7. ASSUME position + Len(c) <= Len(stream)
        PROVE  /\ Terminated /\ ChunkEnd + 2 = position + Len(c)
               /\ SubSeq(stream, ChunkStart + 1, ChunkEnd) = s
    <3>1. ChunkEnd + 2 = position + Len(c)
      <4>1. Len(c) = h + k + 4 /\ h \in Nat /\ k \in Nat
        BY <1>1
      <4>2. QED
        BY <4>1, <2>5
    <3>2. stream[ChunkEnd + 1] = CR /\ stream[ChunkEnd + 2] = LF
      <4>1. /\ h + k + 3 \in 1 .. h + k + 4 /\ position + (h + k + 3) = ChunkEnd + 1
            /\ h + k + 4 \in 1 .. h + k + 4 /\ position + (h + k + 4) = ChunkEnd + 2
            /\ ChunkEnd + 1 <= Len(stream) /\ ChunkEnd + 2 <= Len(stream)
        BY <2>5, <2>7, <1>1
      <4>2. QED
        BY <4>1, <1>1, <1>2
    <3>3. Terminated
      BY <3>1, <3>2, <2>7 DEF Terminated
    <3>4. SubSeq(stream, ChunkStart + 1, ChunkEnd) = s
      <4> DEFINE b == position + h + 2
                 t == SubSeq(stream, b + 1, b + k)
      <4>1. b \in Nat /\ b + k <= Len(stream)
        BY <2>7, <1>1
      <4>2. \A i \in 1 .. k : stream[b + i] = s[i]
        <5> SUFFICES ASSUME NEW i \in 1 .. k PROVE stream[b + i] = s[i]
          OBVIOUS
        <5>1. /\ h + 2 + i \in 1 .. h + k + 4 /\ position + (h + 2 + i) = b + i
              /\ b + i <= Len(stream)
          BY <4>1, <1>1
        <5>2. QED
          BY <5>1, <1>1, <1>2
      <4> HIDE DEF b
      <4>3. \A i \in b + 1 .. b + k : stream[i] \in Bytes
        BY <4>1, <1>1
      <4>4. /\ t \in Seq(Bytes)
            /\ Len(t) = IF b + 1 <= b + k THEN b + k - (b + 1) + 1 ELSE 0
            /\ \A i \in 1 .. b + k - (b + 1) + 1 : t[i] = stream[b + 1 + i - 1]
        BY <4>3, <4>1, <1>1, SubSeqProperties
      <4> HIDE DEF t
      <4>5. Len(t) = k
        BY <4>4, <4>1, <1>1
      <4>6. \A i \in 1 .. k : t[i] = s[i]
        <5> SUFFICES ASSUME NEW i \in 1 .. k PROVE t[i] = s[i]
          OBVIOUS
        <5>1. i \in 1 .. b + k - (b + 1) + 1 /\ b + 1 + i - 1 = b + i
          BY <4>1, <1>1
        <5>2. QED
          BY <5>1, <4>2, <4>4
      <4>7. t = [i \in 1 .. k |-> t[i]] /\ s = [i \in 1 .. k |-> s[i]]
        BY <4>4, <4>5 DEF Data
      <4>8. t = s
        BY <4>6, <4>7
      <4>9. ChunkStart + 1 = b + 1 /\ ChunkEnd = b + k
        BY <2>4, <2>5 DEF b
      <4>10. QED
        BY <4>8, <4>9 DEF t
    <3>5. QED
      BY <3>1, <3>3, <3>4
  <2>8. QED
    BY <2>4, <2>6, <2>7 DEF c
<1>6. QED
  BY <1>4, <1>5

-----------------------------------------------------------------------------
(* The invariant of an exchange.                                           *)

(* The bytes of the body b after which a chunk begins, and for each of     *)
(* them where that chunk begins in the stream.                             *)
Marks(b, at) ==
  /\ DOMAIN at \subseteq 0 .. Len(b)
  /\ 0 \in DOMAIN at /\ at[0] = 0
  /\ \A m \in DOMAIN at : at[m] \in Nat

(* The chunk after byte m arrived in full, up to the next mark e.          *)
WholeTo(b, st, at, m, e, line) ==
  /\ m < e /\ Value(line) = e - m
  /\ at[e] = at[m] + Len(Chunk(line, SubSeq(b, m + 1, e)))
  /\ at[e] <= Len(st)
  /\ ChunkAt(st, at[m], line, SubSeq(b, m + 1, e))

Whole(b, st, at, m) ==
  \E e \in DOMAIN at, line \in SizeLines : WholeTo(b, st, at, m, e, line)

(* The connection broke before its end.                                    *)
Broken(b, st, at, m) ==
  \E e \in m + 1 .. Len(b), line \in SizeLines :
    /\ Value(line) = e - m
    /\ Len(st) < at[m] + Len(Chunk(line, SubSeq(b, m + 1, e)))
    /\ ChunkAt(st, at[m], line, SubSeq(b, m + 1, e))

(* The empty chunk after the whole body, in full or in part.               *)
Final(b, st, at, m, lost) ==
  /\ m = Len(b)
  /\ \E line \in SizeLines :
       /\ Value(line) = 0
       /\ ChunkAt(st, at[m], line, << >>)
       /\ lost \/ Len(st) = at[m] + Len(Chunk(line, << >>))

Sending(b, st, n, at) ==
  /\ Marks(b, at)
  /\ n \in DOMAIN at /\ at[n] = Len(st) /\ \A m \in DOMAIN at : m <= n
  /\ \A m \in DOMAIN at \ {n} : Whole(b, st, at, m)

Arrived(b, st, lost, at) ==
  /\ Marks(b, at)
  /\ \A m \in DOMAIN at :
       Whole(b, st, at, m) \/ (Broken(b, st, at, m) /\ lost) \/ Final(b, st, at, m, lost)

(* The first n bytes of a body that is sent as it is.                      *)
ArrivedPlain(b, st, lost, n) ==
  /\ n \in 0 .. Len(b)
  /\ st = SubSeq(b, 1, n)
  /\ lost = (n < Len(b))

(* The loop stands where a chunk begins that was sent after byte m.        *)
AtMark(b, at, m, p, d) ==
  /\ m \in DOMAIN at
  /\ p = at[m]
  /\ d = SubSeq(b, 1, m)

Fresh == position = 0 /\ decoded = << >>

HttpTyped ==
  /\ pc \in {"idle", "start", "send", "read", "loop", "decoded", "transport", "refused"}
  /\ head \in {"whole", "cut", "garbled"}
  /\ cut \in BOOLEAN /\ chunked \in BOOLEAN
  /\ stream \in Seq(Bytes) /\ sent \in Nat

(* Between exchanges nothing is left of the last one; otherwise there is a *)
(* body that the server means.                                             *)
BodyKnown ==
  /\ pc = "idle" => Idle
  /\ pc # "idle" => Closed(body)
  /\ pc = "start" =>
       /\ Fresh /\ stream = << >> /\ sent = 0 /\ cut = FALSE
       /\ chunked = FALSE /\ head = "whole"

SendFollows ==
  pc = "send" =>
    /\ Fresh /\ chunked /\ cut = FALSE /\ head = "whole"
    /\ \E at : Sending(body, stream, sent, at)

ReadFollows ==
  pc = "read" =>
    /\ Fresh
    /\ head = "cut" => cut
    /\ head = "whole" /\ chunked => \E at : Arrived(body, stream, cut, at)
    /\ head = "whole" /\ ~chunked => \E n \in Nat : ArrivedPlain(body, stream, cut, n)

LoopFollows ==
  pc = "loop" =>
    \E at : /\ Arrived(body, stream, cut, at)
            /\ \E m \in Nat : AtMark(body, at, m, position, decoded)

(* What was decoded is the body, from its beginning on.                    *)
DecodedIsBody ==
  pc = "decoded" => \E n \in 0 .. Len(body) : decoded = SubSeq(body, 1, n)

HttpInv ==
  /\ HttpTyped /\ BodyKnown /\ SendFollows /\ ReadFollows /\ LoopFollows
  /\ DecodedIsBody /\ RefusedForCause

-----------------------------------------------------------------------------
(* What a server that sends chunks adds to the stream.                     *)

(* A chunk that arrived stays where it is when more arrives.               *)
LEMMA WholeStays ==
  ASSUME NEW b, NEW st \in Seq(Bytes), NEW t \in Seq(Bytes), NEW at, NEW at2,
         Marks(b, at), DOMAIN at \subseteq DOMAIN at2, \A m \in DOMAIN at : at2[m] = at[m],
         NEW m \in DOMAIN at, Whole(b, st, at, m), b \in Data
  PROVE  Whole(b, st \o t, at2, m)
<1>1. PICK e \in DOMAIN at, line \in SizeLines : WholeTo(b, st, at, m, e, line)
  BY Zenon DEF Whole
<1> DEFINE c == Chunk(line, SubSeq(b, m + 1, e))
           u == st \o t
<1>2. /\ m < e /\ Value(line) = e - m /\ at[e] = at[m] + Len(c) /\ at[e] <= Len(st)
      /\ \A j \in 1 .. Len(c) : at[m] + j <= Len(st) => st[at[m] + j] = c[j]
  BY <1>1 DEF WholeTo, ChunkAt
<1>3. at[m] \in Nat /\ at[e] \in Nat /\ at2[m] = at[m] /\ at2[e] = at[e]
  BY DEF Marks
<1>4. /\ u \in Seq(Bytes) /\ Len(u) = Len(st) + Len(t) /\ Len(st) \in Nat /\ Len(t) \in Nat
      /\ \A i \in 1 .. Len(st) : u[i] = st[i]
  <2>1. Len(st) \in Nat /\ Len(t) \in Nat
    OBVIOUS
  <2>2. u \in Seq(Bytes) /\ Joined(u, st, t)
    BY Concatenated
  <2>3. QED
    BY <2>1, <2>2, Zenon DEF Joined
<1>5. Len(c) \in Nat
  <2>1. SubSeq(b, m + 1, e) \in Data
    BY SliceIsData, <1>2 DEF Marks
  <2>2. QED
    BY <2>1, ChunkBytes
<1> HIDE DEF c, u
<1>6. at2[e] <= Len(u) /\ at2[e] = at2[m] + Len(c)
  BY <1>2, <1>3, <1>4
<1>7. \A j \in 1 .. Len(c) : at2[m] + j <= Len(u) => u[at2[m] + j] = c[j]
  <2> SUFFICES ASSUME NEW j \in 1 .. Len(c) PROVE u[at2[m] + j] = c[j]
    OBVIOUS
  <2> DEFINE i == at[m] + j
  <2>1. i \in 1 .. Len(st) /\ i <= Len(st)
    BY <1>2, <1>3, <1>4, <1>5
  <2>2. st[i] = c[j] /\ u[i] = st[i]
    BY <2>1, <1>2, <1>4
  <2>3. QED
    BY <2>2, <1>3
<1>8. WholeTo(b, u, at2, m, e, line)
  BY <1>2, <1>6, <1>7 DEF WholeTo, ChunkAt, c
<1>9. QED
  BY <1>8, Zenon DEF Whole, u

(* The first n bytes of a chunk that is added are where the stream ended.  *)
LEMMA ChunkAdded ==
  ASSUME NEW st \in Seq(Bytes), NEW line \in SizeLines, NEW s \in Data, NEW n \in Nat,
         n <= Len(Chunk(line, s))
  PROVE  /\ st \o SubSeq(Chunk(line, s), 1, n) \in Seq(Bytes)
         /\ Len(st \o SubSeq(Chunk(line, s), 1, n)) = Len(st) + n
         /\ SubSeq(Chunk(line, s), 1, n) \in Seq(Bytes)
         /\ ChunkAt(st \o SubSeq(Chunk(line, s), 1, n), Len(st), line, s)
<1> DEFINE c == Chunk(line, s)
           t == SubSeq(c, 1, n)
           u == st \o t
<1>1. c \in Seq(Bytes) /\ Len(c) \in Nat /\ Len(st) \in Nat
  BY ChunkBytes
<1> HIDE DEF c
<1>2. t \in Seq(Bytes) /\ Len(t) = n /\ \A j \in 1 .. n : t[j] = c[j]
  BY <1>1 DEF c
<1> HIDE DEF t
<1>3. u \in Seq(Bytes) /\ Len(u) = Len(st) + n /\ \A j \in 1 .. n : u[Len(st) + j] = t[j]
  <2>1. u \in Seq(Bytes) /\ Joined(u, st, t)
    BY <1>2, Concatenated
  <2> HIDE DEF u
  <2>2. QED
    BY <2>1, <1>2 DEF Joined
<1> HIDE DEF u
<1>4. \A j \in 1 .. Len(c) : Len(st) + j <= Len(u) => u[Len(st) + j] = c[j]
  BY <1>1, <1>2, <1>3
<1>5. ChunkAt(u, Len(st), line, s)
  BY <1>4 DEF ChunkAt, c
<1>6. QED
  BY <1>2, <1>3, <1>5 DEF u, t, c

-----------------------------------------------------------------------------
(* Every step of the exchange keeps the invariant.                         *)

LEMMA SendPlainKeeps ==
  ASSUME HttpInv, SendPlain
  PROVE  HttpInv'
<1>1. PICK n \in 0 .. Len(body) : stream' = SubSeq(body, 1, n) /\ cut' = (n < Len(body))
  BY DEF SendPlain
<1>2. /\ pc = "start" /\ pc' = "read" /\ UNCHANGED <<body, sent, head, chunked, position, decoded>>
  BY DEF SendPlain
<1>3. Closed(body) /\ Fresh /\ head = "whole" /\ cut = FALSE /\ sent \in Nat /\ chunked \in BOOLEAN
  BY <1>2 DEF HttpInv, BodyKnown, HttpTyped
<1>4. Len(body) \in Nat /\ n \in Nat /\ stream' \in Seq(Bytes) /\ cut' \in BOOLEAN
  <2>1. body \in Seq(Bytes) /\ Len(body) \in Nat
    BY <1>3 DEF Closed, Bytes
  <2>2. QED
    BY <1>1, <2>1
<1>5. chunked' = FALSE => \E k \in Nat : ArrivedPlain(body, stream, cut, k)'
  BY <1>1, <1>2, <1>4 DEF ArrivedPlain
<1>6. head' = "whole" /\ ~chunked' => \E k \in Nat : ArrivedPlain(body, stream, cut, k)'
  BY <1>3, <1>2, <1>5
<1>7. chunked = FALSE
  BY <1>3, <1>2 DEF HttpInv, BodyKnown
<1>8. QED
  BY <1>2, <1>3, <1>4, <1>6, <1>7
     DEF HttpInv, HttpTyped, BodyKnown, SendFollows, ReadFollows, LoopFollows, DecodedIsBody,
         RefusedForCause, Fresh, Closed, IsUtf8

(* Before the first chunk: the only mark is byte 0, where the stream ends. *)
LEMMA BeginChunksKeeps ==
  ASSUME HttpInv, BeginChunks
  PROVE  HttpInv'
<1> DEFINE at0 == [m \in {0} |-> 0]
<1>1. /\ Closed(body) /\ Fresh /\ stream = << >> /\ sent = 0 /\ cut = FALSE /\ head = "whole"
      /\ pc' = "send" /\ chunked' = TRUE
      /\ UNCHANGED <<body, sent, head, stream, cut, position, decoded>>
  BY DEF BeginChunks, HttpInv, BodyKnown
<1>2. Sending(body, stream, sent, at0)
  <2>1. Len(body) \in Nat /\ DOMAIN at0 = {0} /\ at0[0] = 0 /\ Len(stream) = 0
    BY <1>1 DEF Closed
  <2> HIDE DEF at0
  <2>2. QED
    BY <2>1, <1>1 DEF Sending, Marks
<1>3. Sending(body', stream', sent', at0)
  BY <1>1, <1>2
<1>4. SendFollows'
  BY <1>1, <1>3, Zenon DEF SendFollows, Fresh
<1>5. QED
  BY <1>1, <1>4
     DEF HttpInv, HttpTyped, BodyKnown, ReadFollows, LoopFollows, DecodedIsBody,
         RefusedForCause, Closed, IsUtf8

(* What the server sends next.                                             *)
LEMMA NextChunk ==
  ASSUME Closed(body), sent \in 0 .. Len(body), NEW e \in NextEnds, NEW chunk \in ChunksTo(e)
  PROVE  /\ body \in Data /\ Len(body) \in Nat /\ e \in Nat /\ sent <= e /\ e <= Len(body)
         /\ e = sent <=> sent = Len(body)
         /\ SubSeq(body, sent + 1, e) \in Data /\ Len(SubSeq(body, sent + 1, e)) = e - sent
         /\ e = sent => SubSeq(body, sent + 1, e) = << >>
         /\ \E line \in SizeLines :
              Value(line) = e - sent /\ chunk = Chunk(line, SubSeq(body, sent + 1, e))
<1>1. body \in Data /\ Len(body) \in Nat
  BY DEF Closed, Data
<1>2. e \in Nat /\ sent <= e /\ e <= Len(body) /\ (e = sent <=> sent = Len(body))
  <2>1. CASE sent = Len(body)
    BY <2>1, <1>1 DEF NextEnds
  <2>2. CASE sent # Len(body)
    BY <2>2, <1>1 DEF NextEnds
  <2>3. QED
    BY <2>1, <2>2
<1>3. SubSeq(body, sent + 1, e) \in Data /\ Len(SubSeq(body, sent + 1, e)) = e - sent
  BY <1>1, <1>2, SliceIsData
<1>4. e = sent => SubSeq(body, sent + 1, e) = << >>
  BY <1>2, <1>3 DEF Data
<1>5. QED
  BY <1>1, <1>2, <1>3, <1>4 DEF ChunksTo

LEMMA SendChunkKeeps ==
  ASSUME HttpInv, SendChunk
  PROVE  HttpInv'
<1>1. /\ pc = "send" /\ UNCHANGED <<body, head, chunked, cut, position, decoded>>
      /\ Closed(body) /\ Fresh /\ chunked /\ cut = FALSE /\ head = "whole"
      /\ stream \in Seq(Bytes) /\ sent \in Nat
      /\ \E at : Sending(body, stream, sent, at)
  BY DEF HttpInv, HttpTyped, BodyKnown, SendFollows, SendChunk
<1>2. PICK at : Sending(body, stream, sent, at)
  BY <1>1
<1>3. sent \in 0 .. Len(body) /\ Marks(body, at)
  BY <1>2 DEF Sending, Marks
<1>4. PICK e \in NextEnds : \E chunk \in ChunksTo(e) :
        /\ stream' = stream \o chunk
        /\ sent' = e
        /\ pc' = IF e = sent THEN "read" ELSE "send"
  BY DEF SendChunk
<1>5. PICK chunk \in ChunksTo(e) :
        stream' = stream \o chunk /\ sent' = e /\ pc' = IF e = sent THEN "read" ELSE "send"
  BY <1>4
<1> DEFINE s == SubSeq(body, sent + 1, e)
<1>6. /\ body \in Data /\ Len(body) \in Nat /\ e \in Nat /\ sent <= e /\ e <= Len(body)
      /\ e = sent <=> sent = Len(body)
      /\ s \in Data /\ Len(s) = e - sent
      /\ e = sent => s = << >>
      /\ \E line \in SizeLines : Value(line) = e - sent /\ chunk = Chunk(line, s)
  BY <1>1, <1>3, NextChunk
<1> HIDE DEF s
<1>7. PICK line \in SizeLines : Value(line) = e - sent /\ chunk = Chunk(line, s)
  BY <1>6
<1>8. chunk \in Seq(Bytes) /\ Len(chunk) \in Nat /\ SubSeq(chunk, 1, Len(chunk)) = chunk
  <2>1. chunk \in Seq(Bytes)
    BY <1>6, <1>7, ChunkBytes
  <2>2. QED
    BY <2>1
<1>9. /\ stream' \in Seq(Bytes) /\ Len(stream') = Len(stream) + Len(chunk)
      /\ ChunkAt(stream', Len(stream), line, s)
  <2> DEFINE t == SubSeq(Chunk(line, s), 1, Len(chunk))
  <2>1. Len(chunk) <= Len(Chunk(line, s))
    BY <1>7, <1>8
  <2>2. /\ stream \o t \in Seq(Bytes) /\ Len(stream \o t) = Len(stream) + Len(chunk)
        /\ ChunkAt(stream \o t, Len(stream), line, s)
    BY <2>1, <1>1, <1>6, <1>7, <1>8, ChunkAdded
  <2>3. t = chunk
    BY <1>7, <1>8
  <2> HIDE DEF t
  <2>4. QED
    BY <2>2, <2>3, <1>5
<1>10. /\ at[sent] = Len(stream) /\ sent \in DOMAIN at /\ \A m \in DOMAIN at : m <= sent
       /\ \A m \in DOMAIN at \ {sent} : Whole(body, stream, at, m)
  BY <1>2 DEF Sending
<1>11. Len(stream) \in Nat
  BY <1>1
<1>12. CASE e = sent
  <2>1. \A m \in DOMAIN at \ {sent} : Whole(body, stream \o chunk, at, m)
    BY <1>1, <1>3, <1>6, <1>8, <1>10, WholeStays
  <2>2. Final(body, stream', at, sent, cut)
    BY <1>6, <1>7, <1>9, <1>10, <1>12 DEF Final
  <2>3. \A m \in DOMAIN at : Whole(body, stream', at, m) \/ Final(body, stream', at, m, cut)
    BY <2>1, <2>2, <1>5
  <2>4. Arrived(body', stream', cut', at)
    BY <2>3, <1>1, <1>3, Zenon DEF Arrived
  <2>5. pc' = "read"
    BY <1>5, <1>12
  <2>6. ReadFollows'
    BY <2>4, <1>1 DEF ReadFollows, Fresh
  <2>7. sent' \in Nat
    BY <1>5, <1>6
  <2>8. QED
    BY <1>1, <1>9, <2>5, <2>6, <2>7
       DEF HttpInv, HttpTyped, BodyKnown, SendFollows, LoopFollows, DecodedIsBody,
           RefusedForCause, Closed, IsUtf8
<1>13. CASE e # sent
  <2> DEFINE D == DOMAIN at \cup {e}
             at2 == [m \in D |-> IF m = e THEN Len(stream) + Len(chunk) ELSE at[m]]
  <2>1. e \notin DOMAIN at /\ sent < e
    <3>1. \A m \in DOMAIN at : m \in Nat
      BY <1>3 DEF Marks
    <3>2. QED
      BY <3>1, <1>6, <1>10, <1>13
  <2>2. /\ DOMAIN at2 = DOMAIN at \cup {e}
        /\ at2[e] = Len(stream) + Len(chunk)
        /\ \A m \in DOMAIN at : at2[m] = at[m]
    BY <2>1
  <2> HIDE DEF at2
  <2>3. Marks(body, at2)
    BY <2>2, <1>3, <1>6, <1>8, <1>11 DEF Marks
  <2>4. \A m \in DOMAIN at \ {sent} : Whole(body, stream \o chunk, at2, m)
    <3> SUFFICES ASSUME NEW m \in DOMAIN at \ {sent} PROVE Whole(body, stream \o chunk, at2, m)
      OBVIOUS
    <3>1. DOMAIN at \subseteq DOMAIN at2 /\ \A k \in DOMAIN at : at2[k] = at[k]
      BY <2>2
    <3>2. QED
      BY <3>1, <1>1, <1>3, <1>6, <1>8, <1>10, WholeStays
  <2>5. Whole(body, stream', at2, sent)
    <3>1. at2[sent] = Len(stream) /\ at2[e] = at2[sent] + Len(Chunk(line, s))
      BY <2>2, <1>7, <1>10
    <3>2. WholeTo(body, stream', at2, sent, e, line)
      BY <3>1, <2>1, <2>2, <1>7, <1>9 DEF WholeTo, s
    <3>3. QED
      BY <3>2, <2>2, Zenon DEF Whole
  <2>6. \A m \in DOMAIN at2 \ {e} : Whole(body, stream', at2, m)
    BY <2>2, <2>4, <2>5, <1>5
  <2>7. \A m \in DOMAIN at2 : m <= e
    <3>1. \A m \in DOMAIN at : m \in Nat /\ m <= sent
      BY <1>3, <1>10 DEF Marks
    <3>2. QED
      BY <3>1, <2>1, <2>2, <1>1, <1>6
  <2>8. Sending(body', stream', sent', at2)
    <3>1. e \in DOMAIN at2 /\ at2[e] = Len(stream')
      BY <2>2, <1>9
    <3>2. QED
      BY <3>1, <2>3, <2>6, <2>7, <1>1, <1>5 DEF Sending
  <2>9. pc' = "send" /\ sent' \in Nat
    BY <1>5, <1>6, <1>13
  <2>10. SendFollows'
    BY <2>8, <1>1 DEF SendFollows, Fresh
  <2>11. QED
    BY <1>1, <1>9, <2>9, <2>10
       DEF HttpInv, HttpTyped, BodyKnown, ReadFollows, LoopFollows, DecodedIsBody,
           RefusedForCause, Closed, IsUtf8
<1>14. QED
  BY <1>12, <1>13

LEMMA ConnectionBreaksKeeps ==
  ASSUME HttpInv, ConnectionBreaks
  PROVE  HttpInv'
<1>1. /\ pc = "send" /\ UNCHANGED <<body, sent, head, chunked, position, decoded>>
      /\ cut' = TRUE /\ pc' = "read"
      /\ Closed(body) /\ Fresh /\ chunked /\ head = "whole"
      /\ stream \in Seq(Bytes) /\ sent \in Nat
      /\ \E at : Sending(body, stream, sent, at)
  BY DEF HttpInv, HttpTyped, BodyKnown, SendFollows, ConnectionBreaks
<1>2. PICK at : Sending(body, stream, sent, at)
  BY <1>1
<1>3. sent \in 0 .. Len(body) /\ Marks(body, at)
  BY <1>2 DEF Sending, Marks
<1>4. PICK e \in NextEnds : \E chunk \in ChunksTo(e) : \E n \in 0 .. Len(chunk) - 1 :
        stream' = stream \o SubSeq(chunk, 1, n)
  BY DEF ConnectionBreaks
<1>5. PICK chunk \in ChunksTo(e) : \E n \in 0 .. Len(chunk) - 1 :
        stream' = stream \o SubSeq(chunk, 1, n)
  BY <1>4
<1>6. PICK n \in 0 .. Len(chunk) - 1 : stream' = stream \o SubSeq(chunk, 1, n)
  BY <1>5
<1> DEFINE s == SubSeq(body, sent + 1, e)
<1>7. /\ body \in Data /\ Len(body) \in Nat /\ e \in Nat /\ sent <= e /\ e <= Len(body)
      /\ e = sent <=> sent = Len(body)
      /\ s \in Data /\ Len(s) = e - sent
      /\ e = sent => s = << >>
      /\ \E line \in SizeLines : Value(line) = e - sent /\ chunk = Chunk(line, s)
  BY <1>1, <1>3, NextChunk
<1> HIDE DEF s
<1>8. PICK line \in SizeLines : Value(line) = e - sent /\ chunk = Chunk(line, s)
  BY <1>7
<1>9. Len(chunk) \in Nat /\ n \in Nat /\ n < Len(chunk)
  <2>1. chunk \in Seq(Bytes)
    BY <1>7, <1>8, ChunkBytes
  <2>2. QED
    BY <2>1
<1>10. /\ stream' \in Seq(Bytes) /\ Len(stream') = Len(stream) + n
       /\ SubSeq(chunk, 1, n) \in Seq(Bytes)
       /\ ChunkAt(stream', Len(stream), line, s)
  BY <1>1, <1>6, <1>7, <1>8, <1>9, ChunkAdded
<1>11. /\ at[sent] = Len(stream) /\ sent \in DOMAIN at /\ Len(stream) \in Nat
       /\ \A m \in DOMAIN at \ {sent} : Whole(body, stream, at, m)
  BY <1>1, <1>2 DEF Sending
<1>12. \A m \in DOMAIN at \ {sent} : Whole(body, stream', at, m)
  BY <1>1, <1>3, <1>6, <1>7, <1>10, <1>11, WholeStays
<1>13. Broken(body, stream', at, sent) \/ Final(body, stream', at, sent, cut')
  <2>1. CASE e = sent
    BY <2>1, <1>1, <1>7, <1>8, <1>10, <1>11 DEF Final
  <2>2. CASE e # sent
    <3>1. e \in sent + 1 .. Len(body)
      BY <2>2, <1>1, <1>7
    <3>2. Len(stream') < at[sent] + Len(Chunk(line, s))
      BY <1>8, <1>9, <1>10, <1>11
    <3>3. QED
      BY <3>1, <3>2, <1>8, <1>10, <1>11 DEF Broken, s
  <2>3. QED
    BY <2>1, <2>2
<1>14. Arrived(body', stream', cut', at)
  BY <1>1, <1>3, <1>12, <1>13 DEF Arrived
<1>15. ReadFollows'
  BY <1>1, <1>14 DEF ReadFollows, Fresh
<1>16. QED
  BY <1>1, <1>10, <1>15
     DEF HttpInv, HttpTyped, BodyKnown, SendFollows, LoopFollows, DecodedIsBody,
         RefusedForCause, Closed, IsUtf8

LEMMA RespondWithoutHeadKeeps ==
  ASSUME HttpInv, RespondWithoutHead
  PROVE  HttpInv'
BY DEF HttpInv, HttpTyped, BodyKnown, SendFollows, ReadFollows, LoopFollows, DecodedIsBody,
       RefusedForCause, RespondWithoutHead, Closed, Fresh, IsUtf8

LEMMA ReadFailsKeeps ==
  ASSUME HttpInv, ReadFails
  PROVE  HttpInv'
BY DEF HttpInv, HttpTyped, BodyKnown, SendFollows, ReadFollows, LoopFollows, DecodedIsBody,
       RefusedForCause, ReadFails, Closed, Fresh, IsUtf8

LEMMA ReadNotUtf8Keeps ==
  ASSUME HttpInv, ReadNotUtf8
  PROVE  HttpInv'
BY DEF HttpInv, HttpTyped, BodyKnown, SendFollows, ReadFollows, LoopFollows, DecodedIsBody,
       RefusedForCause, SplitCharacter, ReadNotUtf8, serverVars, Closed, Fresh, IsUtf8

LEMMA HeadUnusableKeeps ==
  ASSUME HttpInv, HeadUnusable
  PROVE  HttpInv'
BY DEF HttpInv, HttpTyped, BodyKnown, SendFollows, ReadFollows, LoopFollows, DecodedIsBody,
       RefusedForCause, HeadUnusable, serverVars, Closed, Fresh, IsUtf8

LEMMA ReadPlainKeeps ==
  ASSUME HttpInv, ReadPlain
  PROVE  HttpInv'
<1>1. PICK n \in Nat : ArrivedPlain(body, stream, cut, n)
  BY DEF HttpInv, ReadFollows, ReadPlain
<1>2. n \in 0 .. Len(body) /\ decoded' = SubSeq(body, 1, n)
  BY <1>1 DEF ArrivedPlain, ReadPlain
<1>3. DecodedIsBody'
  BY <1>2 DEF DecodedIsBody, ReadPlain, serverVars
<1>4. QED
  BY <1>3 DEF HttpInv, HttpTyped, BodyKnown, SendFollows, ReadFollows, LoopFollows,
              RefusedForCause, ReadPlain, serverVars, Closed, IsUtf8

LEMMA ReadChunkedKeeps ==
  ASSUME HttpInv, ReadChunked
  PROVE  HttpInv'
<1>1. /\ Closed(body) /\ Fresh /\ \E at : Arrived(body, stream, cut, at)
      /\ UNCHANGED <<serverVars, position, decoded>> /\ pc' = "loop"
  BY DEF HttpInv, BodyKnown, ReadFollows, ReadChunked
<1>2. PICK at : Arrived(body, stream, cut, at)
  BY <1>1
<1>3. AtMark(body, at, 0, position, decoded)
  <2>1. SubSeq(body, 1, 0) = << >>
    BY <1>1 DEF Closed
  <2>2. QED
    BY <2>1, <1>1, <1>2 DEF AtMark, Arrived, Marks, Fresh
<1>4. UNCHANGED <<body, stream, cut, position, decoded>>
  BY <1>1 DEF serverVars
<1>5. Arrived(body', stream', cut', at) /\ \E m \in Nat : AtMark(body', at, m, position', decoded')
  BY <1>2, <1>3, <1>4
<1>6. LoopFollows'
  BY <1>5 DEF LoopFollows
<1>7. QED
  BY <1>1, <1>6 DEF HttpInv, HttpTyped, BodyKnown, SendFollows, ReadFollows, DecodedIsBody,
                    RefusedForCause, serverVars, Closed, IsUtf8

-----------------------------------------------------------------------------
(* The loop.                                                               *)

(* What it reads where a chunk begins.                                     *)
LEMMA AtWhole ==
  ASSUME Closed(body), stream \in Seq(Bytes), NEW at, Marks(body, at),
         NEW m \in Nat, AtMark(body, at, m, position, decoded), Whole(body, stream, at, m)
  PROVE  /\ SizeLine /\ Size # 0 /\ Terminated
         /\ \E e \in Nat :
              AtMark(body, at, e, ChunkEnd + 2, decoded \o SubSeq(stream, ChunkStart + 1, ChunkEnd))
<1>1. PICK e \in DOMAIN at, line \in SizeLines : WholeTo(body, stream, at, m, e, line)
  BY Zenon DEF Whole
<1> DEFINE s == SubSeq(body, m + 1, e)
<1>2. /\ m \in DOMAIN at /\ position = at[m] /\ position \in Nat /\ decoded = SubSeq(body, 1, m)
      /\ e \in Nat /\ m < e /\ e <= Len(body) /\ Len(body) \in Nat
      /\ body \in Data
  BY <1>1 DEF AtMark, Marks, Closed, Data, WholeTo
<1>3. s \in Data /\ Len(s) = e - m
  BY <1>2, SliceIsData
<1> HIDE DEF s
<1>4. /\ Value(line) = Len(s) /\ ChunkAt(stream, position, line, s)
      /\ position + Len(Chunk(line, s)) <= Len(stream)
      /\ at[e] = position + Len(Chunk(line, s))
  BY <1>1, <1>2, <1>3 DEF WholeTo, s
<1>5. /\ SizeLine /\ Terminated /\ Size = Len(s)
      /\ ChunkEnd + 2 = at[e]
      /\ SubSeq(stream, ChunkStart + 1, ChunkEnd) = s
  BY <1>2, <1>3, <1>4, ChunkRead
<1>6. SubSeq(body, 1, m) \o s = SubSeq(body, 1, e)
  <2>1. 1 \in 1 .. Len(body) + 1 /\ m \in 1 - 1 .. Len(body) /\ e \in m .. Len(body)
    BY <1>2
  <2>2. SubSeq(body, 1, m) \o SubSeq(body, m + 1, e) = SubSeq(body, 1, e)
    BY <2>1, <1>2, ConcatAdjacentSubSeq DEF Data
  <2>3. QED
    BY <2>2 DEF s
<1>7. AtMark(body, at, e, ChunkEnd + 2, decoded \o SubSeq(stream, ChunkStart + 1, ChunkEnd))
  BY <1>2, <1>5, <1>6 DEF AtMark
<1>8. Size # 0
  BY <1>2, <1>3, <1>5
<1>9. QED
  BY <1>2, <1>5, <1>7, <1>8

LEMMA AtBroken ==
  ASSUME Closed(body), stream \in Seq(Bytes), NEW at, Marks(body, at),
         NEW m \in Nat, AtMark(body, at, m, position, decoded), Broken(body, stream, at, m)
  PROVE  SizeLine => Size # 0 /\ ~Terminated
<1>1. PICK e \in m + 1 .. Len(body), line \in SizeLines :
        /\ Value(line) = e - m
        /\ Len(stream) < at[m] + Len(Chunk(line, SubSeq(body, m + 1, e)))
        /\ ChunkAt(stream, at[m], line, SubSeq(body, m + 1, e))
  BY DEF Broken
<1> DEFINE s == SubSeq(body, m + 1, e)
<1>2. /\ position = at[m] /\ position \in Nat /\ Len(stream) \in Nat
      /\ e \in Nat /\ m < e /\ e <= Len(body) /\ Len(body) \in Nat /\ body \in Data
  BY <1>1 DEF AtMark, Marks, Closed, Data
<1>3. s \in Data /\ Len(s) = e - m
  BY <1>2, SliceIsData
<1>4. /\ Value(line) = Len(s) /\ ChunkAt(stream, position, line, s)
      /\ Len(stream) < position + Len(Chunk(line, s))
  BY <1>1, <1>2, <1>3
<1> HIDE DEF s
<1>5. Len(Chunk(line, s)) \in Nat
  BY <1>3, ChunkBytes
<1>6. /\ SizeLine => Size = Len(s)
      /\ SizeLine /\ Terminated => position + Len(Chunk(line, s)) <= Len(stream)
  BY <1>2, <1>3, <1>4, ChunkRead
<1>7. QED
  BY <1>2, <1>3, <1>4, <1>5, <1>6

LEMMA AtFinal ==
  ASSUME Closed(body), stream \in Seq(Bytes), NEW at, Marks(body, at),
         NEW m \in Nat, AtMark(body, at, m, position, decoded),
         Final(body, stream, at, m, cut)
  PROVE  (SizeLine => Size = 0) /\ (SizeLine \/ cut)
<1>1. PICK line \in SizeLines :
        /\ Value(line) = 0
        /\ ChunkAt(stream, at[m], line, << >>)
        /\ cut \/ Len(stream) = at[m] + Len(Chunk(line, << >>))
  BY DEF Final
<1>2. position = at[m] /\ position \in Nat /\ Len(stream) \in Nat
  BY DEF AtMark, Marks
<1> DEFINE s == << >>
<1>3. s \in Data /\ Len(s) = 0
  BY DEF Data
<1>4. Value(line) = Len(s) /\ ChunkAt(stream, position, line, s)
  BY <1>1, <1>2, <1>3
<1>5. cut \/ Len(stream) = position + Len(Chunk(line, s))
  BY <1>1, <1>2
<1> HIDE DEF s
<1>6. /\ SizeLine => Size = Len(s)
      /\ position + Len(Chunk(line, s)) <= Len(stream) => SizeLine
  BY <1>2, <1>3, <1>4, ChunkRead
<1>7. QED
  BY <1>2, <1>3, <1>5, <1>6

LEMMA TakeChunkKeeps ==
  ASSUME HttpInv, TakeChunk
  PROVE  HttpInv'
<1>1. /\ Closed(body) /\ stream \in Seq(Bytes)
      /\ \E at : /\ Arrived(body, stream, cut, at)
                 /\ \E m \in Nat : AtMark(body, at, m, position, decoded)
  BY DEF HttpInv, HttpTyped, BodyKnown, LoopFollows, TakeChunk
<1>2. PICK at : /\ Arrived(body, stream, cut, at)
                /\ \E m \in Nat : AtMark(body, at, m, position, decoded)
  BY <1>1
<1>3. PICK m \in Nat : AtMark(body, at, m, position, decoded)
  BY <1>2
<1>4. SizeLine /\ Size # 0 /\ Terminated
  BY DEF TakeChunk
<1>5. Marks(body, at) /\ Whole(body, stream, at, m)
  <2>1. /\ Marks(body, at)
        /\ \/ Whole(body, stream, at, m) \/ Broken(body, stream, at, m)
           \/ Final(body, stream, at, m, cut)
    BY <1>2, <1>3 DEF Arrived, AtMark
  <2>2. QED
    BY <2>1, <1>1, <1>3, <1>4, AtBroken, AtFinal
<1>6. PICK e \in Nat :
        AtMark(body, at, e, ChunkEnd + 2, decoded \o SubSeq(stream, ChunkStart + 1, ChunkEnd))
  BY <1>1, <1>3, <1>5, AtWhole
<1>7. /\ UNCHANGED <<body, stream, cut>> /\ pc' = "loop" /\ UNCHANGED serverVars
      /\ position' = ChunkEnd + 2
      /\ decoded' = decoded \o SubSeq(stream, ChunkStart + 1, ChunkEnd)
  BY DEF TakeChunk, serverVars
<1>8. Arrived(body', stream', cut', at) /\ AtMark(body', at, e, position', decoded')
  BY <1>2, <1>6, <1>7
<1>9. LoopFollows'
  BY <1>8 DEF LoopFollows
<1>10. QED
  BY <1>7, <1>9
     DEF HttpInv, HttpTyped, BodyKnown, SendFollows, ReadFollows, DecodedIsBody,
         RefusedForCause, TakeChunk, serverVars, Closed, IsUtf8

LEMMA LastChunkKeeps ==
  ASSUME HttpInv, LastChunk
  PROVE  HttpInv'
<1>1. /\ Closed(body) /\ stream \in Seq(Bytes)
      /\ \E at : /\ Arrived(body, stream, cut, at)
                 /\ \E m \in Nat : AtMark(body, at, m, position, decoded)
  BY DEF HttpInv, HttpTyped, BodyKnown, LoopFollows, LastChunk
<1>2. PICK at : /\ Arrived(body, stream, cut, at)
                /\ \E m \in Nat : AtMark(body, at, m, position, decoded)
  BY <1>1
<1>3. PICK m \in Nat : AtMark(body, at, m, position, decoded)
  BY <1>2
<1>4. m = Len(body)
  <2>1. /\ Marks(body, at)
        /\ \/ Whole(body, stream, at, m) \/ Broken(body, stream, at, m)
           \/ Final(body, stream, at, m, cut)
    BY <1>2, <1>3 DEF Arrived, AtMark
  <2>2. SizeLine /\ Size = 0
    BY DEF LastChunk
  <2>3. Final(body, stream, at, m, cut)
    BY <2>1, <2>2, <1>1, <1>3, AtWhole, AtBroken
  <2>4. QED
    BY <2>3 DEF Final
<1>5. decoded = SubSeq(body, 1, Len(body)) /\ Len(body) \in 0 .. Len(body)
  BY <1>1, <1>3, <1>4 DEF AtMark, Closed
<1>6. decoded = body
  BY <1>1, <1>5 DEF Closed
<1>7. pc' = "decoded" /\ UNCHANGED <<serverVars, position, decoded>>
  BY <1>1, <1>6 DEF LastChunk, Closed
<1>8. DecodedIsBody'
  BY <1>5, <1>7 DEF DecodedIsBody, serverVars
<1>9. QED
  BY <1>7, <1>8
     DEF HttpInv, HttpTyped, BodyKnown, SendFollows, ReadFollows, LoopFollows,
         RefusedForCause, serverVars, LastChunk, Closed, IsUtf8

LEMMA RefuseKeeps ==
  ASSUME HttpInv, Refuse
  PROVE  HttpInv'
<1>1. /\ Closed(body) /\ stream \in Seq(Bytes) /\ cut \in BOOLEAN
      /\ \E at : /\ Arrived(body, stream, cut, at)
                 /\ \E m \in Nat : AtMark(body, at, m, position, decoded)
  BY DEF HttpInv, HttpTyped, BodyKnown, LoopFollows, Refuse
<1>2. PICK at : /\ Arrived(body, stream, cut, at)
                /\ \E m \in Nat : AtMark(body, at, m, position, decoded)
  BY <1>1
<1>3. PICK m \in Nat : AtMark(body, at, m, position, decoded)
  BY <1>2
<1>4. SizeLine => Size # 0 /\ ~Terminated
  BY DEF Refuse
<1>5. cut
  <2>1. /\ Marks(body, at)
        /\ \/ Whole(body, stream, at, m) \/ (Broken(body, stream, at, m) /\ cut)
           \/ Final(body, stream, at, m, cut)
    BY <1>2, <1>3 DEF Arrived, AtMark
  <2>2. QED
    BY <2>1, <1>1, <1>3, <1>4, AtWhole, AtFinal
<1>6. cut' /\ UNCHANGED <<serverVars, position, decoded>>
  BY <1>5 DEF Refuse, serverVars
<1>7. QED
  BY <1>6
     DEF HttpInv, HttpTyped, BodyKnown, SendFollows, ReadFollows, LoopFollows, DecodedIsBody,
         RefusedForCause, serverVars, Refuse, Closed, IsUtf8

LEMMA ExchangeKeeps ==
  ASSUME HttpInv, Exchange
  PROVE  HttpInv'
BY SendPlainKeeps, BeginChunksKeeps, SendChunkKeeps, ConnectionBreaksKeeps,
   RespondWithoutHeadKeeps, ReadFailsKeeps, ReadNotUtf8Keeps, HeadUnusableKeeps,
   ReadPlainKeeps, ReadChunkedKeeps, TakeChunkKeeps, LastChunkKeeps, RefuseKeeps
   DEF Exchange

LEMMA IdleKeeps ==
  ASSUME Idle
  PROVE  HttpInv
<1>1. << >> \in Seq(Bytes)
  OBVIOUS
<1>2. QED
  BY <1>1 DEF Idle, HttpInv, HttpTyped, BodyKnown, SendFollows, ReadFollows, LoopFollows,
              DecodedIsBody, RefusedForCause

LEMMA ResetKeeps ==
  ASSUME Reset
  PROVE  HttpInv'
<1>1. << >> \in Seq(Bytes)
  OBVIOUS
<1>2. QED
  BY <1>1 DEF Reset, Idle, HttpInv, HttpTyped, BodyKnown, SendFollows, ReadFollows, LoopFollows,
              DecodedIsBody, RefusedForCause

LEMMA AnswerKeeps ==
  ASSUME HttpInv, NEW bodies, \A b \in bodies : Closed(b), Answer(bodies)
  PROVE  HttpInv'
<1>1. Idle /\ pc' = "start" /\ body' \in bodies
      /\ UNCHANGED <<sent, head, chunked, stream, cut, position, decoded>>
  BY DEF HttpInv, BodyKnown, Answer
<1>2. Closed(body')
  BY <1>1
<1>3. Closed(body)'
  BY <1>2 DEF Closed, IsUtf8
<1>4. QED
  BY <1>1, <1>3 DEF Idle, HttpInv, HttpTyped, BodyKnown, SendFollows, ReadFollows,
                    LoopFollows, DecodedIsBody, RefusedForCause, Fresh

LEMMA HttpUnchangedKeeps ==
  ASSUME HttpInv, UNCHANGED httpVars
  PROVE  HttpInv'
<1> USE DEF httpVars, serverVars
<1>1. HttpTyped' /\ DecodedIsBody'
  BY DEF HttpInv, HttpTyped, DecodedIsBody
<1>2. RefusedForCause'
  BY DEF HttpInv, RefusedForCause, SplitCharacter, IsUtf8
<1>3. BodyKnown'
  BY DEF HttpInv, BodyKnown, Idle, Fresh, Closed, IsUtf8
<1>4. SendFollows'
  BY DEF HttpInv, SendFollows, Fresh
<1>5. ReadFollows'
  BY DEF HttpInv, ReadFollows, Fresh
<1>6. LoopFollows'
  BY DEF HttpInv, LoopFollows
<1>7. QED
  BY <1>1, <1>2, <1>3, <1>4, <1>5, <1>6 DEF HttpInv

(* The body of a failure.                                                  *)
LEMMA CloseIsClosed == Closed(<<Close>>)
<1>1. /\ <<Close>> \in Seq(BodyBytes \cup {Close}) /\ Len(<<Close>>) = 1
      /\ <<Close>>[1] = Close /\ DOMAIN <<Close>> = {1}
  OBVIOUS
<1>2. IsUtf8(<<Close>>)
  BY <1>1 DEF IsUtf8, Close, FirstHalf, SecondHalf
<1>3. QED
  BY <1>1, <1>2 DEF Closed

(* A text that ends with the closing byte is the whole body.               *)
LEMMA AcceptedIsWhole ==
  ASSUME HttpInv, Accepted
  PROVE  decoded = body
<1>1. Closed(body)
  BY DEF HttpInv, BodyKnown, Accepted
<1>2. PICK n \in 0 .. Len(body) : decoded = SubSeq(body, 1, n)
  BY DEF HttpInv, DecodedIsBody, Accepted
<1>3. Len(body) \in Nat /\ n \in Nat /\ n <= Len(body) /\ body \in Seq(BodyBytes \cup {Close})
  BY <1>1 DEF Closed
<1>4. Len(decoded) = n /\ \A i \in 1 .. n : decoded[i] = body[i]
  BY <1>2, <1>3
<1>5. n # 0
  BY <1>2, <1>3, <1>4 DEF Accepted
<1>6. body[n] = Close
  BY <1>3, <1>4, <1>5 DEF Accepted, Decodes, Last
<1>7. n = Len(body)
  BY <1>1, <1>3, <1>5, <1>6 DEF Closed
<1>8. QED
  BY <1>2, <1>3, <1>7

-----------------------------------------------------------------------------
(* The invariant of a call.                                                *)

(* What the server has said so far of the model, the list's summary and    *)
(* the body under way, was true at some moment of the call; and the        *)
(* version of this moment is among those that the history has.             *)
RecordInv ==
  /\ call \in {"", "list", "show", "generate", "embed"}
  /\ call # "" => outcome = ""
  /\ call = "" => stage = "" /\ reply = NoReply
  /\ call \in {"list", "show"} =>
       /\ model \in passed
       /\ reply.version \in passed \cup {Absent}
       /\ \A f \in Fields : listed[f] \in passed \cup {Absent}
  /\ call \in {"generate", "embed"} => passed = {}
  /\ RecordWasTrue

Inv == HttpInv /\ RecordInv

LEMMA TwoOnes ==
  ASSUME NEW a, NEW b
  PROVE  /\ Len(<<a>> \o <<b>>) = 2
         /\ (<<a>> \o <<b>>)[1] = a /\ (<<a>> \o <<b>>)[2] = b
<1>1. <<a>> \in Seq({a, b}) /\ <<b>> \in Seq({a, b}) /\ Len(<<a>>) = 1 /\ Len(<<b>>) = 1
  OBVIOUS
<1>2. /\ Len(<<a>> \o <<b>>) = Len(<<a>>) + Len(<<b>>)
      /\ \A i \in 1 .. Len(<<a>>) : (<<a>> \o <<b>>)[i] = <<a>>[i]
      /\ \A i \in 1 .. Len(<<b>>) : (<<a>> \o <<b>>)[Len(<<a>>) + i] = <<b>>[i]
  <2>1. Joined(<<a>> \o <<b>>, <<a>>, <<b>>)
    BY <1>1, Concatenated
  <2>2. QED
    BY <2>1, Zenon DEF Joined
<1>3. (<<a>> \o <<b>>)[1 + 1] = <<b>>[1]
  BY <1>1, <1>2
<1>4. QED
  BY <1>1, <1>2, <1>3

(* The summary of a list is of the requested model or empty.               *)
LEMMA SummaryIsOwn ==
  ASSUME NEW models \in Entries, NEW f \in Fields
  PROVE  Summary(models)[f] \in {reply.version, Absent}
<1> DEFINE other == [mine |-> FALSE, fields |-> [g \in Fields |-> Foreign]]
<1> DEFINE mine(given) ==
      [mine |-> TRUE,
       fields |-> [g \in Fields |-> IF g \in given THEN reply.version ELSE Absent]]
<1> DEFINE own == {<< >>} \cup IF reply.version = Absent
                                 THEN {} ELSE {<<mine(given)>> : given \in SUBSET Fields}
<1>1. Entries = {before \o e : before \in {<< >>, <<other>>}, e \in own}
  BY DEF Entries
<1>2. /\ Len(models) \in Nat
      /\ \A i \in 1 .. Len(models) : models[i].mine =>
           \E given \in SUBSET Fields : models[i] = mine(given)
  <2>1. ~other.mine
    OBVIOUS
  <2>2. \A e \in own : e = << >> \/ \E given \in SUBSET Fields : e = <<mine(given)>>
    OBVIOUS
  <2> HIDE DEF other, mine, own
  <2>3. PICK before \in {<< >>, <<other>>} : \E e \in own : models = before \o e
    BY <1>1
  <2>4. PICK e \in own : models = before \o e
    BY <2>3
  <2>5. CASE e = << >>
    <3>1. models = << >> \/ models = <<other>>
      BY <2>3, <2>4, <2>5
    <3>2. QED
      BY <3>1, <2>1
  <2>6. ASSUME NEW given \in SUBSET Fields, e = <<mine(given)>>
        PROVE  /\ Len(models) \in Nat
               /\ \A i \in 1 .. Len(models) : models[i].mine => models[i] = mine(given)
    <3>1. CASE before = << >>
      <4>1. models = <<mine(given)>>
        BY <2>4, <2>6, <3>1
      <4>2. QED
        BY <4>1
    <3>2. CASE before = <<other>>
      <4>1. models = <<other>> \o <<mine(given)>>
        BY <2>4, <2>6, <3>2
      <4>2. Len(models) = 2 /\ models[1] = other /\ models[2] = mine(given)
        BY <4>1, TwoOnes
      <4>3. QED
        BY <4>2, <2>1
    <3>3. QED
      BY <2>3, <3>1, <3>2
  <2>7. QED
    BY <2>2, <2>5, <2>6
<1> DEFINE I == {i \in 1 .. Len(models) : models[i].mine}
<1>3. CASE I = {}
  <2>1. Summary(models) = Nothing
    BY <1>3 DEF Summary, SelectInSeq
  <2>2. QED
    BY <2>1 DEF Nothing
<1>4. CASE I # {}
  <2>1. I \in SUBSET Nat
    BY <1>2
  <2>2. Min(I) \in I
    <3> HIDE DEF I
    <3>1. QED
      BY <2>1, <1>4, LeastNat DEF Min
  <2>3. Min(I) # 0
    BY <2>2
  <2>4. Summary(models) = models[Min(I)].fields
    BY <1>4, <2>3 DEF Summary, SelectInSeq
  <2>5. PICK given \in SUBSET Fields : models[Min(I)] = mine(given)
    BY <1>2, <2>2
  <2>6. QED
    BY <2>4, <2>5
<1>5. QED
  BY <1>3, <1>4

-----------------------------------------------------------------------------
(* Every step keeps the invariant of a call.                               *)

LEMMA ServerKeeps ==
  ASSUME RecordInv, ServerChanges \/ ServerAnswers
  PROVE  RecordInv'
<1>1. CASE ServerChanges
  BY <1>1 DEF RecordInv, RecordWasTrue, ServerChanges
<1>2. CASE ServerAnswers
  <2>1. reply'.version \in {model, Absent}
    BY <1>2 DEF ServerAnswers, Replies
  <2>2. call # ""
    BY <1>2 DEF RecordInv, ServerAnswers
  <2>3. UNCHANGED <<model, base, call, stage, listed, record, outcome, passed>>
    BY <1>2 DEF ServerAnswers
  <2>4. QED
    BY <2>1, <2>2, <2>3 DEF RecordInv, RecordWasTrue
<1>3. QED
  BY <1>1, <1>2

LEMMA CallKeeps ==
  ASSUME RecordInv,
         \/ New \/ ListModels \/ ShowModel \/ Generate \/ Embed \/ RequireExactKvAccess
  PROVE  RecordInv'
<1>1. NoReply.version = Absent /\ \A f \in Fields : Nothing[f] = Absent
  BY DEF NoReply, Nothing
<1>2. CASE New
  BY <1>2 DEF RecordInv, RecordWasTrue, New
<1>3. CASE ListModels
  BY <1>1, <1>3 DEF RecordInv, RecordWasTrue, ListModels, Call, Request
<1>4. CASE ShowModel
  BY <1>1, <1>4 DEF RecordInv, RecordWasTrue, ShowModel, Call, Request
<1>5. CASE Generate
  BY <1>5 DEF RecordInv, RecordWasTrue, Generate, Call, Request
<1>6. CASE Embed
  BY <1>6 DEF RecordInv, RecordWasTrue, Embed, Call, Request
<1>7. CASE RequireExactKvAccess
  BY <1>7 DEF RecordInv, RecordWasTrue, RequireExactKvAccess
<1>8. QED
  BY <1>2, <1>3, <1>4, <1>5, <1>6, <1>7

(* A call that fails says nothing of the model.                            *)
LEMMA FailureKeeps ==
  ASSUME RecordInv, NEW error, error # "answer", Return(error)
  PROVE  RecordInv'
BY DEF RecordInv, RecordWasTrue, Return

LEMMA TransportKeeps ==
  ASSUME RecordInv,
         \/ EndpointRefused \/ Endpoint \/ ConnectFails \/ Connect \/ Write
         \/ ReceiveResponse \/ TransportFails \/ ResponseRefused
  PROVE  RecordInv'
<1>1. CASE EndpointRefused
  BY <1>1, FailureKeeps DEF EndpointRefused
<1>2. CASE Endpoint
  BY <1>2 DEF RecordInv, RecordWasTrue, Endpoint
<1>3. CASE ConnectFails
  <2>1. CASE addresses > 1
    BY <1>3, <2>1 DEF RecordInv, RecordWasTrue, ConnectFails
  <2>2. CASE ~(addresses > 1)
    BY <1>3, <2>2, FailureKeeps DEF ConnectFails
  <2>3. QED
    BY <2>1, <2>2
<1>4. CASE Connect
  BY <1>4 DEF RecordInv, RecordWasTrue, Connect
<1>5. CASE Write
  <2>1. CASE Return("transport")
    BY <2>1, FailureKeeps
  <2>2. CASE stage' = "exchange" /\ UNCHANGED <<call, path, addresses, reply, listed, outcome>>
    BY <1>5, <2>2 DEF RecordInv, RecordWasTrue, Write
  <2>3. QED
    BY <1>5, <2>1, <2>2 DEF Write
<1>6. CASE ReceiveResponse
  BY <1>6 DEF RecordInv, RecordWasTrue, ReceiveResponse, clientVars
<1>7. CASE TransportFails
  <2>1. (IF pc = "transport" THEN "transport" ELSE "decode") # "answer"
    OBVIOUS
  <2>2. QED
    BY <1>7, <2>1, FailureKeeps DEF TransportFails
<1>8. CASE ResponseRefused
  <2>1. (IF Succeeded THEN "decode" ELSE "http_status") # "answer"
    OBVIOUS
  <2>2. QED
    BY <1>8, <2>1, FailureKeeps DEF ResponseRefused
<1>9. QED
  BY <1>1, <1>2, <1>3, <1>4, <1>5, <1>6, <1>7, <1>8

LEMMA ListReturnsKeeps ==
  ASSUME RecordInv, ListReturns
  PROVE  RecordInv'
<1>1. PICK models \in Entries : record' = [NoRecord EXCEPT !.given = Summary(models)]
  BY DEF ListReturns
<1>2. /\ record'.given = Summary(models) /\ record'.topology = Absent
  BY <1>1 DEF NoRecord
<1>3. /\ call' = "" /\ stage' = "" /\ reply' = NoReply /\ passed' = passed
      /\ reply.version \in passed \cup {Absent}
  BY DEF ListReturns, Return, RecordInv
<1>4. \A f \in Fields : record'.given[f] \in passed \cup {Absent}
  BY <1>2, <1>3, SummaryIsOwn
<1>5. QED
  BY <1>2, <1>3, <1>4 DEF RecordInv, RecordWasTrue

LEMMA ShowListedKeeps ==
  ASSUME RecordInv, ShowListed
  PROVE  RecordInv'
<1>1. PICK models \in Entries : listed' = Summary(models)
  BY DEF ShowListed
<1>2. /\ call = "show" /\ UNCHANGED <<model, base, call, addresses, record, outcome, passed>>
      /\ reply' = NoReply
      /\ reply.version \in passed \cup {Absent}
  BY DEF ShowListed, RecordInv
<1>3. \A f \in Fields : listed'[f] \in passed \cup {Absent}
  BY <1>1, <1>2, SummaryIsOwn
<1>4. NoReply.version = Absent
  BY DEF NoReply
<1>5. QED
  BY <1>2, <1>3, <1>4 DEF RecordInv, RecordWasTrue

LEMMA ShowReturnsKeeps ==
  ASSUME RecordInv, ShowReturns
  PROVE  RecordInv'
<1>1. PICK given \in SUBSET Fields, info \in SUBSET Keys :
        record' = [given |-> Merged(given),
                   topology |-> IF reply.fits THEN Topology(info) ELSE Absent]
  BY DEF ShowReturns
<1>2. /\ call' = "" /\ stage' = "" /\ reply' = NoReply /\ passed' = passed
      /\ reply.version \in passed \cup {Absent}
      /\ \A f \in Fields : listed[f] \in passed \cup {Absent}
  BY DEF ShowReturns, Return, RecordInv
<1>3. \A f \in Fields : record'.given[f] \in passed \cup {Absent}
  BY <1>1, <1>2 DEF Merged
<1>4. record'.topology \in passed \cup {Absent}
  BY <1>1, <1>2 DEF Topology
<1>5. QED
  BY <1>2, <1>3, <1>4 DEF RecordInv, RecordWasTrue

LEMMA ReplyReturnsKeeps ==
  ASSUME RecordInv, ReplyReturns
  PROVE  RecordInv'
BY DEF RecordInv, RecordWasTrue, ReplyReturns, Return

-----------------------------------------------------------------------------
LEMMA InitInv ==
  ASSUME Init
  PROVE  Inv
BY IdleKeeps DEF Init, Inv, RecordInv, RecordWasTrue

LEMMA NextInv ==
  ASSUME Inv, [Next]_vars
  PROVE  Inv'
<1> USE DEF Inv
<1>1. CASE UNCHANGED vars
  <2>1. RecordInv'
    BY <1>1 DEF vars, clientVars, RecordInv, RecordWasTrue
  <2>2. QED
    BY <1>1, <2>1, HttpUnchangedKeeps DEF vars
<1>2. CASE New \/ ListModels \/ ShowModel \/ Generate \/ Embed \/ RequireExactKvAccess
  BY <1>2, CallKeeps, HttpUnchangedKeeps
     DEF New, ListModels, ShowModel, Generate, Embed, RequireExactKvAccess, Call
<1>3. CASE ServerChanges
  BY <1>3, ServerKeeps, HttpUnchangedKeeps DEF ServerChanges
<1>4. CASE ServerAnswers
  <2>1. \A b \in IF reply'.fits THEN Bodies ELSE {<<Close>>} : Closed(b)
    BY BodiesAreClosed, CloseIsClosed
  <2>2. QED
    BY <1>4, <2>1, ServerKeeps, AnswerKeeps DEF ServerAnswers
<1>5. CASE EndpointRefused \/ Endpoint \/ ConnectFails \/ Connect \/ Write
  BY <1>5, TransportKeeps, HttpUnchangedKeeps
     DEF EndpointRefused, Endpoint, ConnectFails, Connect, Write
<1>6. CASE ReceiveResponse
  BY <1>6, TransportKeeps, ExchangeKeeps DEF ReceiveResponse
<1>7. CASE TransportFails \/ ResponseRefused
  BY <1>7, TransportKeeps, ResetKeeps DEF TransportFails, ResponseRefused
<1>8. CASE ListReturns \/ ShowListed \/ ShowReturns \/ ReplyReturns
  <2>1. RecordInv'
    BY <1>8, ListReturnsKeeps, ShowListedKeeps, ShowReturnsKeeps, ReplyReturnsKeeps
  <2>2. Reset
    BY <1>8 DEF ListReturns, ShowListed, ShowReturns, ReplyReturns
  <2>3. QED
    BY <2>1, <2>2, ResetKeeps
<1>9. QED
  BY <1>1, <1>2, <1>3, <1>4, <1>5, <1>6, <1>7, <1>8 DEF Next, Step

LEMMA Inductive == Spec => []Inv
BY InitInv, NextInv, PTL DEF Spec

(* A response that arrived in full is only refused when the server cut it  *)
(* within a character, or was no HTTP server: decode_chunked_body reads    *)
(* every chunking to its end, of bodies of any length and any bytes, in    *)
(* chunks whose sizes have any number of digits in any base up to 16.      *)
THEOREM NoneRefusedWithoutCause == Spec => []RefusedForCause
<1>1. Inv => RefusedForCause
  BY DEF Inv, HttpInv
<1>2. QED
  BY <1>1, Inductive, PTL

(* show_model: whatever a record says of the model was true of it during   *)
(* the call.                                                               *)
THEOREM RecordsWereTrue == Spec => []RecordWasTrue
<1>1. Inv => RecordWasTrue
  BY DEF Inv, RecordInv
<1>2. QED
  BY <1>1, Inductive, PTL

(* decode_response: a call goes on only with the whole body of a response  *)
(* that succeeded, for the same bodies and chunks, wherever the connection *)
(* broke.  The closing brace, which stands for the end that a JSON text    *)
(* needs, is nowhere else in a body (BodyAssumption).                      *)
THEOREM RepliesAreWhole == Spec => ReplyIsWhole
<1> DEFINE GoesOn == pc = "decoded" /\ pc' = "idle" /\ outcome' \in {"", "answer"}
                       => decoded = body /\ reply.status \in 200 .. 299
<1>1. ASSUME Inv, [Next]_vars, pc = "decoded", pc' = "idle", outcome' \in {"", "answer"}
      PROVE  Accepted
  <2>1. ~ UNCHANGED httpVars
    BY <1>1 DEF httpVars
  <2>2. ~ (ServerAnswers \/ ReceiveResponse)
    BY <1>1 DEF ServerAnswers, Answer, ReceiveResponse, Exchange, SendPlain, BeginChunks,
       SendChunk, ConnectionBreaks, RespondWithoutHead, ReadFails, ReadNotUtf8, HeadUnusable,
       ReadPlain, ReadChunked, TakeChunk, LastChunk, Refuse
  <2>3. ~TransportFails
    BY <1>1 DEF TransportFails
  <2>4. ~ResponseRefused
    BY <1>1 DEF ResponseRefused, Return
  <2>5. ListReturns \/ ShowListed \/ ShowReturns \/ ReplyReturns
    BY <1>1, <2>1, <2>2, <2>3, <2>4
       DEF Next, Step, vars, New, ListModels, ShowModel, Generate, Embed, Call,
           RequireExactKvAccess, ServerChanges, EndpointRefused, Endpoint, ConnectFails,
           Connect, Write
  <2>6. QED
    BY <2>5 DEF ListReturns, ShowListed, ShowReturns, ReplyReturns
<1>2. Inv /\ [Next]_vars => [GoesOn]_vars
  BY <1>1, AcceptedIsWhole DEF Inv, Accepted, Succeeded
<1>3. QED
  BY <1>2, Inductive, PTL DEF Spec, ReplyIsWhole

=============================================================================
