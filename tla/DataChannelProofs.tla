-------------------------- MODULE DataChannelProofs --------------------------
(***************************************************************************)
(* The buffer cuts the stream into exactly its objects, for every set of   *)
(* messages, however they are fragmented and whatever noise, losses and    *)
(* resubscriptions come in between.                                        *)
(***************************************************************************)
EXTENDS DataChannel, Induction, SequenceTheorems, TLAPS

-----------------------------------------------------------------------------
(* The recursive definitions have the values they are given *)

Buffers == [bytes : Seq(Bytes), depth : Nat, end : Nat]

LEMMA FedByteType ==
    ASSUME NEW b \in Buffers, NEW byte \in Bytes
    PROVE  FedByte(b, byte) \in Buffers
<1>1. Append(b.bytes, byte) \in Seq(Bytes) /\ Len(Append(b.bytes, byte)) \in Nat
  BY DEF Buffers
<1>2. b.depth \in Nat /\ b.end \in Nat
  BY DEF Buffers
<1> DEFINE opens == b.end = 0 /\ byte = "open"
           closes == b.end = 0 /\ byte = "close" /\ b.depth > 0
           bytes == Append(b.bytes, byte)
           depth == IF opens THEN b.depth + 1
                    ELSE IF closes THEN b.depth - 1 ELSE b.depth
           end == IF closes /\ b.depth = 1 THEN Len(bytes) ELSE b.end
<1>3. depth \in Nat
  <2>1. closes => b.depth - 1 \in Nat
    BY <1>2
  <2> QED
    BY <1>2, <2>1
<1>5. end \in Nat /\ bytes \in Seq(Bytes)
  BY <1>1, <1>2
<1>4. FedByte(b, byte) = [bytes |-> bytes, depth |-> depth, end |-> end]
  BY DEF FedByte
<1> HIDE DEF bytes, depth, end
<1> QED
  BY <1>3, <1>4, <1>5 DEF Buffers

\* feed()'s loop, byte by byte.
LEMMA LoopIs ==
    ASSUME NEW b \in Buffers, NEW data \in Seq(Bytes)
    PROVE  /\ Loop(b, data)[0] = b
           /\ \A n \in 1..Len(data) :
                Loop(b, data)[n] = FedByte(Loop(b, data)[n - 1], data[n])
<1> DEFINE N == Len(data)
           Is(f) == f = [n \in 0..N |->
                            IF n = 0 THEN b ELSE FedByte(f[n - 1], data[n])]
           step == [p \in (1..N) \X Buffers |-> FedByte(p[2], data[p[1]])]
<1>1. N \in Nat /\ \A n \in 1..N : data[n] \in Bytes
  OBVIOUS
<1>2. step \in [(1..N) \X Buffers -> Buffers]
  BY <1>1, FedByteType
<1>3. PICK f \in [0..N -> Buffers] : Steps(f, N, b, step)
  <2>1. N \in Nat
    OBVIOUS
  <2> HIDE DEF step, N
  <2> QED
    BY <1>2, <2>1, RecursionUpTo, Zenon
<1>4. f[0] = b /\ \A n \in 1..N : f[n] = FedByte(f[n - 1], data[n])
  BY <1>1, <1>3 DEF Steps
<1>5. Is(f)
  <2> HIDE DEF step
  <2>1. f = [n \in 0..N |-> f[n]]
    BY <1>3
  <2>2. \A n \in 0..N : n = 0 \/ n \in 1..N
    BY <1>1
  <2>3. \A n \in 0..N : f[n] = IF n = 0 THEN b ELSE FedByte(f[n - 1], data[n])
    BY <1>3, <1>4, <2>2
  <2> HIDE DEF N
  <2> QED
    BY <2>1, <2>3, Zenon
<1>6. Loop(b, data) = CHOOSE g : Is(g)
  BY Zenon DEF Loop
<1>7. Is(Loop(b, data))
  BY <1>5, <1>6, Zenon
<1> HIDE DEF step
<1> QED
  BY <1>1, <1>7

LEMMA DepthAfterType ==
    ASSUME NEW depth \in Nat, NEW byte
    PROVE  DepthAfter(depth, byte) \in Nat
BY DEF DepthAfter

\* The brace depth, byte by byte.
LEMMA DepthsAre ==
    ASSUME NEW stream \in Seq(Bytes)
    PROVE  /\ Depths(stream)[0] = 0
           /\ \A n \in 1..Len(stream) :
                Depths(stream)[n] = DepthAfter(Depths(stream)[n - 1], stream[n])
           /\ \A n \in 0..Len(stream) : Depths(stream)[n] \in Nat
<1> DEFINE N == Len(stream)
           Is(f) == f = [n \in 0..N |->
                            IF n = 0 THEN 0 ELSE DepthAfter(f[n - 1], stream[n])]
           step == [p \in (1..N) \X Nat |-> DepthAfter(p[2], stream[p[1]])]
<1>1. N \in Nat
  OBVIOUS
<1>2. step \in [(1..N) \X Nat -> Nat]
  BY <1>1, DepthAfterType
<1>3. PICK f \in [0..N -> Nat] : Steps(f, N, 0, step)
  <2> HIDE DEF step, N
  <2> QED
    BY <1>1, <1>2, RecursionUpTo, Zenon
<1>4. f[0] = 0 /\ \A n \in 1..N : f[n] = DepthAfter(f[n - 1], stream[n])
  BY <1>1, <1>3 DEF Steps
<1>5. Is(f)
  <2> HIDE DEF step
  <2>1. f = [n \in 0..N |-> f[n]]
    BY <1>3
  <2>2. \A n \in 0..N : n = 0 \/ n \in 1..N
    BY <1>1
  <2>3. \A n \in 0..N :
          f[n] = IF n = 0 THEN 0 ELSE DepthAfter(f[n - 1], stream[n])
    BY <1>3, <1>4, <2>2
  <2> HIDE DEF N
  <2> QED
    BY <2>1, <2>3, Zenon
<1>6. Depths(stream) = CHOOSE g : Is(g)
  BY Zenon DEF Depths
<1>7. Is(Depths(stream))
  BY <1>5, <1>6, Zenon
<1> HIDE DEF step
<1>8. /\ Depths(stream)[0] = 0
      /\ \A n \in 1..N :
           Depths(stream)[n] = DepthAfter(Depths(stream)[n - 1], stream[n])
  BY <1>1, <1>7
<1>9. \A n \in 0..N : Depths(stream)[n] \in Nat
  <2> DEFINE T == {n \in 0..N : Depths(stream)[n] \in Nat}
  <2>1. 0 \in T
    BY <1>1, <1>8
  <2>2. \A n \in 1..N : n - 1 \in T => n \in T
    BY <1>1, <1>8, DepthAfterType
  <2>3. \A n \in 0..N : n \in T
    <3> HIDE DEF T, N
    <3> QED
      BY <1>1, <2>1, <2>2, InductionUpTo
  <2> QED
    BY <2>3
<1> QED
  BY <1>8, <1>9

\* The first k bytes of t are those of s after the first c.
Repeats(t, s, c, k) ==
    /\ k \in 0..Len(t)
    /\ c + k \in 0..Len(s)
    /\ \A m \in 1..k : t[m] = s[c + m]

\* Their depths, and the ends and the starts of their objects, are those in s.
CountsAlike(t, s, c, k) ==
    /\ \A m \in 0..k : Depths(t)[m] = Depths(s)[c + m]
    /\ \A m \in 1..k : m \in ObjectEnds(t) <=> c + m \in ObjectEnds(s)
    /\ \A m \in 1..k : m \in ObjectStarts(t) <=> c + m \in ObjectStarts(s)

\* Where no object is open, counting may start over.
LEMMA CountingStartsOver ==
    ASSUME NEW s \in Seq(Bytes), NEW t \in Seq(Bytes),
           NEW c \in Nat, Depths(s)[c] = 0,
           NEW k \in Nat, Repeats(t, s, c, k)
    PROVE  CountsAlike(t, s, c, k)
<1>0. /\ Len(s) \in Nat /\ Len(t) \in Nat /\ k <= Len(t) /\ c + k <= Len(s)
      /\ \A m \in 1..k : t[m] = s[c + m]
  BY DEF Repeats
<1>1. /\ Depths(t)[0] = 0
      /\ \A n \in 1..Len(t) : Depths(t)[n] = DepthAfter(Depths(t)[n - 1], t[n])
      /\ \A n \in 1..Len(s) : Depths(s)[n] = DepthAfter(Depths(s)[n - 1], s[n])
  BY DepthsAre
<1>2. \A m \in 0..k : Depths(t)[m] = Depths(s)[c + m]
  <2> DEFINE T == {m \in 0..k : Depths(t)[m] = Depths(s)[c + m]}
  <2>1. 0 \in T
    BY <1>0, <1>1
  <2>2. ASSUME NEW m \in 1..k, m - 1 \in T PROVE m \in T
    <3>1. m \in 1..Len(t) /\ c + m \in 1..Len(s) /\ (c + m) - 1 = c + (m - 1)
      BY <1>0
    <3>2. Depths(t)[m - 1] = Depths(s)[(c + m) - 1]
      BY <2>2, <3>1
    <3> QED
      BY <1>0, <1>1, <3>1, <3>2
  <2>3. \A m \in 0..k : m \in T
    <3> HIDE DEF T
    <3> QED
      BY <1>0, <2>1, <2>2, InductionUpTo
  <2> QED
    BY <2>3
<1>3. ASSUME NEW m \in 1..k
      PROVE  /\ Depths(t)[m - 1] = Depths(s)[(c + m) - 1] /\ t[m] = s[c + m]
             /\ m \in 1..Len(t) /\ c + m \in 1..Len(s)
  <2>1. m - 1 \in 0..k /\ (c + m) - 1 = c + (m - 1)
    BY <1>0
  <2> QED
    BY <1>0, <1>2, <2>1
<1> QED
  BY <1>2, <1>3 DEF CountsAlike, ObjectEnds, ObjectStarts

-----------------------------------------------------------------------------
(* What feeding a buffer makes of it *)

\* b is what the first n bytes of s make of an empty buffer: these bytes, and
\* either their depth or the end of the first object among them.
Counts(b, s, n) ==
    /\ b.bytes = SubSeq(s, 1, n)
    /\ \/ /\ b.end = 0
          /\ b.depth = Depths(s)[n]
          /\ \A k \in 1..n : k \notin ObjectEnds(s)
       \/ /\ b.end \in 1..n
          /\ b.end \in ObjectEnds(s)
          /\ \A k \in 1..(b.end - 1) : k \notin ObjectEnds(s)

LEMMA CountsByte ==
    ASSUME NEW s \in Seq(Bytes), NEW n \in 1..Len(s), NEW b \in Buffers,
           Counts(b, s, n - 1)
    PROVE  Counts(FedByte(b, s[n]), s, n)
<1> DEFINE f == FedByte(b, s[n])
           D == Depths(s)
<1> SUFFICES Counts(f, s, n)
  OBVIOUS
<1>0. n \in Nat /\ n - 1 \in Nat /\ Len(s) \in Nat
  OBVIOUS
<1>1. s[n] \in Bytes /\ b.depth \in Nat /\ b.end \in Nat /\ b.bytes \in Seq(Bytes)
  BY DEF Buffers
<1>2. /\ f.bytes = Append(b.bytes, s[n])
      /\ f.depth = IF b.end = 0 /\ s[n] = "open" THEN b.depth + 1
                   ELSE IF b.end = 0 /\ s[n] = "close" /\ b.depth > 0
                   THEN b.depth - 1 ELSE b.depth
      /\ f.end = IF b.end = 0 /\ s[n] = "close" /\ b.depth > 0 /\ b.depth = 1
                 THEN Len(Append(b.bytes, s[n])) ELSE b.end
  BY DEF FedByte
<1>3. f.bytes = SubSeq(s, 1, n) /\ Len(f.bytes) = n
  BY <1>0, <1>1, <1>2 DEF Counts
<1>4. CASE b.end > 0
  <2>1. b.end \in 1..(n - 1) /\ b.end \in 1..n /\ f.end = b.end
    BY <1>0, <1>1, <1>2, <1>4 DEF Counts
  <2> QED
    BY <1>0, <1>3, <1>4, <2>1 DEF Counts
<1>5. CASE ~(b.end > 0)
  <2>1. /\ b.end = 0 /\ b.depth = D[n - 1]
        /\ \A k \in 1..(n - 1) : k \notin ObjectEnds(s)
    BY <1>0, <1>1, <1>5 DEF Counts
  <2>2. D[n] = DepthAfter(D[n - 1], s[n])
    BY DepthsAre
  <2>3. n \in ObjectEnds(s) <=> s[n] = "close" /\ b.depth = 1
    BY <2>1 DEF ObjectEnds
  <2>4. CASE n \in ObjectEnds(s)
    <3>1. f.end = n
      BY <1>2, <1>3, <2>1, <2>3, <2>4
    <3> HIDE DEF f
    <3> QED
      BY <1>0, <1>3, <2>1, <2>4, <3>1 DEF Counts
  <2>5. CASE n \notin ObjectEnds(s)
    <3>1. f.end = 0 /\ f.depth = D[n]
      BY <1>1, <1>2, <2>1, <2>2, <2>3, <2>5 DEF DepthAfter
    <3>2. \A k \in 1..n : k \notin ObjectEnds(s)
      BY <1>0, <2>1, <2>5
    <3> HIDE DEF f
    <3> QED
      BY <1>3, <3>1, <3>2 DEF Counts
  <2> QED
    BY <2>4, <2>5
<1> QED
  BY <1>4, <1>5

\* Buffers as feed() makes them.
WholeBuffers == {b \in Buffers : Counts(b, b.bytes, Len(b.bytes))}

LEMMA EmptyIsWhole == EmptyBuffer \in WholeBuffers /\ EmptyBuffer.bytes = <<>>
<1> DEFINE e == EmptyBuffer
<1>1. e.bytes = <<>> /\ e.depth = 0 /\ e.end = 0 /\ Len(<<>>) = 0
  BY DEF EmptyBuffer
<1>2. e \in Buffers /\ <<>> \in Seq(Bytes) /\ SubSeq(<<>>, 1, 0) = <<>>
  BY DEF EmptyBuffer, Buffers
<1>3. Depths(<<>>)[0] = 0
  BY <1>2, DepthsAre
<1> HIDE DEF e
<1>4. Counts(e, e.bytes, Len(e.bytes))
  BY <1>1, <1>2, <1>3 DEF Counts
<1>5. e \in WholeBuffers
  BY <1>2, <1>4 DEF WholeBuffers
<1> QED
  BY <1>1, <1>5 DEF e

\* Feeding goes on where the bytes in the buffer left off, wherever that is.
LEMMA FedIsWhole ==
    ASSUME NEW b \in WholeBuffers, b.end = 0, NEW data \in Seq(Bytes)
    PROVE  /\ Loop(b, data)[Len(data)] \in WholeBuffers
           /\ Loop(b, data)[Len(data)].bytes = b.bytes \o data
<1> DEFINE s == b.bytes \o data
           c == Len(b.bytes)
           N == Len(data)
           f == Loop(b, data)
<1>1. /\ b \in Buffers /\ b.bytes \in Seq(Bytes) /\ s \in Seq(Bytes)
      /\ Counts(b, b.bytes, c) /\ c \in Nat /\ N \in Nat /\ Len(s) = c + N
  BY DEF WholeBuffers, Buffers
<1>2. /\ \A m \in 1..c : b.bytes[m] = s[m]
      /\ \A m \in 1..N : data[m] = s[c + m]
      /\ SubSeq(s, 1, c) = b.bytes /\ SubSeq(s, 1, Len(s)) = s
      /\ SubSeq(b.bytes, 1, c) = b.bytes
  BY <1>1
<1>3. Counts(b, s, c)
  <2>1. /\ b.depth = Depths(b.bytes)[c]
        /\ \A k \in 1..c : k \notin ObjectEnds(b.bytes)
    BY <1>1 DEF Counts
  <2>2. Repeats(b.bytes, s, 0, c)
    BY <1>1, <1>2 DEF Repeats
  <2> HIDE DEF s, c
  <2>3. Depths(s)[0] = 0
    BY <1>1, DepthsAre
  <2>4. CountsAlike(b.bytes, s, 0, c)
    BY <1>1, <2>2, <2>3, CountingStartsOver
  <2>5. Depths(b.bytes)[c] = Depths(s)[c] /\ \A k \in 1..c : k \notin ObjectEnds(s)
    BY <1>1, <2>1, <2>4 DEF CountsAlike
  <2> QED
    BY <1>1, <1>2, <2>1, <2>5 DEF Counts
<1>4. f[0] = b /\ \A n \in 1..N : f[n] = FedByte(f[n - 1], data[n])
  BY <1>1, LoopIs
<1>5. \A n \in 0..N : f[n] \in Buffers /\ Counts(f[n], s, c + n)
  <2> DEFINE T == {n \in 0..N : f[n] \in Buffers /\ Counts(f[n], s, c + n)}
  <2> HIDE DEF f, s, c
  <2>1. 0 \in T
    BY <1>1, <1>3, <1>4
  <2>2. ASSUME NEW n \in 1..N, n - 1 \in T PROVE n \in T
    <3>1. /\ f[n - 1] \in Buffers /\ Counts(f[n - 1], s, (c + n) - 1)
          /\ c + n \in 1..Len(s) /\ data[n] \in Bytes /\ data[n] = s[c + n]
      <4>1. c + (n - 1) = (c + n) - 1
        BY <1>1
      <4> QED
        BY <1>1, <1>2, <2>2, <4>1
    <3>2. f[n] = FedByte(f[n - 1], s[c + n])
      BY <1>4, <3>1
    <3>3. f[n] \in Buffers
      BY <3>1, <3>2, FedByteType
    <3>4. Counts(f[n], s, c + n)
      BY <1>1, <3>1, <3>2, CountsByte
    <3> QED
      BY <3>3, <3>4
  <2>3. \A n \in 0..N : n \in T
    <3> HIDE DEF T, N
    <3> QED
      BY <1>1, <2>1, <2>2, InductionUpTo
  <2> QED
    BY <2>3
<1>6. f[N] \in Buffers /\ Counts(f[N], s, Len(s))
  BY <1>1, <1>5
<1>7. f[N].bytes = s
  BY <1>2, <1>6 DEF Counts
<1> HIDE DEF f, s, N
<1>8. f[N] \in WholeBuffers /\ f[N].bytes = s
  BY <1>6, <1>7 DEF WholeBuffers
<1> QED
  BY <1>8 DEF f, s, N

-----------------------------------------------------------------------------
(* What message_in_place cuts off *)

\* No object is open before the first opening brace.
LEMMA NoneOpenAtFirst ==
    ASSUME NEW t \in Seq(Bytes), NEW n \in 0..Len(t),
           \A m \in 1..n : t[m] # "open"
    PROVE  \A m \in 0..n : Depths(t)[m] = 0
<1> DEFINE T == {m \in 0..n : Depths(t)[m] = 0}
<1>0. n \in Nat /\ Len(t) \in Nat
  OBVIOUS
<1>1. 0 \in T
  BY <1>0, DepthsAre
<1>2. ASSUME NEW m \in 1..n, m - 1 \in T PROVE m \in T
  <2>1. m \in 1..Len(t) /\ Depths(t)[m - 1] = 0 /\ t[m] # "open"
    BY <1>0, <1>2
  <2>2. Depths(t)[m] = DepthAfter(Depths(t)[m - 1], t[m])
    BY <2>1, DepthsAre
  <2> QED
    BY <1>0, <2>1, <2>2 DEF DepthAfter
<1>3. \A m \in 0..n : m \in T
  <2> HIDE DEF T
  <2> QED
    BY <1>0, <1>1, <1>2, InductionUpTo
<1> QED
  BY <1>3

\* e is where the first object of t ends.
FirstEnd(t, e) ==
    /\ e \in ObjectEnds(t)
    /\ \A k \in 1..(e - 1) : k \notin ObjectEnds(t)

FirstOpen(t) == SelectInSeq(t, LAMBDA byte : byte = "open")

\* The first object goes from the first opening brace to the first end, and no
\* other one starts in between.
LEMMA FirstObject ==
    ASSUME NEW t \in Seq(Bytes), NEW e, FirstEnd(t, e)
    PROVE  /\ e \in 1..Len(t)
           /\ Depths(t)[e] = 0
           /\ FirstOpen(t) \in 1..(e - 1)
           /\ FirstOpen(t) \in ObjectStarts(t)
           /\ \A n \in 1..e : n \in ObjectStarts(t) => n = FirstOpen(t)
<1> DEFINE D == Depths(t)
           I == {i \in 1..Len(t) : t[i] = "open"}
           start == FirstOpen(t)
<1>1. /\ e \in 1..Len(t) /\ t[e] = "close" /\ D[e - 1] = 1 /\ Len(t) \in Nat
      /\ \A k \in 1..(e - 1) : ~(t[k] = "close" /\ D[k - 1] = 1)
  BY DEF FirstEnd, ObjectEnds
<1>2. /\ D[0] = 0
      /\ \A n \in 1..Len(t) : D[n] = DepthAfter(D[n - 1], t[n])
      /\ \A n \in 0..Len(t) : D[n] \in Nat
  BY DepthsAre
<1>3. D[e] = 0
  BY <1>1, <1>2 DEF DepthAfter
<1>4. PICK m \in 1..(e - 1) : t[m] = "open"
  <2>1. SUFFICES ASSUME \A m \in 1..(e - 1) : t[m] # "open" PROVE FALSE
    OBVIOUS
  <2>2. e - 1 \in 0..Len(t)
    BY <1>1
  <2>3. e - 1 \in 0..(e - 1)
    BY <1>1
  <2>4. D[e - 1] = 0
    BY <2>1, <2>2, <2>3, NoneOpenAtFirst
  <2> QED
    BY <1>1, <2>4
<1>5. start \in I /\ \A i \in I : start <= i
  <2>1. I \subseteq Nat /\ m \in I
    BY <1>1, <1>4
  <2>2. start = Min(I)
    BY <2>1 DEF FirstOpen, SelectInSeq
  <2> HIDE DEF I, start
  <2>3. \E least \in I : \A i \in I : least <= i
    BY <2>1, LeastNatural
  <2>4. Min(I) \in I /\ \A i \in I : Min(I) <= i
    BY <2>3 DEF Min
  <2> QED
    BY <2>2, <2>4
<1> HIDE DEF start
<1>6. /\ start \in 1..(e - 1) /\ start \in 1..Len(t) /\ t[start] = "open"
      /\ \A k \in 1..(start - 1) : t[k] # "open"
  BY <1>1, <1>4, <1>5
<1>7. D[start - 1] = 0
  <2>1. start - 1 \in 0..Len(t) /\ start - 1 \in 0..(start - 1)
    BY <1>1, <1>6
  <2> QED
    BY <1>6, <2>1, NoneOpenAtFirst
<1>8. \A j \in 0..((e - 1) - start) : D[start + j] >= 1
  <2> DEFINE N == (e - 1) - start
             T == {j \in 0..N : D[start + j] >= 1}
  <2>1. N \in Nat
    BY <1>1, <1>6
  <2>2. 0 \in T
    BY <1>1, <1>2, <1>6, <1>7 DEF DepthAfter
  <2>3. ASSUME NEW j \in 1..N, j - 1 \in T PROVE j \in T
    <3>1. /\ start + j \in 1..(e - 1) /\ start + j \in 1..Len(t)
          /\ start + (j - 1) = (start + j) - 1 /\ (start + j) - 1 \in 0..Len(t)
      BY <1>1, <1>6, <2>1
    <3>2. D[(start + j) - 1] >= 1 /\ D[(start + j) - 1] \in Nat
      BY <1>2, <2>3, <3>1
    <3>3. ~(t[start + j] = "close" /\ D[(start + j) - 1] = 1)
      BY <1>1, <3>1
    <3>4. D[start + j] = DepthAfter(D[(start + j) - 1], t[start + j])
      BY <1>2, <3>1
    <3>5. D[start + j] >= 1
      BY <3>2, <3>3, <3>4 DEF DepthAfter
    <3> QED
      BY <3>5
  <2>4. \A j \in 0..N : j \in T
    <3> HIDE DEF T, N
    <3> QED
      BY <2>1, <2>2, <2>3, InductionUpTo
  <2> QED
    BY <2>4
<1>9. start \in ObjectStarts(t)
  BY <1>6, <1>7 DEF ObjectStarts
<1>10. ASSUME NEW n \in 1..e, n \in ObjectStarts(t) PROVE n = start
  <2>1. t[n] = "open" /\ D[n - 1] = 0 /\ n \in 1..Len(t)
    BY <1>10 DEF ObjectStarts
  <2>2. ~(n < start)
    BY <1>6, <2>1
  <2>3. ~(n > start)
    <3>1. SUFFICES ASSUME n > start PROVE FALSE
      OBVIOUS
    <3>2. n \in 1..(e - 1) /\ n - 1 - start \in 0..((e - 1) - start)
          /\ start + (n - 1 - start) = n - 1
      BY <1>1, <1>6, <2>1, <3>1
    <3>3. D[n - 1] >= 1
      BY <1>8, <3>2
    <3> QED
      BY <2>1, <3>3
  <2> QED
    BY <1>6, <2>2, <2>3
<1> QED
  BY <1>1, <1>3, <1>6, <1>9, <1>10 DEF start

\* The objects, byte by byte.
LEMMA ObjectsAre ==
    ASSUME NEW s \in Seq(Bytes)
    PROVE  /\ ObjectsAmong(s)[0] = <<>>
           /\ \A n \in 1..Len(s) :
                ObjectsAmong(s)[n] = IF n \in ObjectEnds(s)
                                     THEN Append(ObjectsAmong(s)[n - 1], ObjectAt(s, n))
                                     ELSE ObjectsAmong(s)[n - 1]
<1> DEFINE N == Len(s)
           Some == {ObjectAt(s, n) : n \in 1..N}
           Next1(among, n) == IF n \in ObjectEnds(s)
                             THEN Append(among, ObjectAt(s, n)) ELSE among
           Is(f) == f = [n \in 0..N |->
                            IF n = 0 THEN <<>>
                            ELSE IF n \in ObjectEnds(s)
                            THEN Append(f[n - 1], ObjectAt(s, n))
                            ELSE f[n - 1]]
           step == [p \in (1..N) \X Seq(Some) |-> Next1(p[2], p[1])]
<1>1. N \in Nat /\ <<>> \in Seq(Some)
  OBVIOUS
<1>2. step \in [(1..N) \X Seq(Some) -> Seq(Some)]
  <2>1. \A n \in 1..N : ObjectAt(s, n) \in Some
    OBVIOUS
  <2> HIDE DEF Some, N
  <2> QED
    BY <2>1
<1>3. PICK f \in [0..N -> Seq(Some)] : Steps(f, N, <<>>, step)
  <2> HIDE DEF step, N, Some
  <2> QED
    BY <1>1, <1>2, RecursionUpTo, Zenon
<1>4. f[0] = <<>> /\ \A n \in 1..N : f[n] = Next1(f[n - 1], n)
  <2>1. \A n \in 1..N : n - 1 \in 0..N
    BY <1>1
  <2> HIDE DEF N, Some, Next1
  <2> QED
    BY <1>1, <1>3, <2>1 DEF Steps
<1>5. Is(f)
  <2> HIDE DEF step, Some
  <2>1. f = [n \in 0..N |-> f[n]]
    BY <1>3
  <2>2. \A n \in 0..N : n = 0 \/ n \in 1..N
    BY <1>1
  <2>3. \A n \in 0..N : f[n] = IF n = 0 THEN <<>>
                                ELSE IF n \in ObjectEnds(s)
                                THEN Append(f[n - 1], ObjectAt(s, n))
                                ELSE f[n - 1]
    BY <1>4, <2>2
  <2> HIDE DEF N
  <2> QED
    BY <2>1, <2>3, Zenon
<1>6. ObjectsAmong(s) = CHOOSE g : Is(g)
  BY Zenon DEF ObjectsAmong
<1> DEFINE among == ObjectsAmong(s)
<1>7. Is(among)
  BY <1>5, <1>6, Zenon
<1>8. /\ 0 \in 0..N /\ \A n \in 1..N : n \in 0..N /\ n # 0
  BY <1>1
<1> HIDE DEF step, Some, N, among
<1>9. among[0] = <<>>
  BY <1>7, <1>8
<1>10. \A n \in 1..N : among[n] = Next1(among[n - 1], n)
  BY <1>7, <1>8
<1> QED
  BY <1>9, <1>10 DEF N, among

LEMMA NoObjectsAdded ==
    ASSUME NEW s \in Seq(Bytes), NEW c \in 0..Len(s), NEW d \in 0..(Len(s) - c),
           \A m \in 1..d : c + m \notin ObjectEnds(s)
    PROVE  ObjectsAmong(s)[c + d] = ObjectsAmong(s)[c]
<1> DEFINE T == {m \in 0..d : ObjectsAmong(s)[c + m] = ObjectsAmong(s)[c]}
<1>0. Len(s) \in Nat /\ c \in Nat /\ d \in Nat /\ c + d <= Len(s)
  OBVIOUS
<1>1. 0 \in T
  BY <1>0
<1>2. ASSUME NEW m \in 1..d, m - 1 \in T PROVE m \in T
  <2>1. c + m \in 1..Len(s) /\ c + (m - 1) = (c + m) - 1
    BY <1>0
  <2>2. ObjectsAmong(s)[c + m] = ObjectsAmong(s)[(c + m) - 1]
    BY <2>1, ObjectsAre
  <2>3. ObjectsAmong(s)[(c + m) - 1] = ObjectsAmong(s)[c]
    BY <1>2, <2>1
  <2> QED
    BY <2>2, <2>3
<1>3. \A m \in 0..d : m \in T
  <2> HIDE DEF T
  <2> QED
    BY <1>0, <1>1, <1>2, InductionUpTo
<1>4. d \in 0..d
  BY <1>0
<1> QED
  BY <1>3, <1>4

\* What follows the first c bytes of a stream.
From(s, c) == SubSeq(s, c + 1, Len(s))

LEMMA FromRepeats ==
    ASSUME NEW s \in Seq(Bytes), NEW c \in 0..Len(s)
    PROVE  /\ From(s, c) \in Seq(Bytes)
           /\ Len(From(s, c)) = Len(s) - c
           /\ \A m \in 1..(Len(s) - c) : From(s, c)[m] = s[c + m]
           /\ Repeats(From(s, c), s, c, Len(s) - c)
<1>1. Len(s) \in Nat /\ c \in Nat /\ c <= Len(s)
  OBVIOUS
<1>2. From(s, c) \in Seq(Bytes) /\ Len(From(s, c)) = Len(s) - c
  BY <1>1 DEF From
<1>3. \A m \in 1..(Len(s) - c) : From(s, c)[m] = s[c + m]
  BY <1>1 DEF From
<1> QED
  BY <1>1, <1>2, <1>3 DEF Repeats

\* The next object of a stream is the first one of what follows.
LEMMA NextObject ==
    ASSUME NEW s \in Seq(Bytes), NEW c \in 0..Len(s), Depths(s)[c] = 0,
           NEW e, FirstEnd(From(s, c), e)
    PROVE  /\ e \in 1..(Len(s) - c)
           /\ c + e \in ObjectEnds(s)
           /\ Depths(s)[c + e] = 0
           /\ ObjectsAmong(s)[c + e] =
                Append(ObjectsAmong(s)[c],
                       SubSeq(From(s, c), FirstOpen(From(s, c)), e))
<1> DEFINE t == From(s, c)
           k == Len(s) - c
           start == FirstOpen(t)
           X == {n \in ObjectStarts(s) : n < c + e}
<1>1. Len(s) \in Nat /\ c \in Nat /\ c <= Len(s) /\ k \in Nat /\ c + k = Len(s)
  OBVIOUS
<1>2. /\ t \in Seq(Bytes) /\ Len(t) = k /\ Repeats(t, s, c, k)
      /\ \A m \in 1..k : t[m] = s[c + m]
  BY FromRepeats
<1>3. CountsAlike(t, s, c, k)
  <2> HIDE DEF t, k
  <2> QED
    BY <1>1, <1>2, CountingStartsOver
<1>4. /\ e \in 1..k /\ Depths(t)[e] = 0
      /\ start \in 1..(e - 1) /\ start \in ObjectStarts(t)
      /\ \A n \in 1..e : n \in ObjectStarts(t) => n = start
      /\ e \in ObjectEnds(t) /\ \A n \in 1..(e - 1) : n \notin ObjectEnds(t)
  <2> HIDE DEF start
  <2>1. FirstEnd(t, e)
    OBVIOUS
  <2> HIDE DEF t, k
  <2> QED
    BY <1>2, <2>1, FirstObject DEF FirstEnd, start
<1> HIDE DEF t, start
<1>5. Depths(s)[c + e] = 0 /\ c + e \in ObjectEnds(s)
  BY <1>1, <1>3, <1>4 DEF CountsAlike
<1>6. /\ c + e \in 1..Len(s) /\ e - 1 \in 0..k /\ c + (e - 1) = (c + e) - 1
      /\ start \in 1..k /\ c + start < c + e
  BY <1>1, <1>4
<1>7. ASSUME NEW m \in 1..(e - 1) PROVE c + m \notin ObjectEnds(s)
  <2>1. m \in 1..k
    BY <1>1, <1>4
  <2>2. m \notin ObjectEnds(t)
    BY <1>4
  <2> QED
    BY <1>3, <2>1, <2>2 DEF CountsAlike
<1>8. ObjectsAmong(s)[(c + e) - 1] = ObjectsAmong(s)[c]
  <2>1. e - 1 \in 0..(Len(s) - c)
    BY <1>6
  <2> QED
    BY <1>6, <1>7, <2>1, NoObjectsAdded
<1>9. Max(X) = c + start
  <2>1. c + start \in X
    BY <1>3, <1>4, <1>6 DEF CountsAlike
  <2>2. ASSUME NEW x \in X PROVE x \in Nat /\ c + start >= x
    <3>1. x \in 1..Len(s) /\ x < c + e /\ x \in ObjectStarts(s)
      BY DEF ObjectStarts
    <3>2. CASE x <= c
      BY <1>1, <1>6, <3>1, <3>2
    <3>3. CASE x > c
      <4>1. x - c \in 1..e /\ x - c \in 1..k /\ c + (x - c) = x
        BY <1>1, <1>6, <1>4, <3>1, <3>3
      <4>2. x - c \in ObjectStarts(t)
        BY <1>3, <3>1, <4>1 DEF CountsAlike
      <4>3. x - c = start
        BY <1>4, <4>1, <4>2
      <4> QED
        BY <1>1, <3>1, <4>1, <4>3
    <3> QED
      BY <1>1, <3>1, <3>2, <3>3
  <2> HIDE DEF X
  <2>3. \A x \in X : (\A y \in X : x >= y) => x = c + start
    BY <1>1, <1>6, <2>1, <2>2
  <2>4. \A y \in X : c + start >= y
    BY <2>2
  <2> QED
    BY <2>1, <2>3, <2>4 DEF Max
<1>10. ObjectAt(s, c + e) = SubSeq(t, start, e)
  <2>1. ObjectAt(s, c + e) = SubSeq(s, c + start, c + e)
    BY <1>9 DEF ObjectAt
  <2>2. SubSeq(s, c + start, c + e) = SubSeq(t, start, e)
    <3>1. /\ SubSeq(s, c + start, c + e) \in Seq(Bytes)
          /\ SubSeq(t, start, e) \in Seq(Bytes)
          /\ Len(SubSeq(s, c + start, c + e)) = (e - start) + 1
          /\ Len(SubSeq(t, start, e)) = (e - start) + 1
      BY <1>1, <1>2, <1>4, <1>6
    <3>2. ASSUME NEW i \in 1..((e - start) + 1)
          PROVE  SubSeq(s, c + start, c + e)[i] = SubSeq(t, start, e)[i]
      <4>1. /\ (start + i) - 1 \in 1..k
            /\ c + ((start + i) - 1) = ((c + start) + i) - 1
        BY <1>1, <1>4, <1>6
      <4>2. /\ SubSeq(s, c + start, c + e)[i] = s[((c + start) + i) - 1]
            /\ SubSeq(t, start, e)[i] = t[(start + i) - 1]
        BY <1>1, <1>2, <1>4, <1>6
      <4> QED
        BY <1>2, <4>1, <4>2
    <3> HIDE DEF k
    <3> QED
      BY <3>1, <3>2, SeqEqual
  <2> QED
    BY <2>1, <2>2
<1>11. ObjectsAmong(s)[c + e] =
         Append(ObjectsAmong(s)[(c + e) - 1], ObjectAt(s, c + e))
  BY <1>5, <1>6, ObjectsAre
<1>12. ObjectsAmong(s)[c + e] = Append(ObjectsAmong(s)[c], SubSeq(t, start, e))
  BY <1>8, <1>10, <1>11
<1> QED
  BY <1>4, <1>5, <1>12 DEF t, start

LEMMA SubSeqOfTail ==
    ASSUME NEW s \in Seq(Bytes), NEW m \in 1..Len(s),
           NEW i \in Nat \ {0}, NEW j \in Nat, m + j <= Len(s) + 1
    PROVE  SubSeq(SubSeq(s, m, Len(s)), i, j) = SubSeq(s, m + i - 1, m + j - 1)
<1> DEFINE t == SubSeq(s, m, Len(s))
           left == SubSeq(t, i, j)
           right == SubSeq(s, m + i - 1, m + j - 1)
           n == IF i <= j THEN j - i + 1 ELSE 0
<1>1. Len(s) \in Nat /\ m \in Nat /\ m <= Len(s) /\ n \in Nat
  OBVIOUS
<1>2. /\ t \in Seq(Bytes) /\ Len(t) = Len(s) - m + 1
      /\ \A k \in 1..(Len(s) - m + 1) : t[k] = s[m + k - 1]
  BY <1>1
<1> HIDE DEF t
<1>3. left \in Seq(Bytes) /\ Len(left) = n
  BY <1>1, <1>2
<1>4. right \in Seq(Bytes) /\ Len(right) = n
  BY <1>1
<1>5. ASSUME NEW k \in 1..n PROVE left[k] = right[k]
  <2>1. i <= j /\ n = j - i + 1 /\ i + k - 1 \in 1..(Len(s) - m + 1)
    BY <1>1
  <2>2. left[k] = t[i + k - 1]
    BY <1>1, <1>2, <2>1
  <2>3. right[k] = s[(m + i - 1) + k - 1]
    BY <1>1, <2>1
  <2>4. t[i + k - 1] = s[m + (i + k - 1) - 1]
    BY <1>2, <2>1
  <2>5. m + (i + k - 1) - 1 = (m + i - 1) + k - 1
    BY <1>1
  <2> QED
    BY <2>2, <2>3, <2>4, <2>5
<1>6. left = right
  <2> HIDE DEF left, right, n
  <2> QED
    BY <1>3, <1>4, <1>5, SeqEqual
<1> QED
  BY <1>6 DEF t

\* One message is cut off, from its first brace to its last; what follows it is
\* counted from nothing.
LEMMA CutOne ==
    ASSUME NEW b \in WholeBuffers, b.end # 0
    PROVE  /\ FirstEnd(b.bytes, b.end)
           /\ SubSeq(MessageInPlace(b).bytes, 1, MessageInPlace(b).end)
                = SubSeq(b.bytes, FirstOpen(b.bytes), b.end)
           /\ Consume(MessageInPlace(b)) \in WholeBuffers
           /\ Consume(MessageInPlace(b)).bytes = From(b.bytes, b.end)
<1> DEFINE t == b.bytes
           e == b.end
           start == FirstOpen(t)
           message == MessageInPlace(b)
<1>1. /\ t \in Seq(Bytes) /\ Len(t) \in Nat /\ e \in Nat /\ b.depth \in Nat
      /\ b = [bytes |-> t, depth |-> b.depth, end |-> e] /\ Counts(b, t, Len(t))
  BY DEF WholeBuffers, Buffers
<1>2. FirstEnd(t, e)
  BY DEF WholeBuffers, Counts, FirstEnd
<1>3. e \in 1..Len(t) /\ start \in 1..(e - 1)
  <2> HIDE DEF t, e
  <2> QED
    BY <1>1, <1>2, FirstObject DEF start
<1>4. message.bytes = SubSeq(t, start, Len(t)) /\ message.end = e - start + 1
  BY <1>1 DEF MessageInPlace, FirstOpen
<1> DEFINE len == Len(t)
<1> HIDE DEF t, e, start, message
<1>10. /\ t \in Seq(Bytes) /\ len \in Nat /\ e \in Nat /\ start \in Nat
       /\ 1 <= start /\ start < e /\ e <= len
  BY <1>1, <1>3
<1>5. SubSeq(message.bytes, 1, message.end) = SubSeq(t, start, e)
  <2>1. /\ start \in 1..len /\ e - start + 1 \in Nat
        /\ start + (e - start + 1) <= len + 1
        /\ start + 1 - 1 = start /\ start + (e - start + 1) - 1 = e
    <3> HIDE DEF len
    <3> QED
      BY <1>10
  <2>2. SubSeq(SubSeq(t, start, Len(t)), 1, e - start + 1)
          = SubSeq(t, start + 1 - 1, start + (e - start + 1) - 1)
    BY <1>10, <2>1, SubSeqOfTail
  <2> QED
    BY <1>4, <2>1, <2>2
<1> DEFINE tail == SubSeq(message.bytes, message.end + 1, Len(message.bytes))
<1>6. tail = From(t, e)
  <2>1. /\ start \in 1..len /\ (e - start + 1) + 1 \in Nat \ {0}
        /\ len - start + 1 \in Nat
        /\ start + (len - start + 1) <= len + 1
        /\ start + ((e - start + 1) + 1) - 1 = e + 1
        /\ start + (len - start + 1) - 1 = len
    <3> HIDE DEF len
    <3> QED
      BY <1>10
  <2>2. Len(message.bytes) = len - start + 1
    BY <1>10, <1>4, <2>1
  <2>3. SubSeq(SubSeq(t, start, Len(t)), (e - start + 1) + 1, len - start + 1)
          = SubSeq(t, start + ((e - start + 1) + 1) - 1,
                   start + (len - start + 1) - 1)
    BY <1>10, <2>1, SubSeqOfTail
  <2> QED
    BY <1>4, <2>1, <2>2, <2>3 DEF From
<1>7. tail \in Seq(Bytes)
  <2>1. e \in 0..Len(t)
    BY <1>10
  <2>2. From(t, e) \in Seq(Bytes)
    BY <1>10, <2>1, FromRepeats
  <2> QED
    BY <1>6, <2>2
<1>8. Consume(message) = Loop(EmptyBuffer, tail)[Len(tail)]
  BY DEF Consume
<1> HIDE DEF tail
<1>9. Consume(message) \in WholeBuffers /\ Consume(message).bytes = tail
  <2>1. /\ EmptyBuffer \in WholeBuffers /\ EmptyBuffer.end = 0
        /\ EmptyBuffer.bytes = <<>>
    BY EmptyIsWhole DEF EmptyBuffer
  <2>2. /\ Loop(EmptyBuffer, tail)[Len(tail)] \in WholeBuffers
        /\ Loop(EmptyBuffer, tail)[Len(tail)].bytes = EmptyBuffer.bytes \o tail
    BY <1>7, <2>1, FedIsWhole
  <2>3. EmptyBuffer.bytes \o tail = tail
    BY <1>7, <2>1
  <2> QED
    BY <1>8, <2>2, <2>3
<1> QED
  BY <1>2, <1>5, <1>6, <1>9 DEF t, e, start, message

-----------------------------------------------------------------------------
(* What process_message_complete_ makes of a buffer *)

\* Buffers under processing, with the messages cut off them so far.
Cutting == [rest : WholeBuffers, messages : Seq(Seq(Bytes))]

LEMMA CutIs ==
    ASSUME NEW p \in Cutting
    PROVE  /\ Cut(p) \in Cutting
           /\ p.rest.end = 0 => Cut(p) = p
           /\ p.rest.end # 0 =>
                /\ FirstEnd(p.rest.bytes, p.rest.end)
                /\ Cut(p).rest.bytes = From(p.rest.bytes, p.rest.end)
                /\ Cut(p).messages =
                     Append(p.messages, SubSeq(p.rest.bytes,
                                               FirstOpen(p.rest.bytes), p.rest.end))
<1>1. p.rest \in WholeBuffers /\ p.messages \in Seq(Seq(Bytes))
  BY DEF Cutting
<1>2. CASE p.rest.end = 0
  BY <1>2 DEF Cut
<1>3. CASE p.rest.end # 0
  <2> DEFINE b == p.rest
             text == SubSeq(b.bytes, FirstOpen(b.bytes), b.end)
             after == Consume(MessageInPlace(b))
  <2>1. /\ b.bytes \in Seq(Bytes) /\ FirstEnd(b.bytes, b.end)
        /\ SubSeq(MessageInPlace(b).bytes, 1, MessageInPlace(b).end) = text
        /\ after \in WholeBuffers /\ after.bytes = From(b.bytes, b.end)
    <3>1. b.bytes \in Seq(Bytes)
      BY <1>1 DEF WholeBuffers, Buffers
    <3>2. b \in WholeBuffers /\ b.end # 0
      BY <1>1, <1>3
    <3> HIDE DEF b
    <3> QED
      BY <3>1, <3>2, CutOne
  <2>2. Cut(p) = [rest |-> after, messages |-> Append(p.messages, text)]
    BY <1>3, <2>1 DEF Cut
  <2>3. text \in Seq(Bytes)
    <3> DEFINE t == b.bytes
               e == b.end
               start == FirstOpen(t)
    <3>1. t \in Seq(Bytes) /\ FirstEnd(t, e)
      BY <2>1
    <3>2. SubSeq(t, start, e) \in Seq(Bytes)
      <4> HIDE DEF t, e, start
      <4>1. e \in 1..Len(t) /\ start \in 1..(e - 1)
        BY <3>1, FirstObject DEF start
      <4>2. Len(t) \in Nat /\ start \in Nat /\ e \in Nat /\ 1 <= start /\ e <= Len(t)
        BY <3>1, <4>1
      <4> QED
        BY <3>1, <4>2
    <3> QED
      BY <3>2
  <2> HIDE DEF b, text, after
  <2>4. Append(p.messages, text) \in Seq(Seq(Bytes))
    BY <1>1, <2>3
  <2>5. Cut(p) \in Cutting
    BY <2>1, <2>2, <2>4 DEF Cutting
  <2>6. /\ Cut(p).rest.bytes = From(b.bytes, b.end)
        /\ Cut(p).messages = Append(p.messages, text)
    BY <2>1, <2>2
  <2>7. b.end # 0
    BY <1>3 DEF b
  <2> QED
    BY <2>1, <2>5, <2>6, <2>7 DEF b, text
<1> QED
  BY <1>2, <1>3

LEMMA CutsAre ==
    ASSUME NEW b \in WholeBuffers
    PROVE  /\ Cuts(b)[0] = [rest |-> b, messages |-> <<>>]
           /\ \A n \in 1..Len(b.bytes) : Cuts(b)[n] = Cut(Cuts(b)[n - 1])
<1> DEFINE N == Len(b.bytes)
           first == [rest |-> b, messages |-> <<>>]
           Is(f) == f = [n \in 0..N |-> IF n = 0 THEN first ELSE Cut(f[n - 1])]
           step == [p \in (1..N) \X Cutting |-> Cut(p[2])]
<1>1. N \in Nat
  BY DEF WholeBuffers, Buffers
<1>2. first \in Cutting
  BY DEF Cutting
<1>3. step \in [(1..N) \X Cutting -> Cutting]
  BY CutIs
<1> HIDE DEF N, first
<1>4. PICK f \in [0..N -> Cutting] : Steps(f, N, first, step)
  <2> HIDE DEF step
  <2> QED
    BY <1>1, <1>2, <1>3, RecursionUpTo, Zenon
<1>5. f[0] = first /\ \A n \in 1..N : f[n] = Cut(f[n - 1])
  <2>1. \A n \in 1..N : n - 1 \in 0..N
    BY <1>1
  <2> QED
    BY <1>4, <2>1 DEF Steps
<1>6. Is(f)
  <2> HIDE DEF step
  <2>1. f = [n \in 0..N |-> f[n]]
    BY <1>4
  <2>2. \A n \in 0..N : n = 0 \/ n \in 1..N
    BY <1>1
  <2>3. \A n \in 0..N : f[n] = IF n = 0 THEN first ELSE Cut(f[n - 1])
    BY <1>5, <2>2
  <2> QED
    BY <2>1, <2>3, Zenon
<1>7. Cuts(b) = CHOOSE g : Is(g)
  BY Zenon DEF Cuts, N, first
<1> DEFINE cuts == Cuts(b)
<1>8. Is(cuts)
  BY <1>6, <1>7, Zenon
<1>9. 0 \in 0..N /\ \A n \in 1..N : n \in 0..N /\ n # 0
  BY <1>1
<1> HIDE DEF step, cuts
<1>10. cuts[0] = first
  BY <1>8, <1>9
<1>11. \A n \in 1..N : cuts[n] = Cut(cuts[n - 1])
  BY <1>8, <1>9
<1> QED
  BY <1>10, <1>11 DEF N, first, cuts

\* p is what k cuts leave of a buffer with the bytes of s: the objects among its
\* first c bytes are off, and c is a place where one ends.
Reached(s, p, k, c) ==
    /\ c \in 0..Len(s)
    /\ c = 0 \/ c \in ObjectEnds(s)
    /\ Depths(s)[c] = 0
    /\ p \in Cutting
    /\ p.rest.bytes = From(s, c)
    /\ p.messages = ObjectsAmong(s)[c]
    /\ p.rest.end = 0 \/ k <= c

LEMMA ReachedFirst ==
    ASSUME NEW b \in WholeBuffers
    PROVE  Reached(b.bytes, [rest |-> b, messages |-> <<>>], 0, 0)
<1> DEFINE s == b.bytes
           p == [rest |-> b, messages |-> <<>>]
<1>1. s \in Seq(Bytes) /\ Len(s) \in Nat
  BY DEF WholeBuffers, Buffers
<1>2. p \in Cutting /\ p.rest.bytes = s /\ p.messages = <<>>
  BY DEF Cutting
<1> HIDE DEF s, p
<1>3. Depths(s)[0] = 0 /\ ObjectsAmong(s)[0] = <<>>
  BY <1>1, DepthsAre, ObjectsAre
<1>4. From(s, 0) = s
  BY <1>1 DEF From
<1>5. Reached(s, p, 0, 0)
  BY <1>1, <1>2, <1>3, <1>4 DEF Reached
<1> QED
  BY <1>5 DEF s, p

LEMMA ReachedNext ==
    ASSUME NEW s \in Seq(Bytes), NEW k \in 1..Len(s), NEW p, NEW c,
           Reached(s, p, k - 1, c)
    PROVE  \E d : Reached(s, Cut(p), k, d)
<1>1. /\ p \in Cutting /\ c \in 0..Len(s) /\ Depths(s)[c] = 0
      /\ p.rest.bytes = From(s, c) /\ p.messages = ObjectsAmong(s)[c]
  BY DEF Reached
<1>2. CASE p.rest.end = 0
  <2>1. Cut(p) = p
    BY <1>1, <1>2, CutIs
  <2>2. Reached(s, p, k, c)
    BY <1>2 DEF Reached
  <2> QED
    BY <2>1, <2>2
<1>3. CASE p.rest.end # 0
  <2> DEFINE t == From(s, c)
             e == p.rest.end
  <2>1. /\ Cut(p) \in Cutting /\ FirstEnd(t, e)
        /\ Cut(p).rest.bytes = From(t, e)
        /\ Cut(p).messages = Append(p.messages, SubSeq(t, FirstOpen(t), e))
    BY <1>1, <1>3, CutIs
  <2> HIDE DEF e
  <2>2. /\ e \in 1..(Len(s) - c) /\ c + e \in ObjectEnds(s) /\ Depths(s)[c + e] = 0
        /\ ObjectsAmong(s)[c + e] =
             Append(ObjectsAmong(s)[c], SubSeq(t, FirstOpen(t), e))
    BY <1>1, <2>1, NextObject
  <2>3. /\ Len(s) \in Nat /\ c \in Nat /\ e \in Nat /\ k \in Nat
        /\ 1 <= e /\ c + e <= Len(s) /\ k - 1 <= c
    <3>1. k - 1 <= c
      BY <1>3 DEF Reached
    <3> QED
      BY <1>1, <2>2, <3>1
  <2>4. From(t, e) = From(s, c + e)
    <3> DEFINE N == Len(s)
    <3>1. N \in Nat
      BY <2>3
    <3>2. /\ N - c \in Nat /\ c + 1 \in 1..N /\ e + 1 \in Nat \ {0}
          /\ (c + 1) + (N - c) <= N + 1
          /\ (c + 1) + (e + 1) - 1 = (c + e) + 1
          /\ (c + 1) + (N - c) - 1 = N
      <4>1. c \in Nat /\ e \in Nat /\ 1 <= e /\ c + e <= N
        BY <2>3
      <4> HIDE DEF N
      <4> QED
        BY <3>1, <4>1
    <3>3. SubSeq(SubSeq(s, c + 1, N), e + 1, N - c)
            = SubSeq(s, (c + 1) + (e + 1) - 1, (c + 1) + (N - c) - 1)
      BY <3>2, SubSeqOfTail
    <3>4. Len(t) = N - c
      BY <1>1, FromRepeats
    <3> QED
      BY <3>2, <3>3, <3>4 DEF From
  <2>5. k <= c + e /\ c + e \in 0..Len(s)
    <3> DEFINE N == Len(s)
    <3>1. N \in Nat /\ c + e <= N
      BY <2>3
    <3> HIDE DEF N
    <3>2. k <= c + e /\ c + e \in 0..N
      BY <2>3, <3>1
    <3> QED
      BY <3>2 DEF N
  <2> HIDE DEF t
  <2>6. Reached(s, Cut(p), k, c + e)
    BY <1>1, <2>1, <2>2, <2>4, <2>5 DEF Reached
  <2> QED
    BY <2>6
<1> QED
  BY <1>2, <1>3

\* Where no object ends after the first c bytes, what follows them remains.
LEMMA RemainderIs ==
    ASSUME NEW s \in Seq(Bytes), NEW c \in 0..Len(s),
           c = 0 \/ c \in ObjectEnds(s),
           \A m \in 1..(Len(s) - c) : c + m \notin ObjectEnds(s)
    PROVE  Remainder(s) = From(s, c)
<1> DEFINE k == Len(s) - c
<1>1. /\ Len(s) \in Nat /\ c \in Nat /\ c <= Len(s)
      /\ c + k = Len(s) /\ k \in Nat
  OBVIOUS
<1>2. \A m \in 1..k : c + m \notin ObjectEnds(s)
  OBVIOUS
<1>3. Max(ObjectEnds(s) \cup {0}) = c
  <2> DEFINE X == ObjectEnds(s) \cup {0}
  <2>1. c \in X
    OBVIOUS
  <2>2. ASSUME NEW x \in X PROVE x \in Nat /\ c >= x
    <3>1. x = 0 \/ (x \in 1..Len(s) /\ x \in ObjectEnds(s))
      BY DEF ObjectEnds
    <3>2. CASE x > c /\ x \in 1..Len(s) /\ x \in ObjectEnds(s)
      <4>1. x - c \in 1..k /\ c + (x - c) = x
        BY <1>1, <3>2
      <4> QED
        BY <1>2, <3>2, <4>1
    <3> QED
      BY <1>1, <3>1, <3>2
  <2> HIDE DEF X
  <2>3. \A x \in X : (\A y \in X : x >= y) => x = c
    BY <1>1, <2>1, <2>2
  <2>4. \A y \in X : c >= y
    BY <2>2
  <2> QED
    BY <2>1, <2>3, <2>4 DEF Max, X
<1> QED
  BY <1>3 DEF From, Remainder

\* Where nothing more is to be cut, every object is off.
LEMMA ReachedLast ==
    ASSUME NEW s \in Seq(Bytes), NEW p, NEW c, Reached(s, p, Len(s), c)
    PROVE  /\ p.rest \in WholeBuffers /\ p.rest.end = 0
           /\ p.messages = Objects(s)
           /\ p.rest.bytes = Remainder(s) /\ Len(p.rest.bytes) <= Len(s)
<1> DEFINE t == From(s, c)
           k == Len(s) - c
<1>0. Len(s) \in Nat /\ c \in Nat /\ c <= Len(s)
  BY DEF Reached
<1>1. /\ Len(s) \in Nat /\ c \in Nat /\ c \in 0..Len(s) /\ c <= Len(s)
      /\ k \in 0..(Len(s) - c) /\ c + k = Len(s) /\ k \in Nat
      /\ Depths(s)[c] = 0 /\ (c = 0 \/ c \in ObjectEnds(s))
      /\ p.rest \in WholeBuffers /\ p.rest.bytes = t
      /\ p.messages = ObjectsAmong(s)[c]
      /\ p.rest.end = 0 \/ Len(s) <= c
  BY DEF Reached, Cutting
<1>2. t \in Seq(Bytes) /\ Len(t) = k /\ Repeats(t, s, c, k)
  BY <1>1, FromRepeats
<1>3. Counts(p.rest, t, k)
  BY <1>1, <1>2 DEF WholeBuffers
<1> HIDE DEF t
<1>4. p.rest.end = 0
  <2>1. CASE Len(s) <= c
    <3>1. k = 0
      BY <1>0, <2>1
    <3>2. p.rest.end = 0 \/ p.rest.end \in 1..0
      BY <1>3, <3>1 DEF Counts
    <3> QED
      BY <3>2
  <2> QED
    BY <1>1, <2>1
<1>5. \A m \in 1..k : m \notin ObjectEnds(t)
  <2>1. p.rest.end = 0 => p.rest.end \notin 1..k
    OBVIOUS
  <2> QED
    BY <1>3, <1>4, <2>1 DEF Counts
<1>6. \A m \in 1..k : c + m \notin ObjectEnds(s)
  <2>1. CountsAlike(t, s, c, k)
    BY <1>1, <1>2, CountingStartsOver
  <2> QED
    BY <1>5, <2>1 DEF CountsAlike
<1>7. p.messages = Objects(s)
  <2>1. ObjectsAmong(s)[c + k] = ObjectsAmong(s)[c]
    <3> HIDE DEF k
    <3> QED
      BY <1>1, <1>6, NoObjectsAdded
  <2> QED
    BY <1>1, <2>1 DEF Objects
<1>8. t = Remainder(s)
  <2>1. \A m \in 1..(Len(s) - c) : c + m \notin ObjectEnds(s)
    BY <1>6
  <2> QED
    BY <1>1, <2>1, RemainderIs DEF t
<1>9. Len(t) <= Len(s)
  BY <1>1, <1>2
<1> QED
  BY <1>1, <1>4, <1>7, <1>8, <1>9

\* The messages of a buffer are the objects of its bytes, what stays is what
\* follows the last one, and no complete message is left.
LEMMA ProcessedIs ==
    ASSUME NEW b \in WholeBuffers
    PROVE  /\ Processed(b).rest \in WholeBuffers /\ Processed(b).rest.end = 0
           /\ Processed(b).messages = Objects(b.bytes)
           /\ Processed(b).rest.bytes = Remainder(b.bytes)
           /\ Len(Processed(b).rest.bytes) <= Len(b.bytes)
<1> DEFINE s == b.bytes
           N == Len(s)
           T == {k \in 0..N : \E c : Reached(s, Cuts(b)[k], k, c)}
<1>1. s \in Seq(Bytes) /\ N \in Nat
  BY DEF WholeBuffers, Buffers
<1>2. 0 \in T
  <2>1. Reached(s, Cuts(b)[0], 0, 0)
    BY ReachedFirst, CutsAre
  <2> QED
    BY <1>1, <2>1
<1>3. ASSUME NEW k \in 1..N, k - 1 \in T PROVE k \in T
  <2>1. PICK c : Reached(s, Cuts(b)[k - 1], k - 1, c)
    BY <1>3
  <2>2. Cuts(b)[k] = Cut(Cuts(b)[k - 1])
    BY CutsAre
  <2>3. \E d : Reached(s, Cut(Cuts(b)[k - 1]), k, d)
    <3> HIDE DEF s
    <3> QED
      BY <1>1, <2>1, ReachedNext DEF N
  <2> QED
    BY <1>1, <2>2, <2>3
<1>4. N \in T
  <2> HIDE DEF T, N
  <2>1. \A k \in 0..N : k \in T
    BY <1>1, <1>2, <1>3, InductionUpTo
  <2> QED
    BY <1>1, <2>1
<1>5. PICK c : Reached(s, Cuts(b)[N], N, c)
  BY <1>4
<1>6. /\ Cuts(b)[N].rest \in WholeBuffers /\ Cuts(b)[N].rest.end = 0
      /\ Cuts(b)[N].messages = Objects(s)
      /\ Cuts(b)[N].rest.bytes = Remainder(s)
      /\ Len(Cuts(b)[N].rest.bytes) <= Len(s)
  <2> HIDE DEF s
  <2> QED
    BY <1>1, <1>5, ReachedLast DEF N
<1> QED
  BY <1>6 DEF Processed

-----------------------------------------------------------------------------
(* The buffer between two calls *)

\* A whole buffer, with no message to cut off; it obeys the bound, and what the
\* last notification made of it is what the objects of its bytes say.
ChannelInv ==
    /\ buffer \in WholeBuffers
    /\ sending \in Seq(Bytes)
    /\ BufferAtRest
    /\ ObjectsComeOut

LEMMA RestCounts ==
    ASSUME NEW b \in WholeBuffers, b.end = 0
    PROVE  b.depth = Depths(b.bytes)[Len(b.bytes)]
<1>1. Counts(b, b.bytes, Len(b.bytes)) /\ Len(b.bytes) \in Nat
  BY DEF WholeBuffers, Buffers
<1> QED
  BY <1>1 DEF Counts

LEMMA RoomMadeIs ==
    ASSUME NEW b \in WholeBuffers, b.end = 0
    PROVE  /\ RoomMade(b) \in WholeBuffers /\ RoomMade(b).end = 0
           /\ Len(RoomMade(b).bytes) <= MaxBytes
<1>1. Len(b.bytes) \in Nat /\ MaxBytes \in Nat
  BY ChannelAssumption DEF WholeBuffers, Buffers
<1>2. CASE Len(b.bytes) > MaxBytes
  <2>1. EmptyBuffer.bytes = <<>> /\ EmptyBuffer.end = 0
    BY DEF EmptyBuffer
  <2> QED
    BY <1>1, <1>2, <2>1, EmptyIsWhole DEF RoomMade
<1>3. CASE Len(b.bytes) <= MaxBytes
  BY <1>1, <1>3 DEF RoomMade
<1> QED
  BY <1>1, <1>2, <1>3

\* A notification, of any bytes, leaves the buffer at rest.
LEMMA NotifiedAtRest ==
    ASSUME ChannelInv, NEW data \in Seq(Bytes), Len(data) <= MaxFragment,
           HandleD6Notify(data)
    PROVE  /\ buffer' \in WholeBuffers /\ BufferAtRest' /\ ObjectsComeOut'
           /\ buffer'.bytes = Remainder(handed')
           /\ handed' = RoomMade(buffer).bytes \o data
<1> DEFINE room == RoomMade(buffer)
           fed == Feed(buffer, data)
           s == room.bytes \o data
<1>1. /\ room \in WholeBuffers /\ room.end = 0 /\ Len(room.bytes) <= MaxBytes
      /\ room.bytes \in Seq(Bytes)
  <2>1. buffer \in WholeBuffers /\ buffer.end = 0
    BY DEF ChannelInv, BufferAtRest
  <2>2. room \in WholeBuffers /\ room.end = 0 /\ Len(room.bytes) <= MaxBytes
    BY <2>1, RoomMadeIs
  <2> QED
    BY <2>2 DEF WholeBuffers, Buffers
<1> HIDE DEF room
<1>2. fed \in WholeBuffers /\ fed.bytes = s
  <2>1. fed = Loop(room, data)[Len(data)]
    BY DEF Feed, room
  <2> QED
    BY <1>1, <2>1, FedIsWhole
<1>3. buffer' = Processed(fed).rest /\ output' = Processed(fed).messages
      /\ handed' = s /\ lastPollBytes' = lastPollBytes
  BY DEF HandleD6Notify, room
<1> HIDE DEF fed
<1>4. /\ buffer' \in WholeBuffers /\ buffer'.end = 0
      /\ output' = Objects(s) /\ buffer'.bytes = Remainder(s)
      /\ Len(buffer'.bytes) <= Len(s)
  BY <1>2, <1>3, ProcessedIs
<1>5. Len(buffer'.bytes) <= MaxBytes + MaxFragment
  <2>1. /\ Len(room.bytes) \in Nat /\ Len(data) \in Nat
        /\ Len(s) = Len(room.bytes) + Len(data)
    BY <1>1
  <2>2. Len(buffer'.bytes) \in Nat
    BY <1>4 DEF WholeBuffers, Buffers
  <2>3. MaxBytes \in Nat /\ MaxFragment \in Nat
    BY ChannelAssumption
  <2> HIDE DEF s
  <2> QED
    BY <1>1, <1>4, <2>1, <2>2, <2>3
<1>6. buffer'.depth = Depths(buffer'.bytes)[Len(buffer'.bytes)]
  BY <1>4, RestCounts
<1>7. lastPollBytes' \in 0..(MaxBytes + MaxFragment)
  BY <1>3 DEF ChannelInv, BufferAtRest
<1>8. BufferAtRest'
  BY <1>4, <1>5, <1>6, <1>7 DEF BufferAtRest
<1>9. ObjectsComeOut'
  BY <1>3, <1>4 DEF ObjectsComeOut
<1> QED
  BY <1>3, <1>4, <1>8, <1>9 DEF room

LEMMA EmptyAtRest ==
    /\ EmptyBuffer \in WholeBuffers /\ EmptyBuffer.end = 0
    /\ EmptyBuffer.bytes = <<>> /\ Len(EmptyBuffer.bytes) = 0
    /\ EmptyBuffer.depth = Depths(EmptyBuffer.bytes)[Len(EmptyBuffer.bytes)]
<1>1. EmptyBuffer.bytes = <<>> /\ EmptyBuffer.end = 0
  BY DEF EmptyBuffer
<1>2. EmptyBuffer \in WholeBuffers
  BY EmptyIsWhole
<1> QED
  BY <1>1, <1>2, RestCounts

LEMMA ChannelInit == Init => ChannelInv
<1> SUFFICES ASSUME Init PROVE ChannelInv
  OBVIOUS
<1>1. buffer = EmptyBuffer /\ lastPollBytes = 0 /\ sending = <<>> /\ handed = <<>>
  BY DEF Init
<1>2. MaxBytes + MaxFragment \in Nat
  BY ChannelAssumption
<1> QED
  BY <1>1, <1>2, EmptyAtRest DEF ChannelInv, BufferAtRest, ObjectsComeOut

\* The bytes a notification carries, and those still to come.
LEMMA AdvancesType ==
    ASSUME sending \in Seq(Bytes), NEW count \in 1..MaxFragment,
           NEW next \in Messages \cup {<<>>}, Advances(count, next)
    PROVE  /\ SubSeq(sending \o next, 1, count) \in Seq(Bytes)
           /\ Len(SubSeq(sending \o next, 1, count)) <= MaxFragment
           /\ sending' \in Seq(Bytes)
<1> DEFINE s == sending \o next
<1>1. next \in Seq(Bytes)
  <2>1. <<>> \in Seq(Bytes)
    OBVIOUS
  <2>2. Messages \subseteq Seq(Bytes)
    BY ChannelAssumption
  <2> QED
    BY <2>1, <2>2
<1>2. s \in Seq(Bytes) /\ Len(s) \in Nat
  BY <1>1
<1>3. count <= Len(s) /\ sending' = SubSeq(s, count + 1, Len(s))
  BY DEF Advances
<1>4. count \in Nat /\ 1 <= count /\ count <= MaxFragment /\ MaxFragment \in Nat
  BY ChannelAssumption
<1> HIDE DEF s
<1>5. SubSeq(s, 1, count) \in Seq(Bytes) /\ Len(SubSeq(s, 1, count)) = count
  BY <1>2, <1>3, <1>4
<1>6. sending' \in Seq(Bytes)
  BY <1>2, <1>3, <1>4
<1> QED
  BY <1>4, <1>5, <1>6 DEF s

LEMMA ChannelStep == ChannelInv /\ [Next]_channelVars => ChannelInv'
<1> SUFFICES ASSUME ChannelInv, [Next]_channelVars PROVE ChannelInv'
  OBVIOUS
<1>0. /\ buffer \in WholeBuffers /\ sending \in Seq(Bytes)
      /\ BufferAtRest /\ ObjectsComeOut
  BY DEF ChannelInv
<1>1. CASE Notification
  <2>1. PICK count \in 1..MaxFragment, next \in Messages \cup {<<>>} :
             Notified(count, next)
    BY <1>1 DEF Notification
  <2> DEFINE data == SubSeq(sending \o next, 1, count)
  <2>2. Advances(count, next) /\ HandleD6Notify(data)
    BY <2>1 DEF Notified
  <2>3. data \in Seq(Bytes) /\ Len(data) <= MaxFragment /\ sending' \in Seq(Bytes)
    BY <1>0, <2>2, AdvancesType
  <2> HIDE DEF data
  <2> QED
    BY <2>2, <2>3, NotifiedAtRest DEF ChannelInv
<1>2. CASE NotificationLost
  <2>1. PICK count \in 1..MaxFragment, next \in Messages \cup {<<>>} :
             Advances(count, next)
    BY <1>2 DEF NotificationLost
  <2>2. sending' \in Seq(Bytes)
    BY <1>0, <2>1, AdvancesType
  <2>3. buffer' = buffer /\ lastPollBytes' = lastPollBytes /\ handed' = <<>>
    BY <1>2 DEF NotificationLost
  <2> QED
    BY <1>0, <2>2, <2>3 DEF ChannelInv, BufferAtRest, ObjectsComeOut
<1>3. CASE NoiseArrives
  <2>1. PICK data \in Noise : HandleD6Notify(data)
    BY <1>3 DEF NoiseArrives
  <2>2. data \in Seq(Bytes) /\ Len(data) <= MaxFragment
    BY ChannelAssumption
  <2>3. sending' = sending
    BY <1>3 DEF NoiseArrives
  <2> QED
    BY <1>0, <2>1, <2>2, <2>3, NotifiedAtRest DEF ChannelInv
<1>4. ASSUME BufferCleared, sending' \in Seq(Bytes) PROVE ChannelInv'
  <2>1. /\ buffer' = EmptyBuffer /\ lastPollBytes' = lastPollBytes
        /\ handed' = <<>>
    BY <1>4 DEF BufferCleared
  <2>2. MaxBytes + MaxFragment \in Nat
    BY ChannelAssumption
  <2>3. BufferAtRest'
    BY <1>0, <2>1, <2>2, EmptyAtRest DEF BufferAtRest
  <2>4. ObjectsComeOut' /\ buffer' \in WholeBuffers
    BY <2>1, EmptyAtRest DEF ObjectsComeOut
  <2> QED
    BY <1>4, <2>3, <2>4 DEF ChannelInv
<1>5. CASE Resubscribed
  BY <1>0, <1>4, <1>5 DEF Resubscribed
<1>6. CASE Disconnected
  <2>1. BufferCleared /\ sending' = <<>>
    BY <1>6 DEF Disconnected
  <2>2. sending' \in Seq(Bytes)
    BY <2>1
  <2> QED
    BY <1>4, <2>1, <2>2
<1>7. CASE PollTick
  <2>1. /\ buffer' = buffer \/ buffer' = EmptyBuffer
        /\ lastPollBytes' = Len(buffer'.bytes) /\ handed' = <<>>
        /\ sending' = sending
    BY <1>7 DEF PollTick
  <2>2. /\ buffer' \in WholeBuffers /\ buffer'.end = 0
        /\ Len(buffer'.bytes) <= MaxBytes + MaxFragment
        /\ Len(buffer'.bytes) \in Nat
        /\ buffer'.depth = Depths(buffer'.bytes)[Len(buffer'.bytes)]
    <3>1. MaxBytes + MaxFragment \in Nat
      BY ChannelAssumption
    <3>2. CASE buffer' = buffer
      <4>1. Len(buffer.bytes) \in Nat
        BY <1>0 DEF WholeBuffers, Buffers
      <4> QED
        BY <1>0, <3>2, <4>1 DEF BufferAtRest
    <3>3. CASE buffer' = EmptyBuffer
      BY <3>1, <3>3, EmptyAtRest
    <3> QED
      BY <2>1, <3>2, <3>3
  <2>3. lastPollBytes' \in 0..(MaxBytes + MaxFragment)
    BY <2>1, <2>2
  <2> QED
    BY <1>0, <2>1, <2>2, <2>3 DEF ChannelInv, BufferAtRest, ObjectsComeOut
<1>8. CASE UNCHANGED channelVars
  BY <1>0, <1>8 DEF channelVars, ChannelInv, BufferAtRest, ObjectsComeOut
<1> QED
  BY <1>1, <1>2, <1>3, <1>5, <1>6, <1>7, <1>8 DEF Next

LEMMA ChannelHolds == Spec => []ChannelInv
<1> QED
  BY ChannelInit, ChannelStep, PTL DEF Spec

\* The buffer between two calls: no complete message waits in it, its depth is
\* that of its bytes, and one notification at most goes over kMaxBytes.
THEOREM ChannelAtRest == Spec => []BufferAtRest
<1>1. ChannelInv => BufferAtRest
  BY DEF ChannelInv
<1> QED
  BY <1>1, ChannelHolds, PTL

\* handle_d6_notify parses exactly the objects of the bytes it has, in their
\* order, and keeps exactly what follows the last one; for any messages, any
\* fragments of them, and any noise in between.
THEOREM ChannelCutsObjects == Spec => []ObjectsComeOut
<1>1. ChannelInv => ObjectsComeOut
  BY DEF ChannelInv
<1> QED
  BY <1>1, ChannelHolds, PTL

-----------------------------------------------------------------------------
(* A stream without faults *)

\* p is made of whole objects, the last one up to its last byte.
Whole(p) ==
    /\ p \in Seq(Bytes)
    /\ Depths(p)[Len(p)] = 0
    /\ Len(p) = 0 \/ Len(p) \in ObjectEnds(p)

LEMMA WholeEmpty == Whole(<<>>)
<1>1. <<>> \in Seq(Bytes) /\ Len(<<>>) = 0
  OBVIOUS
<1>2. Depths(<<>>)[0] = 0
  BY <1>1, DepthsAre
<1> QED
  BY <1>1, <1>2 DEF Whole

LEMMA WholeMessage ==
    ASSUME NEW m \in Messages
    PROVE  /\ Whole(m) /\ Len(m) \in Nat \ {0} /\ Len(m) <= MaxBytes
           /\ \A n \in 1..Len(m) : n \in ObjectEnds(m) => n = Len(m)
<1>1. m \in Seq(Bytes) /\ Len(m) <= MaxBytes /\ Len(m) \in Nat
  BY ChannelAssumption
<1>2. ObjectEnds(m) = {Len(m)}
  BY MessagesAreObjects
<1>3. Len(m) \in ObjectEnds(m)
  BY <1>2
<1>4. Len(m) \in 1..Len(m) /\ m[Len(m)] = "close" /\ Depths(m)[Len(m) - 1] = 1
  BY <1>3 DEF ObjectEnds
<1>5. Depths(m)[Len(m)] = 0
  <2>1. Depths(m)[Len(m)] = DepthAfter(Depths(m)[Len(m) - 1], m[Len(m)])
    BY <1>1, <1>4, DepthsAre
  <2> QED
    BY <1>4, <2>1 DEF DepthAfter
<1> QED
  BY <1>1, <1>2, <1>3, <1>4, <1>5 DEF Whole

\* Nothing remains of whole objects.
LEMMA NothingRemains ==
    ASSUME NEW p, Whole(p)
    PROVE  Remainder(p) = <<>>
<1>1. p \in Seq(Bytes) /\ Len(p) \in Nat /\ Len(p) \in 0..Len(p)
  BY DEF Whole
<1>2. Len(p) = 0 \/ Len(p) \in ObjectEnds(p)
  BY DEF Whole
<1>3. \A m \in 1..(Len(p) - Len(p)) : Len(p) + m \notin ObjectEnds(p)
  BY <1>1
<1>4. Remainder(p) = From(p, Len(p))
  BY <1>1, <1>2, <1>3, RemainderIs
<1> QED
  BY <1>1, <1>4 DEF From

\* The bytes of p \o q are those of p, and then those of q.
LEMMA ConcatRepeats ==
    ASSUME NEW p \in Seq(Bytes), NEW q \in Seq(Bytes)
    PROVE  /\ p \o q \in Seq(Bytes) /\ Len(p \o q) = Len(p) + Len(q)
           /\ Repeats(p, p \o q, 0, Len(p))
           /\ Repeats(q, p \o q, Len(p), Len(q))
           /\ From(p \o q, Len(p)) = q
<1> DEFINE s == p \o q
           c == Len(p)
           d == Len(q)
<1>1. /\ s \in Seq(Bytes) /\ c \in Nat /\ d \in Nat /\ Len(s) = c + d
      /\ \A i \in 1..(c + d) : s[i] = IF i <= c THEN p[i] ELSE q[i - c]
  BY ConcatProperties
<1> HIDE DEF s
<1>2. Repeats(p, s, 0, c)
  <2>1. \A m \in 1..c : m \in 1..(c + d) /\ m <= c /\ 0 + m = m
    BY <1>1
  <2>2. \A m \in 1..c : p[m] = s[0 + m]
    BY <1>1, <2>1
  <2>3. c \in 0..Len(p) /\ 0 + c \in 0..Len(s)
    BY <1>1
  <2> QED
    BY <2>2, <2>3 DEF Repeats
<1>3. \A m \in 1..d : q[m] = s[c + m]
  <2>1. \A m \in 1..d : c + m \in 1..(c + d) /\ ~(c + m <= c) /\ (c + m) - c = m
    BY <1>1
  <2> QED
    BY <1>1, <2>1
<1>4. Repeats(q, s, c, d)
  <2>1. d \in 0..Len(q) /\ c + d \in 0..Len(s)
    BY <1>1
  <2> QED
    BY <1>3, <2>1 DEF Repeats
<1>5. From(s, c) = q
  <2>1. c \in 0..Len(s) /\ Len(s) - c = d
    BY <1>1
  <2>2. /\ From(s, c) \in Seq(Bytes) /\ Len(From(s, c)) = d
        /\ \A m \in 1..d : From(s, c)[m] = s[c + m]
    BY <1>1, <2>1, FromRepeats
  <2>3. \A m \in 1..d : From(s, c)[m] = q[m]
    BY <1>3, <2>2
  <2> QED
    BY <2>2, <2>3, SeqEqual
<1> QED
  BY <1>1, <1>2, <1>4, <1>5 DEF s

\* After whole objects an unfinished one remains.
LEMMA UnfinishedRemains ==
    ASSUME NEW p, Whole(p), NEW q \in Seq(Bytes),
           \A n \in 1..Len(q) : n \notin ObjectEnds(q)
    PROVE  Remainder(p \o q) = q
<1> DEFINE s == p \o q
           c == Len(p)
           d == Len(q)
<1>1. p \in Seq(Bytes) /\ Depths(p)[c] = 0 /\ (c = 0 \/ c \in ObjectEnds(p))
  BY DEF Whole
<1>2. /\ s \in Seq(Bytes) /\ Len(s) = c + d /\ c \in Nat /\ d \in Nat
      /\ Repeats(p, s, 0, c) /\ Repeats(q, s, c, d) /\ From(s, c) = q
  BY <1>1, ConcatRepeats
<1> HIDE DEF s
<1>3. CountsAlike(p, s, 0, c)
  <2>1. Depths(s)[0] = 0 /\ 0 \in Nat
    BY <1>2, DepthsAre
  <2> QED
    BY <1>1, <1>2, <2>1, CountingStartsOver
<1>4. Depths(s)[c] = 0 /\ (c = 0 \/ c \in ObjectEnds(s))
  <2>1. c \in 0..c /\ 0 + c = c /\ (c = 0 \/ c \in 1..c)
    BY <1>2
  <2> QED
    BY <1>1, <1>3, <2>1 DEF CountsAlike
<1>5. CountsAlike(q, s, c, d)
  BY <1>2, <1>4, CountingStartsOver
<1>6. \A m \in 1..d : c + m \notin ObjectEnds(s)
  BY <1>5 DEF CountsAlike
<1>7. c \in 0..Len(s) /\ Len(s) - c = d
  BY <1>2
<1>8. Remainder(s) = From(s, c)
  BY <1>2, <1>4, <1>6, <1>7, RemainderIs
<1> QED
  BY <1>2, <1>8 DEF s

\* Whole objects followed by one more message are whole objects.
LEMMA WholeAndMessage ==
    ASSUME NEW p, Whole(p), NEW m \in Messages
    PROVE  Whole(p \o m)
<1> DEFINE s == p \o m
           c == Len(p)
           d == Len(m)
<1>1. /\ p \in Seq(Bytes) /\ Depths(p)[c] = 0
      /\ m \in Seq(Bytes) /\ Depths(m)[d] = 0 /\ d \in ObjectEnds(m)
      /\ d \in Nat \ {0}
  BY WholeMessage DEF Whole
<1>2. /\ s \in Seq(Bytes) /\ Len(s) = c + d /\ c \in Nat
      /\ Repeats(p, s, 0, c) /\ Repeats(m, s, c, d)
  BY <1>1, ConcatRepeats
<1> HIDE DEF s
<1>3. CountsAlike(p, s, 0, c)
  <2>1. Depths(s)[0] = 0 /\ 0 \in Nat
    BY <1>2, DepthsAre
  <2> QED
    BY <1>1, <1>2, <2>1, CountingStartsOver
<1>4. Depths(s)[c] = 0
  <2>1. c \in 0..c /\ 0 + c = c
    BY <1>2
  <2> QED
    BY <1>1, <1>3, <2>1 DEF CountsAlike
<1>5. CountsAlike(m, s, c, d)
  BY <1>1, <1>2, <1>4, CountingStartsOver
<1>6. Depths(s)[c + d] = 0 /\ c + d \in ObjectEnds(s)
  <2>1. d \in 0..d /\ d \in 1..d
    BY <1>1
  <2> QED
    BY <1>1, <1>5, <2>1 DEF CountsAlike
<1> QED
  BY <1>2, <1>6 DEF Whole, s

\* No object ends in a message before its last byte.
LEMMA UnfinishedMessage ==
    ASSUME NEW m \in Messages, NEW n \in Nat, n < Len(m)
    PROVE  /\ SubSeq(m, 1, n) \in Seq(Bytes) /\ Len(SubSeq(m, 1, n)) = n
           /\ \A k \in 1..n : k \notin ObjectEnds(SubSeq(m, 1, n))
<1> DEFINE q == SubSeq(m, 1, n)
<1>1. /\ m \in Seq(Bytes) /\ Len(m) \in Nat
      /\ \A k \in 1..Len(m) : k \in ObjectEnds(m) => k = Len(m)
  BY WholeMessage DEF Whole
<1>2. q \in Seq(Bytes) /\ Len(q) = n /\ \A k \in 1..n : q[k] = m[k]
  BY <1>1
<1> HIDE DEF q
<1>3. Repeats(q, m, 0, n)
  <2>1. n \in 0..Len(q) /\ 0 + n \in 0..Len(m) /\ \A k \in 1..n : 0 + k = k
    BY <1>1, <1>2
  <2> QED
    BY <1>2, <2>1 DEF Repeats
<1>4. CountsAlike(q, m, 0, n)
  <2>1. Depths(m)[0] = 0 /\ 0 \in Nat
    BY <1>1, DepthsAre
  <2> QED
    BY <1>1, <1>2, <1>3, <2>1, CountingStartsOver
<1>5. ASSUME NEW k \in 1..n PROVE k \notin ObjectEnds(q)
  <2>1. 0 + k = k /\ k \in 1..Len(m) /\ k # Len(m)
    BY <1>1
  <2> QED
    BY <1>1, <1>4, <2>1 DEF CountsAlike
<1> QED
  BY <1>2, <1>5 DEF q

LEMMA SplitAt ==
    ASSUME NEW s \in Seq(Bytes), NEW n \in 0..Len(s)
    PROVE  /\ SubSeq(s, 1, n) \in Seq(Bytes) /\ Len(SubSeq(s, 1, n)) = n
           /\ From(s, n) \in Seq(Bytes) /\ Len(From(s, n)) = Len(s) - n
           /\ SubSeq(s, 1, n) \o From(s, n) = s
<1>1. Len(s) \in Nat /\ n \in Nat /\ n <= Len(s)
  OBVIOUS
<1>2. SubSeq(s, 1, n) \in Seq(Bytes) /\ Len(SubSeq(s, 1, n)) = n
  BY <1>1
<1>3. From(s, n) \in Seq(Bytes) /\ Len(From(s, n)) = Len(s) - n
  BY FromRepeats
<1>4. SubSeq(s, 1, n) \o SubSeq(s, n + 1, Len(s)) = SubSeq(s, 1, Len(s))
  <2>1. 1 \in 1..(Len(s) + 1) /\ n \in (1 - 1)..Len(s) /\ Len(s) \in n..Len(s)
    BY <1>1
  <2> QED
    BY <2>1, ConcatAdjacentSubSeq
<1>5. SubSeq(s, 1, Len(s)) = s
  BY SubSeqFull
<1> QED
  BY <1>2, <1>3, <1>4, <1>5 DEF From

LEMMA SplitBeyond ==
    ASSUME NEW p \in Seq(Bytes), NEW q \in Seq(Bytes), NEW n \in 0..Len(q)
    PROVE  /\ SubSeq(p \o q, 1, Len(p) + n) = p \o SubSeq(q, 1, n)
           /\ From(p \o q, Len(p) + n) = From(q, n)
<1> DEFINE s == p \o q
           c == Len(p)
           d == Len(q)
           h == SubSeq(q, 1, n)
<1>1. /\ s \in Seq(Bytes) /\ c \in Nat /\ d \in Nat /\ Len(s) = c + d
      /\ \A i \in 1..(c + d) : s[i] = IF i <= c THEN p[i] ELSE q[i - c]
      /\ n \in Nat /\ n <= d
  BY ConcatProperties
<1>2. /\ h \in Seq(Bytes) /\ Len(h) = n /\ \A i \in 1..n : h[i] = q[i]
  BY <1>1
<1> HIDE DEF h
<1>3. /\ p \o h \in Seq(Bytes) /\ Len(p \o h) = c + n
      /\ \A i \in 1..(c + n) : (p \o h)[i] = IF i <= c THEN p[i] ELSE h[i - c]
  BY <1>2, ConcatProperties
<1> HIDE DEF s
<1>4. /\ SubSeq(s, 1, c + n) \in Seq(Bytes) /\ Len(SubSeq(s, 1, c + n)) = c + n
      /\ \A i \in 1..(c + n) : SubSeq(s, 1, c + n)[i] = s[i]
  BY <1>1
<1>5. ASSUME NEW i \in 1..(c + n) PROVE SubSeq(s, 1, c + n)[i] = (p \o h)[i]
  <2>1. i \in 1..(c + d) /\ (i <= c \/ i - c \in 1..n)
    BY <1>1
  <2> QED
    BY <1>1, <1>2, <1>3, <1>4, <2>1
<1>6. SubSeq(s, 1, c + n) = p \o h
  BY <1>3, <1>4, <1>5, SeqEqual
<1>7. /\ From(q, n) \in Seq(Bytes) /\ Len(From(q, n)) = d - n
      /\ \A m \in 1..(d - n) : From(q, n)[m] = q[n + m]
  BY FromRepeats
<1>8. /\ From(s, c + n) \in Seq(Bytes) /\ Len(From(s, c + n)) = d - n
      /\ \A m \in 1..(d - n) : From(s, c + n)[m] = s[(c + n) + m]
  <2>1. c + n \in 0..Len(s) /\ Len(s) - (c + n) = d - n
    BY <1>1
  <2> QED
    BY <1>1, <2>1, FromRepeats
<1>9. ASSUME NEW m \in 1..(d - n) PROVE From(s, c + n)[m] = From(q, n)[m]
  <2>1. /\ (c + n) + m \in 1..(c + d) /\ ~((c + n) + m <= c)
        /\ ((c + n) + m) - c = n + m
    BY <1>1
  <2> QED
    BY <1>1, <1>7, <1>8, <2>1
<1>10. From(s, c + n) = From(q, n)
  BY <1>7, <1>8, <1>9, SeqEqual
<1> QED
  BY <1>6, <1>10 DEF s, h

LEMMA ConcatIs ==
    ASSUME NEW p \in Seq(Bytes), NEW q \in Seq(Bytes), NEW s, s = p \o q
    PROVE  /\ s \in Seq(Bytes) /\ Len(s) = Len(p) + Len(q)
           /\ \A i \in 1..Len(p) : s[i] = p[i]
           /\ \A i \in 1..Len(q) : s[Len(p) + i] = q[i]
<1>1. /\ s \in Seq(Bytes) /\ Len(s) = Len(p) + Len(q)
      /\ \A i \in 1..Len(p) + Len(q) :
            s[i] = IF i <= Len(p) THEN p[i] ELSE q[i - Len(p)]
  BY ConcatProperties
<1>2. Len(p) \in Nat /\ Len(q) \in Nat
  OBVIOUS
<1>3. \A i \in 1..Len(p) : i \in 1..Len(p) + Len(q) /\ i <= Len(p)
  BY <1>2
<1>4. \A i \in 1..Len(q) : /\ Len(p) + i \in 1..Len(p) + Len(q)
                           /\ ~(Len(p) + i <= Len(p))
                           /\ (Len(p) + i) - Len(p) = i
  BY <1>2
<1>5. \A i \in 1..Len(p) : s[i] = p[i]
  BY <1>1, <1>3
<1>6. \A i \in 1..Len(q) : s[Len(p) + i] = q[i]
  BY <1>1, <1>4
<1> QED
  BY <1>1, <1>5, <1>6

LEMMA ConcatThree ==
    ASSUME NEW p \in Seq(Bytes), NEW q \in Seq(Bytes), NEW r \in Seq(Bytes)
    PROVE  (p \o q) \o r = p \o (q \o r)
<1> DEFINE a == p \o q
           b == q \o r
           x == a \o r
           y == p \o b
           c == Len(p)
           d == Len(q)
           e == Len(r)
<1>1. /\ a \in Seq(Bytes) /\ Len(a) = c + d
      /\ \A i \in 1..c : a[i] = p[i]
      /\ \A i \in 1..d : a[c + i] = q[i]
  <2> HIDE DEF a
  <2> QED
    BY ConcatIs DEF a
<1>2. /\ b \in Seq(Bytes) /\ Len(b) = d + e
      /\ \A i \in 1..d : b[i] = q[i]
      /\ \A i \in 1..e : b[d + i] = r[i]
  <2> HIDE DEF b
  <2> QED
    BY ConcatIs DEF b
<1> HIDE DEF a, b
<1>3. /\ x \in Seq(Bytes) /\ Len(x) = (c + d) + e
      /\ \A i \in 1..(c + d) : x[i] = a[i]
      /\ \A i \in 1..e : x[(c + d) + i] = r[i]
  <2> HIDE DEF x
  <2>1. a \in Seq(Bytes)
    BY <1>1
  <2>2. /\ x \in Seq(Bytes) /\ Len(x) = Len(a) + Len(r)
        /\ \A i \in 1..Len(a) : x[i] = a[i]
        /\ \A i \in 1..Len(r) : x[Len(a) + i] = r[i]
    BY <2>1, ConcatIs DEF x
  <2> QED
    BY <1>1, <2>2
<1>4. /\ y \in Seq(Bytes) /\ Len(y) = c + (d + e)
      /\ \A i \in 1..c : y[i] = p[i]
      /\ \A i \in 1..(d + e) : y[c + i] = b[i]
  <2> HIDE DEF y
  <2>1. b \in Seq(Bytes)
    BY <1>2
  <2>2. /\ y \in Seq(Bytes) /\ Len(y) = Len(p) + Len(b)
        /\ \A i \in 1..Len(p) : y[i] = p[i]
        /\ \A i \in 1..Len(b) : y[Len(p) + i] = b[i]
    BY <2>1, ConcatIs DEF y
  <2> QED
    BY <1>2, <2>2
<1>5. c \in Nat /\ d \in Nat /\ e \in Nat
  OBVIOUS
<1> HIDE DEF c, d, e, x, y
<1>6. ASSUME NEW i \in 1..((c + d) + e) PROVE x[i] = y[i]
  <2>1. CASE i <= c
    <3>1. i \in 1..c /\ i \in 1..(c + d)
      BY <1>5, <2>1
    <3>2. x[i] = a[i] /\ a[i] = p[i]
      BY <1>1, <1>3, <3>1
    <3>3. y[i] = p[i]
      BY <1>4, <3>1
    <3> QED
      BY <3>2, <3>3
  <2>2. CASE ~(i <= c) /\ i <= c + d
    <3>1. i - c \in 1..d /\ i - c \in 1..(d + e) /\ i \in 1..(c + d)
          /\ c + (i - c) = i
      BY <1>5, <2>2
    <3>2. x[i] = a[i] /\ a[c + (i - c)] = q[i - c]
      BY <1>1, <1>3, <3>1
    <3>3. b[i - c] = q[i - c] /\ y[c + (i - c)] = b[i - c]
      BY <1>2, <1>4, <3>1
    <3> QED
      BY <3>1, <3>2, <3>3
  <2>3. CASE ~(i <= c + d)
    <3> DEFINE k == i - (c + d)
    <3>1. k \in 1..e /\ d + k \in 1..(d + e) /\ (c + d) + k = i /\ c + (d + k) = i
      BY <1>5, <2>3
    <3> HIDE DEF k
    <3>2. x[(c + d) + k] = r[k]
      BY <1>3, <3>1
    <3>3. b[d + k] = r[k] /\ y[c + (d + k)] = b[d + k]
      BY <1>2, <1>4, <3>1
    <3> QED
      BY <3>1, <3>2, <3>3
  <2> QED
    BY <2>1, <2>2, <2>3
<1>7. x = y
  <2>1. Len(x) = Len(y) /\ \A i \in 1..Len(x) : x[i] = y[i]
    BY <1>3, <1>4, <1>5, <1>6
  <2> QED
    BY <1>3, <1>4, <2>1, SeqEqual
<1> QED
  BY <1>7 DEF a, b, x, y

\* The appliance is between two messages, or some bytes into one.
MidStream(done, left) ==
    /\ done \in Seq(Bytes) /\ left \in Seq(Bytes)
    /\ \/ done = <<>> /\ left = <<>>
       \/ left # <<>> /\ done \o left \in Messages

\* The bytes of a notification that goes on with the message under way.
LEMMA GoesOn ==
    ASSUME NEW done, NEW left, MidStream(done, left),
           NEW count \in 1..Len(left)
    PROVE  LET data == SubSeq(left, 1, count)
           IN  IF count = Len(left)
               THEN Remainder(done \o data) = <<>>
               ELSE /\ Remainder(done \o data) = done \o data
                    /\ MidStream(done \o data, From(left, count))
                    /\ From(left, count) # <<>>
<1> DEFINE data == SubSeq(left, 1, count)
           m == done \o left
<1>1. /\ done \in Seq(Bytes) /\ left \in Seq(Bytes) /\ Len(done) \in Nat
      /\ Len(left) \in Nat /\ count \in Nat /\ 1 <= count /\ count <= Len(left)
      /\ left # <<>>
  BY DEF MidStream
<1>2. m \in Messages
  BY <1>1 DEF MidStream
<1>3. count = Len(left) => data = left
  BY <1>1, SubSeqFull
<1>4. CASE count = Len(left)
  <2>1. Remainder(m) = <<>>
    BY <1>2, WholeMessage, NothingRemains
  <2> QED
    BY <1>3, <1>4, <2>1
<1>5. CASE count < Len(left)
  <2>1. /\ data \in Seq(Bytes) /\ Len(data) = count
        /\ From(left, count) \in Seq(Bytes)
        /\ Len(From(left, count)) = Len(left) - count
        /\ data \o From(left, count) = left
    BY <1>1, SplitAt
  <2>2. SubSeq(m, 1, Len(done) + count) = done \o data
    <3>1. count \in 0..Len(left)
      BY <1>1
    <3> QED
      BY <1>1, <3>1, SplitBeyond
  <2> HIDE DEF data
  <2>3. Len(done) + count \in Nat /\ Len(done) + count < Len(m)
    <3>1. Len(m) = Len(done) + Len(left)
      BY <1>1
    <3> QED
      BY <1>1, <1>5, <3>1
  <2> DEFINE h == done \o data
  <2>4. h \in Seq(Bytes) /\ Len(h) = Len(done) + count
    <3>1. Len(data) = count /\ data \in Seq(Bytes) /\ done \in Seq(Bytes)
      BY <1>1, <2>1
    <3>2. h \in Seq(Bytes) /\ Len(h) = Len(done) + Len(data)
      BY <3>1, ConcatProperties
    <3> QED
      BY <3>1, <3>2
  <2>5. \A k \in 1..Len(h) : k \notin ObjectEnds(h)
    <3> HIDE DEF m
    <3> QED
      BY <1>2, <2>2, <2>3, <2>4, UnfinishedMessage
  <2>6. Remainder(h) = h
    <3> HIDE DEF h
    <3>1. <<>> \o h = h
      BY <2>4
    <3>2. Remainder(<<>> \o h) = h
      BY <2>4, <2>5, WholeEmpty, UnfinishedRemains
    <3> QED
      BY <3>1, <3>2
  <2>7. h \o From(left, count) = m
    <3>1. /\ data \in Seq(Bytes) /\ done \in Seq(Bytes)
          /\ From(left, count) \in Seq(Bytes) /\ data \o From(left, count) = left
      BY <1>1, <2>1
    <3>2. (done \o data) \o From(left, count) = done \o (data \o From(left, count))
      BY <3>1, ConcatThree
    <3> QED
      BY <3>1, <3>2
  <2>8. From(left, count) # <<>>
    BY <1>1, <1>5, <2>1
  <2>9. MidStream(h, From(left, count))
    <3> HIDE DEF h
    <3> QED
      BY <1>2, <2>1, <2>4, <2>7, <2>8 DEF MidStream
  <2> QED
    BY <1>5, <2>6, <2>8, <2>9 DEF data
<1> QED
  BY <1>1, <1>4, <1>5

\* The bytes of a notification that ends the message and begins another one.
LEMMA GoesBeyond ==
    ASSUME NEW done, NEW left, MidStream(done, left),
           NEW next \in Messages, NEW cut \in 1..Len(next)
    PROVE  LET data == left \o SubSeq(next, 1, cut)
           IN  IF cut = Len(next)
               THEN Remainder(done \o data) = <<>>
               ELSE /\ Remainder(done \o data) = SubSeq(next, 1, cut)
                    /\ MidStream(SubSeq(next, 1, cut), From(next, cut))
                    /\ From(next, cut) # <<>>
<1> DEFINE q == SubSeq(next, 1, cut)
           p == done \o left
           data == left \o q
<1>1. /\ done \in Seq(Bytes) /\ left \in Seq(Bytes)
      /\ next \in Seq(Bytes) /\ Len(next) \in Nat
      /\ cut \in Nat /\ 1 <= cut /\ cut <= Len(next)
  BY WholeMessage DEF MidStream, Whole
<1>2. Whole(p)
  <2>1. CASE done = <<>> /\ left = <<>>
    <3>1. p = <<>>
      BY <2>1
    <3> QED
      BY <3>1, WholeEmpty
  <2>2. CASE p \in Messages
    BY <2>2, WholeMessage
  <2> QED
    BY <2>1, <2>2 DEF MidStream
<1>3. /\ q \in Seq(Bytes) /\ Len(q) = cut
      /\ From(next, cut) \in Seq(Bytes) /\ Len(From(next, cut)) = Len(next) - cut
      /\ q \o From(next, cut) = next
  BY <1>1, SplitAt
<1>4. done \o data = p \o q
  <2> HIDE DEF q
  <2>1. done \in Seq(Bytes) /\ left \in Seq(Bytes) /\ q \in Seq(Bytes)
    BY <1>1, <1>3
  <2>2. (done \o left) \o q = done \o (left \o q)
    BY <2>1, ConcatThree
  <2> QED
    BY <2>2
<1>5. CASE cut = Len(next)
  <2>1. q = next
    BY <1>1, <1>5, SubSeqFull
  <2>2. Remainder(p \o next) = <<>>
    <3> HIDE DEF p
    <3> QED
      BY <1>2, WholeAndMessage, NothingRemains
  <2> QED
    BY <1>4, <1>5, <2>1, <2>2
<1>6. CASE cut < Len(next)
  <2>1. \A k \in 1..Len(q) : k \notin ObjectEnds(q)
    BY <1>1, <1>3, <1>6, UnfinishedMessage
  <2>2. Remainder(p \o q) = q
    <3> HIDE DEF p, q
    <3> QED
      BY <1>2, <1>3, <2>1, UnfinishedRemains
  <2>3. From(next, cut) # <<>>
    BY <1>1, <1>3, <1>6
  <2>4. MidStream(q, From(next, cut))
    <3> HIDE DEF q
    <3> QED
      BY <1>3, <2>3 DEF MidStream
  <2> QED
    <3>1. cut # Len(next)
      BY <1>1, <1>6
    <3>2. Remainder(done \o data) = q
      BY <1>4, <2>2
    <3> HIDE DEF q, data
    <3>3. IF cut = Len(next) THEN Remainder(done \o data) = <<>>
          ELSE /\ Remainder(done \o data) = q
               /\ MidStream(q, From(next, cut)) /\ From(next, cut) # <<>>
      BY <2>3, <2>4, <3>1, <3>2
    <3> QED
      BY <3>3 DEF q, data
<1> QED
  BY <1>1, <1>5, <1>6

\* Without faults the buffer holds what the appliance has sent of its message.
InStep ==
    /\ faults \in Nat
    /\ faults = 0 => buffer.bytes = sent /\ MidStream(sent, sending)

LEMMA MidStreamFits ==
    ASSUME NEW done, NEW left, MidStream(done, left)
    PROVE  Len(done) <= MaxBytes /\ Len(done) \in Nat
<1>1. done \in Seq(Bytes) /\ left \in Seq(Bytes)
  BY DEF MidStream
<1>2. MaxBytes \in Nat
  BY ChannelAssumption
<1>3. CASE done = <<>>
  BY <1>2, <1>3
<1>4. CASE done \o left \in Messages
  <2> DEFINE m == done \o left
  <2>1. Len(m) = Len(done) + Len(left)
    BY <1>1
  <2>2. Len(m) <= MaxBytes
    BY <1>4, WholeMessage
  <2> HIDE DEF m
  <2> QED
    BY <1>1, <1>2, <2>1, <2>2
<1> QED
  BY <1>3, <1>4 DEF MidStream

\* A notification hands over what the appliance has sent, with the new bytes;
\* what it leaves in the buffer is what has been sent of the next message.
LEMMA NotifiedInStep ==
    ASSUME ChannelInv, InStep, faults = 0, NEW count \in 1..MaxFragment,
           NEW next \in Messages \cup {<<>>}, Notified(count, next)
    PROVE  buffer'.bytes = sent' /\ MidStream(sent', sending')
<1> DEFINE data == SubSeq(sending \o next, 1, count)
<1>1. /\ buffer.bytes = sent /\ MidStream(sent, sending)
      /\ sent \in Seq(Bytes) /\ sending \in Seq(Bytes)
      /\ Len(sent) <= MaxBytes /\ Len(sent) \in Nat
  BY MidStreamFits DEF InStep, MidStream
<1>2. Advances(count, next) /\ HandleD6Notify(data)
  BY DEF Notified
<1>3. /\ count \in Nat /\ 1 <= count /\ MaxBytes \in Nat
      /\ Len(sending) \in Nat
  BY <1>1, ChannelAssumption
<1>4. RoomMade(buffer) = buffer
  BY <1>1, <1>3 DEF RoomMade
<1>5. buffer'.bytes = Remainder(sent \o data)
  <2>1. data \in Seq(Bytes) /\ Len(data) <= MaxFragment
    BY <1>1, <1>2, AdvancesType
  <2> HIDE DEF data
  <2>2. /\ buffer'.bytes = Remainder(handed')
        /\ handed' = RoomMade(buffer).bytes \o data
    BY <1>2, <2>1, NotifiedAtRest
  <2> QED
    BY <1>1, <1>4, <2>2
<1>6. CASE next = <<>>
  <2>1. sending \o next = sending
    BY <1>1, <1>6
  <2>2. /\ count <= Len(sending)
        /\ sending' = From(sending, count)
        /\ sent' = IF sending' = <<>> THEN <<>>
                   ELSE sent \o SubSeq(sending, 1, count)
    BY <1>2, <1>6, <2>1 DEF Advances, From
  <2>3. count \in 1..Len(sending) /\ data = SubSeq(sending, 1, count)
    BY <1>3, <2>1, <2>2
  <2>4. CASE count = Len(sending)
    <3>1. sending' = <<>>
      BY <1>1, <2>2, <2>4 DEF From
    <3>2. Remainder(sent \o data) = <<>>
      BY <1>1, <2>3, <2>4, GoesOn
    <3> QED
      BY <1>5, <2>2, <3>1, <3>2 DEF MidStream
  <2>5. CASE count # Len(sending)
    <3>1. /\ Remainder(sent \o data) = sent \o data
          /\ MidStream(sent \o data, From(sending, count))
          /\ From(sending, count) # <<>>
      BY <1>1, <2>3, <2>5, GoesOn
    <3>2. sent' = sent \o data
      BY <2>2, <2>3, <3>1
    <3> QED
      BY <1>5, <2>2, <3>1, <3>2
  <2> QED
    BY <2>4, <2>5
<1>7. CASE next # <<>>
  <2> DEFINE cut == count - Len(sending)
             q == SubSeq(next, 1, cut)
  <2>1. next \in Messages /\ next \in Seq(Bytes) /\ Len(next) \in Nat
    BY <1>7, ChannelAssumption
  <2>2. Len(sending \o next) = Len(sending) + Len(next)
    BY <1>1, <2>1
  <2>3. /\ count <= Len(sending) + Len(next) /\ count > Len(sending)
        /\ sending' = From(sending \o next, count)
        /\ sent' = IF sending' = <<>> THEN <<>> ELSE q
    BY <1>2, <1>7, <2>2 DEF Advances, From
  <2>4. cut \in 1..Len(next) /\ cut \in 0..Len(next) /\ Len(sending) + cut = count
    BY <1>3, <2>1, <2>3
  <2>5. data = sending \o q /\ From(sending \o next, count) = From(next, cut)
    <3> HIDE DEF cut
    <3>1. /\ SubSeq(sending \o next, 1, Len(sending) + cut)
               = sending \o SubSeq(next, 1, cut)
          /\ From(sending \o next, Len(sending) + cut) = From(next, cut)
      BY <1>1, <2>1, <2>4, SplitBeyond
    <3> QED
      BY <2>4, <3>1
  <2> HIDE DEF cut, data
  <2>6. CASE cut = Len(next)
    <3>1. sending' = <<>>
      BY <2>1, <2>3, <2>5, <2>6 DEF From
    <3>2. Remainder(sent \o data) = <<>>
      BY <1>1, <2>1, <2>4, <2>5, <2>6, GoesBeyond
    <3> QED
      BY <1>5, <2>3, <3>1, <3>2 DEF MidStream
  <2>7. CASE cut # Len(next)
    <3>1. /\ Remainder(sent \o data) = q
          /\ MidStream(q, From(next, cut))
          /\ From(next, cut) # <<>>
      BY <1>1, <2>1, <2>4, <2>5, <2>7, GoesBeyond
    <3>2. sent' = q
      BY <2>3, <2>5, <3>1
    <3> QED
      BY <1>5, <2>3, <2>5, <3>1, <3>2
  <2> QED
    BY <2>6, <2>7
<1> QED
  BY <1>6, <1>7

LEMMA InStepInit == Init => InStep
<1> SUFFICES ASSUME Init PROVE InStep
  OBVIOUS
<1>1. /\ buffer = EmptyBuffer /\ sending = <<>> /\ sent = <<>> /\ faults = 0
  BY DEF Init
<1>2. EmptyBuffer.bytes = <<>>
  BY DEF EmptyBuffer
<1> QED
  BY <1>1, <1>2 DEF InStep, MidStream

LEMMA InStepStep ==
    ASSUME ~PollsMidMessage, ChannelInv, InStep, [Next]_channelVars
    PROVE  InStep'
<1>0. faults \in Nat
  BY DEF InStep
<1>1. CASE Notification
  <2>1. PICK count \in 1..MaxFragment, next \in Messages \cup {<<>>} :
             Notified(count, next)
    BY <1>1 DEF Notification
  <2>2. faults' = faults
    BY <2>1 DEF Notified
  <2>3. faults = 0 => buffer'.bytes = sent' /\ MidStream(sent', sending')
    BY <2>1, NotifiedInStep
  <2> QED
    BY <1>0, <2>2, <2>3 DEF InStep
<1>2. ASSUME Faulty PROVE InStep'
  <2>1. faults' \in Nat /\ faults' # 0
    BY <1>0, <1>2 DEF Faulty
  <2> QED
    BY <2>1 DEF InStep
<1>3. CASE NotificationLost
  BY <1>2, <1>3 DEF NotificationLost
<1>4. CASE NoiseArrives
  BY <1>2, <1>4 DEF NoiseArrives
<1>5. CASE Resubscribed
  BY <1>2, <1>5 DEF Resubscribed
<1>6. CASE Disconnected
  BY <1>2, <1>6 DEF Disconnected
<1>7. CASE PollTick
  <2>1. /\ sending = <<>> /\ sending' = sending /\ sent' = sent /\ faults' = faults
        /\ buffer' = IF Len(buffer.bytes) \in {lastPollBytes} \ {0}
                     THEN EmptyBuffer ELSE buffer
    BY <1>7 DEF PollTick, PollMayFall
  <2>2. ASSUME faults = 0 PROVE buffer'.bytes = sent' /\ MidStream(sent', sending')
    <3>1. buffer.bytes = sent /\ MidStream(sent, sending)
      BY <2>2 DEF InStep
    <3>2. sent = <<>>
      BY <2>1, <3>1 DEF MidStream
    <3>3. Len(buffer.bytes) = 0
      BY <3>1, <3>2
    <3>4. buffer' = buffer
      BY <2>1, <3>3
    <3> QED
      BY <2>1, <3>1, <3>4
  <2> QED
    BY <1>0, <2>1, <2>2 DEF InStep
<1>8. CASE UNCHANGED channelVars
  BY <1>0, <1>8 DEF channelVars, InStep
<1> QED
  BY <1>1, <1>3, <1>4, <1>5, <1>6, <1>7, <1>8 DEF Next

\* As long as nothing goes wrong no byte of a message is lost, whatever the
\* messages and however they are fragmented.  It takes that no tick of the poll
\* falls between two fragments: do_periodic_poll may flush a buffer that has the
\* size it had one tick before by chance.
THEOREM ChannelIsLossless ==
    ASSUME ~PollsMidMessage PROVE Spec => []FaultFreeIsLossless
<1>1. ChannelInv /\ InStep /\ [Next]_channelVars => InStep'
  BY InStepStep
<1>2. InStep => FaultFreeIsLossless
  BY DEF InStep, FaultFreeIsLossless
<1> QED
  BY <1>1, <1>2, InStepInit, ChannelHolds, PTL DEF Spec

=============================================================================
