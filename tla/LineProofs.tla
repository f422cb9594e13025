----------------------------- MODULE LineProofs -----------------------------
(***************************************************************************)
(* Theorems about the serial line between the router and its radio: what a *)
(* reader makes of the bytes of a frame, whatever follows them; what a     *)
(* router makes of the packet another router has sent; and, in every       *)
(* behaviour of Gateway, that the frames the router takes are the ones the *)
(* radio sent, in their order, for any answers, traffic and threads.       *)
(*                                                                         *)
(* The bytes that are still to be read are cut at the frames that are      *)
(* still to be taken (LineInv): from that follows what the reader finds in *)
(* them.                                                                   *)
(***************************************************************************)
EXTENDS Gateway, SequenceTheorems, FiniteSetTheorems, TLAPS

-----------------------------------------------------------------------------
(* Sequences of bytes: the part of b that starts after the first n bytes is *)
(* s, if it has the elements of s.                                          *)

LEMMA Part ==
  ASSUME NEW S, NEW s \in Seq(S), NEW b, NEW n \in Nat,
         \A i \in 1..Len(s) : b[n + i] = s[i]
  PROVE  SubSeq(b, n + 1, n + Len(s)) = s
<1>1. Len(s) \in Nat /\ \A i \in 1..Len(s) : s[i] \in S
  BY LenProperties, ElementOfSeq
<1>2. ASSUME NEW k \in (n + 1)..(n + Len(s)) PROVE b[k] \in S
  <2>1. k - n \in 1..Len(s) /\ n + (k - n) = k
    BY <1>1
  <2> QED BY <1>1, <2>1
<1>3. n + 1 \in Int /\ n + Len(s) \in Int
  BY <1>1
<1> DEFINE t == SubSeq(b, n + 1, n + Len(s))
<1>4. /\ t \in Seq(S)
      /\ Len(t) = IF n + 1 <= n + Len(s) THEN n + Len(s) - (n + 1) + 1 ELSE 0
      /\ \A i \in 1..(n + Len(s) - (n + 1) + 1) : t[i] = b[n + 1 + i - 1]
  BY <1>2, <1>3, SubSeqProperties
<1>5. Len(t) = Len(s)
  BY <1>1, <1>4
<1>6. \A i \in 1..Len(t) : t[i] = s[i]
  <2> SUFFICES ASSUME NEW i \in 1..Len(s) PROVE t[i] = s[i]
    BY <1>5
  <2>1. i \in 1..(n + Len(s) - (n + 1) + 1) /\ n + 1 + i - 1 = n + i
    BY <1>1
  <2> QED BY <1>4, <2>1
<1> HIDE DEF t
<1>7. t = s
  BY <1>4, <1>5, <1>6, SeqEqual
<1> QED BY <1>7 DEF t

-----------------------------------------------------------------------------
(* Frames *)

\* The two bytes of a length.
High(n) == (n \div 256) % 256
Low(n) == n % 256
LEMMA FrameFields ==
  ASSUME NEW f \in Frames
  PROVE  /\ f = [type |-> f.type, header |-> f.header, data |-> f.data]
         /\ f.header \in Seq(Byte) /\ f.data \in Seq(Byte)
         /\ Len(f.header) = Width(f.type) /\ (f.type \notin WithData => f.data = <<>>)
BY DEF Frames, Byte

\* Two bytes hold a length.
LEMMA TwoBytes ==
  ASSUME NEW n \in Nat, n < LengthLimit PROVE 256 * High(n) + Low(n) = n
BY DEF High, Low, LengthLimit

\* Where the bytes of a frame are: b starts with the frame w, whose length is in the two
\* bytes `high' and `low', and between the four bytes in front and the checksum are header
\* and data.
LaidOut(w, b, high, low, type, header, data) ==
  /\ Len(w) = Len(header) + Len(data) + 5
  /\ b[2] = high /\ b[3] = low /\ b[4] = type
  /\ \A i \in 1..Len(header) : b[4 + i] = header[i]
  /\ \A i \in 1..Len(data) : b[4 + Len(header) + i] = data[i]

Enclosed(start, content, sum) == start \o content \o <<sum>>
Content(type, header, data) == <<type>> \o header \o data

LEMMA LineBytes ==
  ASSUME NEW S, NEW start \in Seq(S), Len(start) = 3, NEW type \in S, NEW header \in Seq(S),
         NEW data \in Seq(S), NEW sum \in S, NEW rest \in Seq(S)
  PROVE  LaidOut(Enclosed(start, Content(type, header, data), sum),
                 Enclosed(start, Content(type, header, data), sum) \o rest,
                 start[2], start[3], type, header, data)
<1> DEFINE first == <<type>>
           last == <<sum>>
           two == first \o header
           content == two \o data
           head == start \o content
           whole == head \o last
           b == whole \o rest
           h == Len(header)
           d == Len(data)
           Is(t, x, y) ==
             /\ t \in Seq(S) /\ Len(t) = Len(x) + Len(y)
             /\ \A i \in 1..Len(x) + Len(y) :
                  t[i] = IF i <= Len(x) THEN x[i] ELSE y[i - Len(x)]
<1>1. /\ first \in Seq(S) /\ Len(first) = 1 /\ first[1] = type
      /\ last \in Seq(S) /\ Len(last) = 1
  OBVIOUS
<1> HIDE DEF first, last
<1>2. \A x, y \in Seq(S) : Is(x \o y, x, y)
  BY ConcatProperties, Zenon
<1> HIDE DEF Is
<1>3. Is(two, first, header)
  BY <1>1, <1>2, Zenon
<1>4. two \in Seq(S)
  BY <1>3, Zenon DEF Is
<1>5. Is(content, two, data)
  BY <1>2, <1>4, Zenon
<1>6. content \in Seq(S)
  BY <1>5, Zenon DEF Is
<1>7. Is(head, start, content)
  BY <1>2, <1>6, Zenon
<1>8. head \in Seq(S)
  BY <1>7, Zenon DEF Is
<1>9. Is(whole, head, last)
  BY <1>1, <1>2, <1>8, Zenon
<1>10. whole \in Seq(S)
  BY <1>9, Zenon DEF Is
<1>11. Is(b, whole, rest) /\ Len(rest) \in Nat /\ h \in Nat /\ d \in Nat
  BY <1>2, <1>10, LenProperties, Zenon
<1> HIDE DEF two, content, head, whole, b
<1>12. /\ Len(two) = 1 + h /\ Len(content) = 1 + h + d
       /\ Len(head) = 4 + h + d /\ Len(whole) = h + d + 5
  <2>1. /\ Len(two) = 1 + h /\ Len(content) = Len(two) + d
        /\ Len(head) = 3 + Len(content) /\ Len(whole) = Len(head) + 1
    BY <1>1, <1>3, <1>5, <1>7, <1>9, Zenon DEF Is
  <2> HIDE DEF h, d
  <2> QED BY <1>11, <2>1
<1>13. /\ \A i \in 1..(1 + h) : two[i] = IF i <= 1 THEN first[i] ELSE header[i - 1]
       /\ \A i \in 1..((1 + h) + d) :
            content[i] = IF i <= 1 + h THEN two[i] ELSE data[i - (1 + h)]
       /\ \A i \in 1..(3 + (1 + h + d)) :
            head[i] = IF i <= 3 THEN start[i] ELSE content[i - 3]
       /\ \A i \in 1..((4 + h + d) + 1) :
            whole[i] = IF i <= 4 + h + d THEN head[i] ELSE last[i - (4 + h + d)]
       /\ \A i \in 1..((h + d + 5) + Len(rest)) :
            b[i] = IF i <= h + d + 5 THEN whole[i] ELSE rest[i - (h + d + 5)]
  BY <1>1, <1>3, <1>5, <1>7, <1>9, <1>11, <1>12, Zenon DEF Is
<1> HIDE DEF h, d
<1>14. ASSUME NEW i \in 1..(4 + h + d) PROVE b[i] = head[i]
  <2>1. /\ i \in 1..((h + d + 5) + Len(rest)) /\ i <= h + d + 5
        /\ i \in 1..((4 + h + d) + 1) /\ i <= 4 + h + d
    BY <1>11
  <2> QED BY <1>13, <2>1, Zenon
<1>15. b[2] = start[2] /\ b[3] = start[3]
  <2>1. /\ 2 \in 1..(4 + h + d) /\ 2 \in 1..(3 + (1 + h + d)) /\ 2 <= 3
        /\ 3 \in 1..(4 + h + d) /\ 3 \in 1..(3 + (1 + h + d)) /\ 3 <= 3
    BY <1>11
  <2> QED BY <1>14, <1>13, <2>1, Zenon
<1>16. ASSUME NEW k \in 1..(1 + h + d) PROVE b[3 + k] = content[k]
  <2>1. /\ 3 + k \in 1..(4 + h + d) /\ 3 + k \in 1..(3 + (1 + h + d)) /\ ~(3 + k <= 3)
        /\ (3 + k) - 3 = k
    BY <1>11
  <2>2. b[3 + k] = head[3 + k] /\ head[3 + k] = content[(3 + k) - 3]
    BY <1>14, <1>13, <2>1, Zenon
  <2> QED BY <2>1, <2>2, Zenon
<1>17. ASSUME NEW k \in 1..(1 + h) PROVE content[k] = two[k]
  <2>1. k \in 1..((1 + h) + d) /\ k <= 1 + h
    BY <1>11
  <2> QED BY <1>13, <2>1, Zenon
<1>18. b[4] = type
  <2>1. /\ 1 \in 1..(1 + h + d) /\ 1 \in 1..(1 + h) /\ 1 <= 1 /\ 3 + 1 = 4
    BY <1>11
  <2>2. b[3 + 1] = content[1] /\ content[1] = two[1] /\ two[1] = first[1]
    BY <1>16, <1>17, <1>13, <2>1, Zenon
  <2> QED BY <1>1, <2>1, <2>2, Zenon
<1>19. ASSUME NEW i \in 1..h PROVE b[4 + i] = header[i]
  <2>1. /\ 1 + i \in 1..(1 + h + d) /\ 1 + i \in 1..(1 + h) /\ 3 + (1 + i) = 4 + i
        /\ ~(1 + i <= 1) /\ (1 + i) - 1 = i
    BY <1>11
  <2>2. /\ b[3 + (1 + i)] = content[1 + i] /\ content[1 + i] = two[1 + i]
        /\ two[1 + i] = header[(1 + i) - 1]
    BY <1>16, <1>17, <1>13, <2>1, Zenon
  <2> QED BY <2>1, <2>2, Zenon
<1>20. ASSUME NEW i \in 1..d PROVE b[4 + h + i] = data[i]
  <2>1. /\ 1 + h + i \in 1..(1 + h + d) /\ 1 + h + i \in 1..((1 + h) + d)
        /\ 3 + (1 + h + i) = 4 + h + i
        /\ ~(1 + h + i <= 1 + h) /\ (1 + h + i) - (1 + h) = i
    BY <1>11
  <2>2. /\ b[3 + (1 + h + i)] = content[1 + h + i]
        /\ content[1 + h + i] = data[(1 + h + i) - (1 + h)]
    BY <1>16, <1>13, <2>1, Zenon
  <2> QED BY <2>1, <2>2, Zenon
<1>21. /\ Len(whole) = h + d + 5
       /\ b[2] = start[2] /\ b[3] = start[3] /\ b[4] = type
       /\ \A i \in 1..h : b[4 + i] = header[i]
       /\ \A i \in 1..d : b[4 + h + i] = data[i]
  BY <1>12, <1>15, <1>18, <1>19, <1>20, Zenon
<1>22. LaidOut(whole, b, start[2], start[3], type, header, data)
  BY <1>21, Zenon DEF LaidOut, h, d
<1>23. whole = Enclosed(start, Content(type, header, data), sum)
  BY Zenon DEF Enclosed, Content, whole, head, content, two, first, last
<1>24. b = whole \o rest
  BY Zenon DEF b
<1> QED BY <1>22, <1>23, <1>24, Zenon

\* The same for a content that is wrapped.
LEMMA WrappedBytes ==
  ASSUME NEW R, NEW type, NEW header \in Seq(R), NEW data \in Seq(R), NEW rest \in Seq(R)
  PROVE  LaidOut(Wrapped(Content(type, header, data)),
                 Wrapped(Content(type, header, data)) \o rest,
                 High(Len(header) + Len(data) + 1), Low(Len(header) + Len(data) + 1),
                 type, header, data)
<1> DEFINE content == Content(type, header, data)
           sum == Checksum(content)
           n == Len(content)
           k == Len(header) + Len(data) + 1
           S == Int \cup R \cup {type, sum}
           start == <<126, (n \div 256) % 256, n % 256>>
<1>1. R \subseteq S /\ type \in S /\ sum \in S /\ Int \subseteq S
  OBVIOUS
<1> HIDE DEF S
<1>2. /\ header \in Seq(S) /\ data \in Seq(S) /\ rest \in Seq(S)
      /\ Len(header) \in Nat /\ Len(data) \in Nat
  BY <1>1, SeqMonotonic, LenProperties, Zenon
<1>3. n = k /\ n \in Nat
  <2> DEFINE first == <<type>>
             two == first \o header
  <2>1. first \in Seq(S) /\ Len(first) = 1
    BY <1>1
  <2> HIDE DEF first
  <2>2. two \in Seq(S) /\ Len(two) = Len(first) + Len(header)
    BY <1>2, <2>1, ConcatProperties, Zenon
  <2> HIDE DEF two
  <2>3. Len(two \o data) = Len(two) + Len(data)
    BY <1>2, <2>2, ConcatProperties, Zenon
  <2>4. n = Len(two \o data)
    BY Zenon DEF Content, two, first
  <2> HIDE DEF n
  <2>5. n = Len(two) + Len(data)
    BY <2>3, <2>4, Zenon
  <2> QED BY <1>2, <2>1, <2>2, <2>5
<1>4. Wrapped(content) = Enclosed(start, content, sum)
  BY Zenon DEF Wrapped, Enclosed
<1> HIDE DEF content, sum, n, k
<1>5. /\ start \in Seq(S) /\ Len(start) = 3
      /\ start[2] = High(k) /\ start[3] = Low(k)
  <2>1. 126 \in S /\ (n \div 256) % 256 \in S /\ n % 256 \in S
    BY <1>1, <1>3
  <2>2. start \in Seq(S) /\ Len(start) = 3
    BY <2>1
  <2>3. start[2] = (n \div 256) % 256 /\ start[3] = n % 256
    OBVIOUS
  <2> QED BY <1>3, <2>2, <2>3 DEF High, Low
<1> HIDE DEF start
<1>6. LaidOut(Enclosed(start, Content(type, header, data), sum),
              Enclosed(start, Content(type, header, data), sum) \o rest,
              start[2], start[3], type, header, data)
  BY <1>1, <1>2, <1>5, LineBytes, Zenon
<1>7. LaidOut(Enclosed(start, content, sum), Enclosed(start, content, sum) \o rest,
              High(k), Low(k), type, header, data)
  BY <1>5, <1>6, Zenon DEF content
<1> QED BY <1>4, <1>7, Zenon DEF content, k

\* A frame that fits, with k elements between its length and its checksum.
Readable(type, header, data, k) ==
  /\ \E S : header \in Seq(S) /\ data \in Seq(S)
  /\ k = Len(header) + Len(data) + 1 /\ k < LengthLimit
  /\ Len(header) = Width(type) /\ (type \notin WithData => data = <<>>)

\* What is read from bytes in these places.
LEMMA ReadBack ==
  ASSUME NEW type, NEW header, NEW data, NEW w, NEW b, NEW k,
         Readable(type, header, data, k),
         LaidOut(w, b, High(k), Low(k), type, header, data)
  PROVE  /\ FrameSize(b) = Len(w) /\ Covers(b)
         /\ Unserialize(b) = [type |-> type, header |-> header, data |-> data]
<1> DEFINE h == Len(header)
           d == Len(data)
           n == 4
<1>1. /\ \E S : header \in Seq(S) /\ data \in Seq(S)
      /\ k = Len(header) + Len(data) + 1 /\ k < LengthLimit
      /\ Len(header) = Width(type) /\ (type \notin WithData => data = <<>>)
  BY Zenon DEF Readable
<1> PICK S : header \in Seq(S) /\ data \in Seq(S)
  BY <1>1, Zenon
<1>2. h \in Nat /\ d \in Nat /\ k \in Nat /\ n \in Nat
  BY <1>1, LenProperties
<1>3. /\ Len(w) = h + d + 5
      /\ b[2] = High(k) /\ b[3] = Low(k) /\ b[4] = type
      /\ \A i \in 1..Len(header) : b[n + i] = header[i]
      /\ \A i \in 1..Len(data) : b[(n + h) + i] = data[i]
  BY Zenon DEF LaidOut
<1>4. FrameSize(b) = h + d + 5
  <2>1. 256 * b[2] + b[3] = k
    <3>1. 256 * High(k) + Low(k) = k
      BY <1>1, <1>2, TwoBytes, Zenon
    <3> QED BY <1>3, <3>1, Zenon
  <2> QED BY <1>1, <1>2, <2>1 DEF FrameSize
<1>5. n = 4 /\ n + 1 = 5
  OBVIOUS
<1> HIDE DEF n
<1>6. SubSeq(b, n + 1, n + Len(header)) = header
  <2> HIDE DEF h, d
  <2>1. n \in Nat /\ \A i \in 1..Len(header) : b[n + i] = header[i]
    BY <1>2, <1>3, Zenon
  <2> QED BY <2>1, Part, Zenon
<1>7. SubSeq(b, (n + h) + 1, (n + h) + Len(data)) = data
  <2>1. n + h \in Nat
    BY <1>2
  <2> QED BY <1>1, <1>3, <2>1, Part, Zenon
<1>8. h = Width(type) /\ h = Len(header) /\ d = Len(data)
  BY <1>1
<1> HIDE DEF h, d
<1>9. /\ FrameSize(b) - 1 = (n + h) + d /\ FrameSize(b) - 5 >= h
      /\ 5 + h = (n + h) + 1 /\ 4 + h = n + h
  BY <1>2, <1>4, <1>5
<1>10. SubSeq(b, 5, 4 + h) = header
  BY <1>5, <1>6, <1>8, <1>9, Zenon
<1>11. SubSeq(b, 5 + h, FrameSize(b) - 1) = data
  BY <1>7, <1>8, <1>9, Zenon
<1>12. (IF type \in WithData THEN SubSeq(b, 5 + h, FrameSize(b) - 1) ELSE <<>>) = data
  BY <1>1, <1>11, Zenon
<1>13. Unserialize(b) = [type |-> type, header |-> header, data |-> data]
  BY <1>3, <1>8, <1>10, <1>12, Zenon DEF Unserialize
<1>14. Covers(b)
  BY <1>3, <1>8, <1>9, Zenon DEF Covers
<1> QED BY <1>3, <1>4, <1>13, <1>14, Zenon

\* A frame whose header and data are elements of S.
IsFrame(f, S) ==
  /\ f = [type |-> f.type, header |-> f.header, data |-> f.data]
  /\ f.header \in Seq(S) /\ f.data \in Seq(S)
  /\ Len(f.header) = Width(f.type) /\ (f.type \notin WithData => f.data = <<>>)
  /\ Fitting(f)

\* What a reader makes of bytes that begin with a frame.
ReadsAs(b, w, f) == FrameSize(b) = Len(w) /\ Covers(b) /\ Unserialize(b) = f

LEMMA FrameRead ==
  ASSUME NEW S, NEW f, IsFrame(f, S), NEW rest \in Seq(S)
  PROVE  /\ ReadsAs(Serialize(f) \o rest, Serialize(f), f)
         /\ Len(Serialize(f)) = Len(f.header) + Len(f.data) + 5
<1> DEFINE type == f.type
           header == f.header
           data == f.data
           k == Len(header) + Len(data) + 1
           w == Serialize(f)
           b == w \o rest
<1>1. /\ f = [type |-> type, header |-> header, data |-> data]
      /\ header \in Seq(S) /\ data \in Seq(S)
      /\ Len(header) = Width(type) /\ (type \notin WithData => data = <<>>)
      /\ Fitting(f)
  BY Zenon DEF IsFrame
<1>2. k < LengthLimit
  BY <1>1, Zenon DEF Fitting
<1>3. w = Wrapped(Content(type, header, data))
  BY Zenon DEF Serialize, Content
<1>4. k = Len(header) + Len(data) + 1
  OBVIOUS
<1>5. b = w \o rest
  OBVIOUS
<1> HIDE DEF type, header, data, w, b, k
<1>6. LaidOut(w, b, High(k), Low(k), type, header, data)
  BY <1>1, <1>3, <1>4, <1>5, WrappedBytes, Zenon
<1>7. /\ FrameSize(b) = Len(w) /\ Covers(b)
      /\ Unserialize(b) = [type |-> type, header |-> header, data |-> data]
  <2>1. Readable(type, header, data, k)
    BY <1>1, <1>2, <1>4, Zenon DEF Readable
  <2> QED BY <1>6, <2>1, ReadBack, Zenon
<1>8. FrameSize(b) = Len(w) /\ Covers(b) /\ Unserialize(b) = f
  BY <1>1, <1>7, Zenon
<1>9. Len(w) = Len(header) + Len(data) + 5
  BY <1>6, Zenon DEF LaidOut
<1> QED BY <1>8, <1>9, Zenon DEF ReadsAs, b, w, header, data

\* However the bytes go on after a frame, the reader takes exactly its bytes, and finds
\* in them the frame that was written: two directions that were written separately, one
\* field at a time, agree for every frame whose length fits its two bytes, and the reader
\* is where the next frame starts (radio.h, xbee.cpp:142-151).
THEOREM Frames_Survive ==
  ASSUME NEW f \in Frames, Fitting(f), NEW rest \in Seq(Byte)
  PROVE  LET b == Serialize(f) \o rest IN
         FrameSize(b) = Len(Serialize(f)) /\ Covers(b) /\ Unserialize(b) = f
<1> DEFINE b == Serialize(f) \o rest
<1>1. IsFrame(f, Byte)
  BY FrameFields, Zenon DEF IsFrame
<1>2. ReadsAs(b, Serialize(f), f)
  BY <1>1, FrameRead, Zenon
<1> QED BY <1>2, Zenon DEF ReadsAs

-----------------------------------------------------------------------------
(* Data packets *)

\* b begins with the bytes of start, then x, then y.
Parts(b, start, x, y) ==
  /\ Len(b) = Len(start) + Len(x) + Len(y)
  /\ \A i \in 1..Len(start) : b[i] = start[i]
  /\ \A i \in 1..Len(x) : b[Len(start) + i] = x[i]
  /\ \A i \in 1..Len(y) : b[Len(start) + Len(x) + i] = y[i]

\* What a concatenation has in its three parts.
LEMMA ThreeParts ==
  ASSUME NEW S, NEW start \in Seq(S), NEW x \in Seq(S), NEW y \in Seq(S)
  PROVE  Parts(start \o (x \o y), start, x, y)
<1> DEFINE z == x \o y
           b == start \o z
           s == Len(start)
           h == Len(x)
           d == Len(y)
           Is(t, u, v) ==
             /\ t \in Seq(S) /\ Len(t) = Len(u) + Len(v)
             /\ \A i \in 1..Len(u) + Len(v) :
                  t[i] = IF i <= Len(u) THEN u[i] ELSE v[i - Len(u)]
<1>1. \A u, v \in Seq(S) : Is(u \o v, u, v)
  BY ConcatProperties, Zenon
<1> HIDE DEF Is
<1>2. Is(z, x, y)
  BY <1>1, Zenon
<1>3. /\ z \in Seq(S) /\ Len(z) = h + d
      /\ \A i \in 1..(h + d) : z[i] = IF i <= h THEN x[i] ELSE y[i - h]
  BY <1>2, Zenon DEF Is
<1> HIDE DEF z
<1>4. Is(b, start, z)
  BY <1>1, <1>3, Zenon
<1> HIDE DEF b
<1>5. /\ Len(b) = s + Len(z)
      /\ \A i \in 1..(s + Len(z)) : b[i] = IF i <= s THEN start[i] ELSE z[i - s]
  BY <1>4, Zenon DEF Is
<1>6. s \in Nat /\ h \in Nat /\ d \in Nat
  BY LenProperties, Zenon
<1> HIDE DEF s, h, d
<1>7. /\ Len(b) = s + h + d
      /\ \A i \in 1..(s + h + d) : b[i] = IF i <= s THEN start[i] ELSE z[i - s]
  BY <1>3, <1>5, <1>6
<1>8. ASSUME NEW i \in 1..s PROVE b[i] = start[i]
  <2>1. i \in 1..(s + h + d) /\ i <= s
    BY <1>6
  <2> QED BY <1>7, <2>1, Zenon
<1>9. ASSUME NEW i \in 1..h PROVE b[s + i] = x[i]
  <2>1. /\ s + i \in 1..(s + h + d) /\ ~(s + i <= s) /\ (s + i) - s = i
        /\ i \in 1..(h + d) /\ i <= h
    BY <1>6
  <2> QED BY <1>3, <1>7, <2>1, Zenon
<1>10. ASSUME NEW i \in 1..d PROVE b[s + h + i] = y[i]
  <2>1. /\ s + h + i \in 1..(s + h + d) /\ ~(s + h + i <= s) /\ (s + h + i) - s = h + i
        /\ h + i \in 1..(h + d) /\ ~(h + i <= h) /\ (h + i) - h = i
    BY <1>6
  <2> QED BY <1>3, <1>7, <2>1, Zenon
<1>11. Parts(b, start, x, y)
  BY <1>7, <1>8, <1>9, <1>10, Zenon DEF Parts, s, h, d
<1> QED BY <1>11, Zenon DEF b, z

\* The six bytes in front of the variable part.
IsHeader(t, a, b, c, d, e, f) ==
  /\ t \in Seq(Byte) /\ Len(t) = 6
  /\ t[1] = a /\ t[2] = b /\ t[3] = c /\ t[4] = d /\ t[5] = e /\ t[6] = f

LEMMA OneThenFive ==
  ASSUME NEW a \in Byte, NEW b \in Byte, NEW c \in Byte, NEW d \in Byte, NEW e \in Byte,
         NEW f \in Byte
  PROVE  IsHeader(<<a>> \o <<b, c, d, e, f>>, a, b, c, d, e, f)
<1> DEFINE one == <<a>>
           five == <<b, c, d, e, f>>
           t == one \o five
<1>1. one \in Seq(Byte) /\ Len(one) = 1 /\ one[1] = a
  OBVIOUS
<1>2. /\ five \in Seq(Byte) /\ Len(five) = 5
      /\ five[1] = b /\ five[2] = c /\ five[3] = d /\ five[4] = e /\ five[5] = f
  OBVIOUS
<1> HIDE DEF one, five
<1>3. /\ t \in Seq(Byte) /\ Len(t) = Len(one) + Len(five)
      /\ \A i \in 1..Len(one) + Len(five) :
           t[i] = IF i <= Len(one) THEN one[i] ELSE five[i - Len(one)]
  BY <1>1, <1>2, ConcatProperties, Zenon
<1> HIDE DEF t
<1>4. /\ t \in Seq(Byte) /\ Len(t) = 6
      /\ t[1] = a /\ t[2] = b /\ t[3] = c /\ t[4] = d /\ t[5] = e /\ t[6] = f
  BY <1>1, <1>2, <1>3
<1> QED BY <1>4, Zenon DEF IsHeader, t, one, five

\* For every route and content that fit, to_frame() writes as many bytes as DataSize says,
\* and from_frame() finds the packet in them: route and content share the variable part,
\* and the byte in front of it says where one ends (packet.cpp:66-96, 140-160).
THEOREM Packets_Survive ==
  ASSUME NEW p \in DataPackets, Fits(DataSize(Len(p.visited), Len(p.content)))
  PROVE  /\ To_frame(p) \in Seq(Byte)
         /\ Len(To_frame(p)) = DataSize(Len(p.visited), Len(p.content))
         /\ From_frame(To_frame(p)) = p
<1> DEFINE x == p.visited
           y == p.content
           h == Len(x)
           d == Len(y)
           one == <<1>>
           five == <<p.destination, p.source, p.packet_id, p.port, h>>
           start == one \o five
           z == x \o y
           b == start \o z
<1>1. /\ x \in Seq(Byte) /\ y \in Seq(Byte) /\ p.type = "Data"
      /\ p.destination \in Byte /\ p.source \in Byte /\ p.packet_id \in Byte /\ p.port \in Byte
      /\ p = [type |-> "Data", destination |-> p.destination, source |-> p.source,
              packet_id |-> p.packet_id, port |-> p.port, visited |-> x, content |-> y]
  BY DEF DataPackets
<1>2. To_frame(p) = b
  <2>1. TypeCode["Data"] = 1
    BY DEF TypeCode
  <2>2. Variable(p) = z
    BY <1>1, Zenon DEF Variable
  <2> QED BY <1>1, <2>1, <2>2, Zenon DEF To_frame
<1>3. h \in Nat /\ d \in Nat /\ 6 + h + d < 256
  <2>1. h \in Nat /\ d \in Nat
    BY <1>1, LenProperties, Zenon
  <2>2. DataSize(h, d) < 256
    BY Zenon DEF Fits
  <2> QED BY <2>1, <2>2, Zenon DEF DataSize
<1> HIDE DEF x, y, h, d, z
<1>4. h \in Byte
  BY <1>3 DEF Byte
<1>5. /\ start \in Seq(Byte) /\ Len(start) = 6
      /\ start[1] = 1 /\ start[2] = p.destination /\ start[3] = p.source
      /\ start[4] = p.packet_id /\ start[5] = p.port /\ start[6] = h
  <2>1. 1 \in Byte
    BY DEF Byte
  <2>2. /\ p.destination \in Byte /\ p.source \in Byte
        /\ p.packet_id \in Byte /\ p.port \in Byte
    BY <1>1, Zenon
  <2>3. IsHeader(start, 1, p.destination, p.source, p.packet_id, p.port, h)
    BY <1>4, <2>1, <2>2, OneThenFive, Zenon
  <2> QED BY <2>3, Zenon DEF IsHeader
<1> HIDE DEF start, b
<1>6. Parts(b, start, x, y)
  BY <1>1, <1>5, ThreeParts, Zenon DEF b, z
<1>7. b \in Seq(Byte) /\ Len(b) = 6 + h + d
  BY <1>1, <1>5, <1>6, ConcatProperties, Zenon DEF Parts, b, z, h, d
<1> DEFINE n == 6
<1>8. n \in Nat /\ n + h \in Nat /\ n = 6 /\ n + 1 = 7 /\ (n + h) + 1 = 7 + h
      /\ (n + h) + d = 6 + h + d
  BY <1>3
<1> HIDE DEF n
<1>9. /\ \A i \in 1..Len(x) : b[n + i] = x[i]
      /\ \A i \in 1..Len(y) : b[(n + h) + i] = y[i]
      /\ \A i \in 1..n : b[i] = start[i]
  BY <1>5, <1>6, <1>8, Zenon DEF Parts, h
<1>10. SubSeq(b, n + 1, n + Len(x)) = x /\ SubSeq(b, (n + h) + 1, (n + h) + Len(y)) = y
  <2>1. x \in Seq(Byte) /\ y \in Seq(Byte) /\ n \in Nat /\ n + h \in Nat
    BY <1>1, <1>8, Zenon
  <2>2. \A i \in 1..Len(x) : b[n + i] = x[i]
    BY <1>9, Zenon
  <2>3. \A i \in 1..Len(y) : b[(n + h) + i] = y[i]
    BY <1>9, Zenon
  <2>4. SubSeq(b, n + 1, n + Len(x)) = x
    BY <2>1, <2>2, Part, Zenon
  <2>5. SubSeq(b, (n + h) + 1, (n + h) + Len(y)) = y
    BY <2>1, <2>3, Part, Zenon
  <2> QED BY <2>4, <2>5, Zenon
<1>11. SubSeq(b, 7, 6 + h) = x /\ SubSeq(b, 7 + h, Len(b)) = y
  BY <1>7, <1>8, <1>10, Zenon DEF h, d
<1>12. /\ b[1] = 1 /\ b[2] = p.destination /\ b[3] = p.source
       /\ b[4] = p.packet_id /\ b[5] = p.port /\ b[6] = h
  <2>1. 1 \in 1..n /\ 2 \in 1..n /\ 3 \in 1..n /\ 4 \in 1..n /\ 5 \in 1..n /\ 6 \in 1..n
    BY <1>8
  <2> QED BY <1>5, <1>9, <2>1, Zenon
<1>13. From_frame(b) = p
  <2>1. TypeCode.Data = 1 /\ TypeCode.Ack = 3 /\ TypeCode.NodeBroadcast = 254
        /\ TypeCode.EdgeDrop = 253 /\ TypeCode.Graph = 251
    BY DEF TypeCode
  <2>2. From_frame(b) = [type |-> "Data", destination |-> b[2], source |-> b[3],
                         packet_id |-> b[4], port |-> b[5], visited |-> SubSeq(b, 7, 6 + b[6]),
                         content |-> SubSeq(b, 7 + b[6], Len(b))]
    <3> DEFINE first == b[1]
    <3>1. first = 1
      BY <1>12
    <3> QED BY <2>1, <3>1 DEF From_frame
  <2> QED BY <1>1, <1>11, <1>12, <2>2, Zenon
<1>14. Len(b) = DataSize(h, d)
  BY <1>7, Zenon DEF DataSize
<1> QED BY <1>2, <1>7, <1>13, <1>14, Zenon DEF h, d, x, y

-----------------------------------------------------------------------------
(* The other packets *)

\* What a concatenation has in its two parts.
TwoParts(t, x, y) ==
  /\ Len(t) = Len(x) + Len(y)
  /\ \A i \in 1..Len(x) : t[i] = x[i]
  /\ \A i \in 1..Len(y) : t[Len(x) + i] = y[i]

LEMMA Concatenated ==
  ASSUME NEW S, NEW x \in Seq(S), NEW y \in Seq(S)
  PROVE  x \o y \in Seq(S) /\ TwoParts(x \o y, x, y)
<1> DEFINE t == x \o y
           h == Len(x)
           d == Len(y)
<1>1. /\ t \in Seq(S) /\ Len(t) = h + d
      /\ \A i \in 1..(h + d) : t[i] = IF i <= h THEN x[i] ELSE y[i - h]
  BY ConcatProperties, Zenon
<1>2. h \in Nat /\ d \in Nat
  BY LenProperties, Zenon
<1> HIDE DEF t, h, d
<1>3. ASSUME NEW i \in 1..h PROVE t[i] = x[i]
  <2>1. i \in 1..(h + d) /\ i <= h
    BY <1>2
  <2> QED BY <1>1, <2>1, Zenon
<1>4. ASSUME NEW i \in 1..d PROVE t[h + i] = y[i]
  <2>1. h + i \in 1..(h + d) /\ ~(h + i <= h) /\ (h + i) - h = i
    BY <1>2
  <2> QED BY <1>1, <2>1, Zenon
<1> QED BY <1>1, <1>3, <1>4, Zenon DEF TwoParts, t, h, d

\* Any function on the first numbers is a sequence, whatever its values are.
LEMMA Listed ==
  ASSUME NEW n \in Nat, NEW v, DOMAIN v = 1..n, v = [k \in 1..n |-> v[k]]
  PROVE  v \in Seq({v[k] : k \in 1..n}) /\ Len(v) = n
<1> DEFINE V == {v[k] : k \in 1..n}
<1>1. v \in [1..n -> V]
  <2>1. \A k \in 1..n : v[k] \in V
    OBVIOUS
  <2> HIDE DEF V
  <2>2. [k \in 1..n |-> v[k]] \in [1..n -> V]
    BY <2>1
  <2> QED BY <2>2, Zenon
<1> HIDE DEF V
<1>2. v \in Seq(V)
  BY <1>1
<1>3. Len(v) = n
  BY <1>1
<1> QED BY <1>2, <1>3, Zenon DEF V

\* Bytes in front of a variable part, whatever it holds.
Fronted(start, n, v) ==
  /\ Len(start \o v) = Len(start) + n
  /\ \A i \in 1..Len(start) : (start \o v)[i] = start[i]
  /\ \A i \in 1..n : (start \o v)[Len(start) + i] = v[i]

LEMMA InFront ==
  ASSUME NEW start \in Seq(Byte), NEW n \in Nat, NEW v, DOMAIN v = 1..n,
         v = [k \in 1..n |-> v[k]]
  PROVE  Fronted(start, n, v)
<1> DEFINE V == {v[k] : k \in 1..n}
           S == Byte \cup V
<1>1. v \in Seq(V) /\ Len(v) = n
  BY Listed, Zenon
<1>2. Byte \subseteq S /\ V \subseteq S
  OBVIOUS
<1> HIDE DEF V, S
<1>3. start \in Seq(S) /\ v \in Seq(S)
  BY <1>1, <1>2, SeqMonotonic, Zenon
<1>4. TwoParts(start \o v, start, v)
  BY <1>3, Concatenated, Zenon
<1> QED BY <1>1, <1>4, Zenon DEF TwoParts, Fronted


\* Two bytes hold a delay.
LEMMA TwoByteDelay ==
  ASSUME NEW n \in Word PROVE (n \div 256) * 256 + (n % 256) = n
<1> DEFINE k == n \div 256
<1>1. n \in Nat
  BY DEF Word
<1>2. k \in Int /\ n % 256 = n - 256 * k
  BY <1>1
<1> HIDE DEF k
<1>3. k * 256 + (n % 256) = n
  BY <1>1, <1>2
<1> QED BY <1>3, Zenon DEF k

LEMMA Overwritten ==
  ASSUME NEW e \in RemoteParameters, NEW x, NEW y
  PROVE  [e EXCEPT !.errors = x, !.retries = y]
           = [hop |-> e.hop, delay |-> e.delay, errors |-> x, retries |-> y]
<1> DEFINE a == [e EXCEPT !.errors = x]
<1>1. a = [hop |-> e.hop, delay |-> e.delay, errors |-> x, retries |-> e.retries]
  BY DEF RemoteParameters
<1> HIDE DEF a
<1>2. [a EXCEPT !.retries = y]
        = [hop |-> e.hop, delay |-> e.delay, errors |-> x, retries |-> y]
  BY <1>1
<1> QED BY <1>2, Zenon DEF a

\* What arrives of an entry.
LEMMA EntryArrives ==
  ASSUME NEW e \in RemoteParameters
  PROVE  /\ (e.delay \div 256) * 256 + (e.delay % 256) = e.delay
         /\ Arriving(e) = [hop |-> e.hop, delay |-> e.delay,
                           errors |-> Counts(e) \div 16, retries |-> Counts(e)]
<1> DEFINE c == Counts(e)
           x == c \div 16
<1>1. e.delay \in Word
  BY DEF RemoteParameters
<1>2. Arriving(e) = [e EXCEPT !.errors = x, !.retries = c]
  BY Zenon DEF Arriving
<1> HIDE DEF c, x
<1>3. [e EXCEPT !.errors = x, !.retries = c]
        = [hop |-> e.hop, delay |-> e.delay, errors |-> x, retries |-> c]
  BY Overwritten, Zenon
<1>4. (e.delay \div 256) * 256 + (e.delay % 256) = e.delay
  BY <1>1, TwoByteDelay, Zenon
<1> QED BY <1>2, <1>3, <1>4, Zenon DEF x, c

\* Where an ACK has its entries.
Entry(e, v, i) ==
  /\ v[4 * i - 3] = e.hop
  /\ v[4 * i - 2] = e.delay \div 256
  /\ v[4 * i - 1] = e.delay % 256
  /\ v[4 * i] = Counts(e)
Entries(p, v) == \A i \in 1..Len(p.parameters) : Entry(p.parameters[i], v, i)

LEMMA EntryPlaces ==
  ASSUME NEW p \in Acks
  PROVE  Entries(p, Variable(p))
<1> DEFINE q == p.parameters
           n == Len(q)
           v == Variable(p)
<1>1. p.type = "Ack" /\ q \in Seq(RemoteParameters)
  BY DEF Acks
<1>2. n \in Nat
  BY <1>1, LenProperties, Zenon
<1>3. v = [k \in 1..4 * n |-> EntryBytes(q[(k - 1) \div 4 + 1])[((k - 1) % 4) + 1]]
  BY <1>1, Zenon DEF Variable
<1> HIDE DEF q, n, v
<1>4. ASSUME NEW i \in 1..n
      PROVE Entry(q[i], v, i)
  <2>1. ASSUME NEW r \in 1..4
        PROVE v[4 * i - 4 + r] = EntryBytes(q[i])[r]
    <3> DEFINE k == 4 * i - 4 + r
    <3>1. k \in 1..4 * n /\ (k - 1) \div 4 + 1 = i /\ ((k - 1) % 4) + 1 = r
      BY <1>2
    <3> HIDE DEF k
    <3>2. v[k] = EntryBytes(q[i])[r]
      BY <1>3, <3>1, Zenon
    <3> QED BY <3>2, Zenon DEF k
  <2>2. /\ EntryBytes(q[i])[1] = q[i].hop /\ EntryBytes(q[i])[2] = q[i].delay \div 256
        /\ EntryBytes(q[i])[3] = q[i].delay % 256 /\ EntryBytes(q[i])[4] = Counts(q[i])
    BY DEF EntryBytes
  <2>3. /\ 4 * i - 4 + 1 = 4 * i - 3 /\ 4 * i - 4 + 2 = 4 * i - 2
        /\ 4 * i - 4 + 3 = 4 * i - 1 /\ 4 * i - 4 + 4 = 4 * i
    OBVIOUS
  <2>4. 1 \in 1..4 /\ 2 \in 1..4 /\ 3 \in 1..4 /\ 4 \in 1..4
    OBVIOUS
  <2>5. /\ v[4 * i - 3] = EntryBytes(q[i])[1] /\ v[4 * i - 2] = EntryBytes(q[i])[2]
        /\ v[4 * i - 1] = EntryBytes(q[i])[3] /\ v[4 * i] = EntryBytes(q[i])[4]
    <3>1. /\ v[4 * i - 4 + 1] = EntryBytes(q[i])[1] /\ v[4 * i - 4 + 2] = EntryBytes(q[i])[2]
          /\ v[4 * i - 4 + 3] = EntryBytes(q[i])[3] /\ v[4 * i - 4 + 4] = EntryBytes(q[i])[4]
      BY <2>1, <2>4, Zenon
    <3> QED BY <2>3, <3>1, Zenon
  <2> QED BY <2>2, <2>5, Zenon DEF Entry
<1> QED BY <1>4, Zenon DEF Entries, v, n, q

\* What arrives of an ACK.
LEMMA AckArrives ==
  ASSUME NEW p \in Acks
  PROVE  /\ Len(To_frame(p)) = 6 + 4 * Len(p.parameters)
         /\ From_frame(To_frame(p)) = Arrived(p)
<1> DEFINE q == p.parameters
           n == Len(q)
           v == Variable(p)
           start == <<3>> \o <<p.destination, p.source, p.packet_id, p.origin, p.status>>
           b == start \o v
<1>1. /\ p.type = "Ack" /\ q \in Seq(RemoteParameters)
      /\ p.destination \in Byte /\ p.source \in Byte /\ p.packet_id \in Byte
      /\ p.origin \in Byte /\ p.status \in Byte
      /\ p = [type |-> "Ack", destination |-> p.destination, source |-> p.source,
              packet_id |-> p.packet_id, origin |-> p.origin, status |-> p.status,
              parameters |-> q]
  BY DEF Acks
<1>2. n \in Nat /\ q = [i \in 1..n |-> q[i]]
  <2>1. n \in Nat /\ q \in [1..n -> RemoteParameters]
    BY <1>1, LenProperties, Zenon
  <2> QED BY <2>1
<1>3. To_frame(p) = b
  <2>1. TypeCode["Ack"] = 3
    BY DEF TypeCode
  <2> QED BY <1>1, <2>1, Zenon DEF To_frame
<1>4. /\ start \in Seq(Byte) /\ Len(start) = 6
      /\ start[1] = 3 /\ start[2] = p.destination /\ start[3] = p.source
      /\ start[4] = p.packet_id /\ start[5] = p.origin /\ start[6] = p.status
  <2>1. 3 \in Byte
    BY DEF Byte
  <2>2. IsHeader(start, 3, p.destination, p.source, p.packet_id, p.origin, p.status)
    BY <1>1, <2>1, OneThenFive, Zenon
  <2> QED BY <2>2, Zenon DEF IsHeader
<1>5. 4 * n \in Nat /\ DOMAIN v = 1..4 * n /\ v = [k \in 1..4 * n |-> v[k]]
  <2>1. v = [k \in 1..4 * n |-> EntryBytes(q[(k - 1) \div 4 + 1])[((k - 1) % 4) + 1]]
    BY <1>1, Zenon DEF Variable
  <2> HIDE DEF v
  <2> QED BY <1>2, <2>1
<1>6. Entries(p, v)
  BY EntryPlaces, Zenon
<1> HIDE DEF start, v
<1>7. /\ Len(b) = 6 + 4 * n
      /\ \A i \in 1..6 : b[i] = start[i]
      /\ \A i \in 1..4 * n : b[6 + i] = v[i]
  <2> DEFINE m == 4 * n
  <2>1. m \in Nat /\ DOMAIN v = 1..m /\ v = [k \in 1..m |-> v[k]]
    BY <1>5, Zenon
  <2> HIDE DEF m
  <2>2. /\ Len(b) = Len(start) + m
        /\ \A i \in 1..Len(start) : b[i] = start[i]
        /\ \A i \in 1..m : b[Len(start) + i] = v[i]
    <3>1. start \in Seq(Byte) /\ Len(start) = 6
      BY <1>4, Zenon
    <3> HIDE DEF n, q
    <3>2. Fronted(start, m, v)
      BY <2>1, <3>1, InFront, Zenon
    <3> QED BY <3>2, Zenon DEF Fronted
  <2> QED BY <1>4, <2>2, Zenon DEF m
<1> HIDE DEF b
<1>8. /\ b[1] = 3 /\ b[2] = p.destination /\ b[3] = p.source
      /\ b[4] = p.packet_id /\ b[5] = p.origin /\ b[6] = p.status
  <2>1. 1 \in 1..6 /\ 2 \in 1..6 /\ 3 \in 1..6 /\ 4 \in 1..6 /\ 5 \in 1..6 /\ 6 \in 1..6
    OBVIOUS
  <2> QED BY <1>4, <1>7, <2>1, Zenon
<1>9. (Len(b) - 6) \div 4 = n
  <2> DEFINE m == Len(b)
  <2>1. m = 6 + 4 * n
    BY <1>7, Zenon
  <2> HIDE DEF m, n
  <2>2. (m - 6) \div 4 = n
    BY <1>2, <2>1
  <2> QED BY <2>2, Zenon DEF m
<1>10. ASSUME NEW i \in 1..n PROVE EntryOf(b, 3 + 4 * i) = Arriving(q[i])
  <2> DEFINE e == q[i]
  <2>1. e \in RemoteParameters
    BY <1>1, ElementOfSeq, Zenon
  <2>2. /\ v[4 * i - 3] = e.hop /\ v[4 * i - 2] = e.delay \div 256
        /\ v[4 * i - 1] = e.delay % 256 /\ v[4 * i] = Counts(e)
    <3>1. Entry(e, v, i)
      BY <1>6, Zenon DEF Entries
    <3> HIDE DEF e
    <3> QED BY <3>1, Zenon DEF Entry
  <2>5. /\ (e.delay \div 256) * 256 + (e.delay % 256) = e.delay
        /\ Arriving(e) = [hop |-> e.hop, delay |-> e.delay,
                          errors |-> Counts(e) \div 16, retries |-> Counts(e)]
    BY <2>1, EntryArrives, Zenon
  <2> HIDE DEF e, n
  <2>3. /\ 4 * i - 3 \in 1..4 * n /\ 4 * i - 2 \in 1..4 * n /\ 4 * i - 1 \in 1..4 * n
        /\ 4 * i \in 1..4 * n
        /\ 6 + (4 * i - 3) = 3 + 4 * i /\ 6 + (4 * i - 2) = (3 + 4 * i) + 1
        /\ 6 + (4 * i - 1) = (3 + 4 * i) + 2 /\ 6 + 4 * i = (3 + 4 * i) + 3
    BY <1>2
  <2>6. /\ b[6 + (4 * i - 3)] = v[4 * i - 3] /\ b[6 + (4 * i - 2)] = v[4 * i - 2]
        /\ b[6 + (4 * i - 1)] = v[4 * i - 1] /\ b[6 + 4 * i] = v[4 * i]
    BY <1>7, <2>3, Zenon
  <2>4. /\ b[3 + 4 * i] = e.hop /\ b[(3 + 4 * i) + 1] = e.delay \div 256
        /\ b[(3 + 4 * i) + 2] = e.delay % 256 /\ b[(3 + 4 * i) + 3] = Counts(e)
    BY <2>2, <2>3, <2>6, Zenon
  <2>7. EntryOf(b, 3 + 4 * i) = [hop |-> e.hop, delay |-> e.delay,
                                 errors |-> Counts(e) \div 16, retries |-> Counts(e)]
    <3>1. EntryOf(b, 3 + 4 * i)
            = [hop |-> b[3 + 4 * i],
               delay |-> b[(3 + 4 * i) + 1] * 256 + b[(3 + 4 * i) + 2],
               errors |-> b[(3 + 4 * i) + 3] \div 16, retries |-> b[(3 + 4 * i) + 3]]
      BY Zenon DEF EntryOf
    <3> QED BY <2>4, <2>5, <3>1, Zenon
  <2> QED BY <2>5, <2>7, Zenon DEF e
<1>11. From_frame(b) = [type |-> "Ack", destination |-> p.destination, source |-> p.source,
                        packet_id |-> p.packet_id, origin |-> p.origin, status |-> p.status,
                        parameters |-> [i \in 1..n |-> EntryOf(b, 3 + 4 * i)]]
  <2>1. TypeCode.Data = 1 /\ TypeCode.Ack = 3 /\ TypeCode.NodeBroadcast = 254
        /\ TypeCode.EdgeDrop = 253 /\ TypeCode.Graph = 251
    BY DEF TypeCode
  <2> DEFINE params == [i \in 1..(Len(b) - 6) \div 4 |-> EntryOf(b, 3 + 4 * i)]
  <2>2. From_frame(b) = [type |-> "Ack", destination |-> b[2], source |-> b[3],
                         packet_id |-> b[4], origin |-> b[5], status |-> b[6],
                         parameters |-> params]
    <3> DEFINE first == b[1]
    <3>1. first = 3 /\ first # 1
      BY <1>8
    <3> QED BY <2>1, <3>1 DEF From_frame
  <2>3. params = [i \in 1..n |-> EntryOf(b, 3 + 4 * i)]
    BY <1>9, Zenon
  <2> HIDE DEF params
  <2> QED BY <1>8, <2>2, <2>3, Zenon
<1>12. [i \in 1..n |-> EntryOf(b, 3 + 4 * i)] = [i \in 1..n |-> Arriving(q[i])]
  BY <1>10, Zenon
<1>13. Arrived(p) = [type |-> "Ack", destination |-> p.destination, source |-> p.source,
                     packet_id |-> p.packet_id, origin |-> p.origin, status |-> p.status,
                     parameters |-> [i \in 1..n |-> Arriving(q[i])]]
  <2> DEFINE params == [i \in 1..n |-> Arriving(q[i])]
  <2>1. Arrived(p) = [p EXCEPT !.parameters = params]
    BY <1>1, Zenon DEF Arrived
  <2> HIDE DEF params
  <2>2. [p EXCEPT !.parameters = params]
          = [type |-> "Ack", destination |-> p.destination, source |-> p.source,
             packet_id |-> p.packet_id, origin |-> p.origin, status |-> p.status,
             parameters |-> params]
    BY <1>1
  <2> QED BY <2>1, <2>2, Zenon DEF params
<1> QED BY <1>3, <1>7, <1>11, <1>12, <1>13, Zenon DEF n, q

LEMMA BroadcastArrives ==
  ASSUME NEW p \in NodeBroadcasts
  PROVE  Len(To_frame(p)) = 2 /\ From_frame(To_frame(p)) = Arrived(p)
<1> DEFINE b == <<254>> \o <<p.address>> \o <<>>
<1>1. p.type = "NodeBroadcast" /\ p = [type |-> "NodeBroadcast", address |-> p.address]
  BY DEF NodeBroadcasts
<1>2. To_frame(p) = b
  <2>1. TypeCode["NodeBroadcast"] = 254
    BY DEF TypeCode
  <2>2. Variable(p) = <<>>
    BY <1>1 DEF Variable
  <2>3. CASE p.type = "NodeBroadcast"
    <3>1. "NodeBroadcast" # "Data" /\ "NodeBroadcast" # "Ack"
      OBVIOUS
    <3> QED BY <1>1, <2>1, <2>2, <3>1 DEF To_frame
  <2> QED BY <1>1, <2>3
<1>3. Len(b) = 2 /\ b[1] = 254 /\ b[2] = p.address
  OBVIOUS
<1> HIDE DEF b
<1>4. From_frame(b) = [type |-> "NodeBroadcast", address |-> p.address]
  <2>1. TypeCode.Data = 1 /\ TypeCode.Ack = 3 /\ TypeCode.NodeBroadcast = 254
        /\ TypeCode.EdgeDrop = 253 /\ TypeCode.Graph = 251
    BY DEF TypeCode
  <2> DEFINE first == b[1]
  <2>2. first = 254 /\ first # 1 /\ first # 3
    BY <1>3
  <2>3. From_frame(b) = [type |-> "NodeBroadcast", address |-> b[2]]
    BY <2>1, <2>2 DEF From_frame
  <2> QED BY <1>3, <2>3, Zenon
<1>5. Arrived(p) = p
  BY <1>1 DEF Arrived
<1> QED BY <1>1, <1>2, <1>3, <1>4, <1>5, Zenon

LEMMA DropArrives ==
  ASSUME NEW p \in EdgeDrops
  PROVE  Len(To_frame(p)) = 3 /\ From_frame(To_frame(p)) = Arrived(p)
<1> DEFINE b == <<253>> \o p.edge \o <<>>
<1>1. p.type = "EdgeDrop" /\ p = [type |-> "EdgeDrop", edge |-> p.edge] /\ p.edge \in Byte \X Byte
  BY DEF EdgeDrops
<1>2. To_frame(p) = b
  <2>1. TypeCode["EdgeDrop"] = 253
    BY DEF TypeCode
  <2>2. Variable(p) = <<>>
    BY <1>1 DEF Variable
  <2>3. "EdgeDrop" # "Data" /\ "EdgeDrop" # "Ack" /\ "EdgeDrop" # "NodeBroadcast"
    OBVIOUS
  <2> QED BY <1>1, <2>1, <2>2, <2>3 DEF To_frame
<1>3. PICK x \in Byte, y \in Byte : p.edge = <<x, y>>
  BY <1>1
<1>4. Len(b) = 3 /\ b[1] = 253 /\ b[2] = x /\ b[3] = y
  BY <1>3
<1> HIDE DEF b
<1>5. From_frame(b) = [type |-> "EdgeDrop", edge |-> p.edge]
  <2>1. TypeCode.Data = 1 /\ TypeCode.Ack = 3 /\ TypeCode.NodeBroadcast = 254
        /\ TypeCode.EdgeDrop = 253 /\ TypeCode.Graph = 251
    BY DEF TypeCode
  <2> DEFINE first == b[1]
  <2>2. first = 253 /\ first # 1 /\ first # 3 /\ first # 254
    BY <1>4
  <2>3. From_frame(b) = [type |-> "EdgeDrop", edge |-> <<b[2], b[3]>>]
    BY <2>1, <2>2 DEF From_frame
  <2> QED BY <1>3, <1>4, <2>3, Zenon
<1>6. Arrived(p) = p
  BY <1>1 DEF Arrived
<1> QED BY <1>1, <1>2, <1>4, <1>5, <1>6, Zenon

LEMMA GraphArrives ==
  ASSUME NEW p \in Graphs
  PROVE  /\ Len(To_frame(p)) = 1 + 2 * Len(p.edges)
         /\ From_frame(To_frame(p)) = Arrived(p)
<1> DEFINE q == p.edges
           n == Len(q)
           m == 2 * n
           v == Variable(p)
           start == <<251>> \o <<>>
           b == start \o v
<1>1. /\ p.type = "Graph" /\ q \in Seq(Byte \X Byte) /\ p = [type |-> "Graph", edges |-> q]
  BY DEF Graphs
<1>2. n \in Nat /\ q \in [1..n -> Byte \X Byte]
  BY <1>1, LenProperties, Zenon
<1>3. To_frame(p) = b
  <2>1. TypeCode["Graph"] = 251
    BY DEF TypeCode
  <2>2. "Graph" # "Data" /\ "Graph" # "Ack" /\ "Graph" # "NodeBroadcast" /\ "Graph" # "EdgeDrop"
    OBVIOUS
  <2> HIDE DEF v
  <2> QED BY <1>1, <2>1, <2>2 DEF To_frame, v
<1>4. start \in Seq(Byte) /\ Len(start) = 1 /\ start[1] = 251
  <2>1. 251 \in Byte
    BY DEF Byte
  <2> QED BY <2>1
<1>5. v = [k \in 1..m |-> q[(k - 1) \div 2 + 1][((k - 1) % 2) + 1]]
  BY <1>1 DEF Variable
<1> HIDE DEF q, v, start
<1>6. m \in Nat /\ DOMAIN v = 1..m /\ v = [k \in 1..m |-> v[k]]
  <2>1. m \in Nat
    <3> HIDE DEF n
    <3> QED BY <1>2
  <2> HIDE DEF m
  <2> QED BY <1>5, <2>1
<1>7. Fronted(start, m, v)
  <2> HIDE DEF m
  <2> QED BY <1>4, <1>6, InFront, Zenon
<1>8. /\ Len(b) = 1 + m /\ b[1] = 251
      /\ \A i \in 1..m : b[1 + i] = v[i]
  <2> HIDE DEF m
  <2>1. 1 \in 1..1
    OBVIOUS
  <2>2. /\ Len(b) = Len(start) + m
        /\ \A i \in 1..Len(start) : b[i] = start[i]
        /\ \A i \in 1..m : b[Len(start) + i] = v[i]
    BY <1>7, Zenon DEF Fronted
  <2> HIDE DEF b, n
  <2>3. Len(start) = 1 /\ start[1] = 251
    BY <1>4, Zenon
  <2>4. b[1] = start[1]
    BY <2>1, <2>2, <2>3, Zenon
  <2>5. ASSUME NEW i \in 1..m PROVE b[1 + i] = v[i]
    <3>1. Len(start) + i = 1 + i
      BY <2>3, Zenon
    <3>2. b[Len(start) + i] = v[i]
      BY <2>2, Zenon
    <3> QED BY <3>1, <3>2, Zenon
  <2> QED BY <2>2, <2>3, <2>4, <2>5, Zenon
<1> HIDE DEF b
<1>9. ASSUME NEW i \in 1..n PROVE <<b[2 * i], b[2 * i + 1]>> = q[i]
  <2> HIDE DEF n
  <2> DEFINE j == 2 * i - 1
             k == 2 * i
  <2>1. /\ j \in 1..m /\ (j - 1) \div 2 + 1 = i /\ ((j - 1) % 2) + 1 = 1 /\ 1 + j = 2 * i
        /\ k \in 1..m /\ (k - 1) \div 2 + 1 = i /\ ((k - 1) % 2) + 1 = 2 /\ 1 + k = 2 * i + 1
    BY <1>2
  <2> HIDE DEF j, k, m
  <2>2. v[j] = q[i][1] /\ v[k] = q[i][2]
    BY <1>5, <2>1, Zenon
  <2>3. b[1 + j] = v[j] /\ b[1 + k] = v[k]
    BY <1>8, <2>1, Zenon
  <2>4. b[2 * i] = q[i][1] /\ b[2 * i + 1] = q[i][2]
    BY <2>1, <2>2, <2>3, Zenon
  <2>5. q[i] \in Byte \X Byte
    BY <1>2, Zenon
  <2>6. q[i] = <<q[i][1], q[i][2]>>
    BY <2>5
  <2> QED BY <2>4, <2>6, Zenon
<1>10. (Len(b) - 1) \div 2 = n
  <2> DEFINE len == Len(b)
  <2>1. len = 1 + 2 * n
    BY <1>8, Zenon
  <2> HIDE DEF len, n
  <2>2. (len - 1) \div 2 = n
    BY <1>2, <2>1
  <2> QED BY <2>2, Zenon DEF len
<1>11. From_frame(b) = [type |-> "Graph", edges |-> q]
  <2>1. TypeCode.Data = 1 /\ TypeCode.Ack = 3 /\ TypeCode.NodeBroadcast = 254
        /\ TypeCode.EdgeDrop = 253 /\ TypeCode.Graph = 251
    BY DEF TypeCode
  <2> DEFINE first == b[1]
             all == [i \in 1..(Len(b) - 1) \div 2 |-> <<b[2 * i], b[2 * i + 1]>>]
  <2>2. first = 251 /\ first # 1 /\ first # 3 /\ first # 254 /\ first # 253
    <3>1. first = 251
      BY <1>8, Zenon
    <3> HIDE DEF first
    <3> QED BY <3>1
  <2>3. From_frame(b) = [type |-> "Graph", edges |-> all]
    BY <2>1, <2>2 DEF From_frame
  <2>4. all = [i \in 1..n |-> <<b[2 * i], b[2 * i + 1]>>]
    BY <1>10, Zenon
  <2>5. [i \in 1..n |-> <<b[2 * i], b[2 * i + 1]>>] = [i \in 1..n |-> q[i]]
    BY <1>9, Zenon
  <2> HIDE DEF all, n
  <2>6. [i \in 1..n |-> q[i]] = q
    BY <1>2
  <2> QED BY <2>3, <2>4, <2>5, <2>6, Zenon
<1>12. Arrived(p) = p
  <2>1. "Graph" # "Ack"
    OBVIOUS
  <2> QED BY <1>1, <2>1, Zenon DEF Arrived
<1> QED BY <1>1, <1>3, <1>8, <1>11, <1>12, Zenon DEF m, n, q

\* Every packet that fits arrives as it was sent, but for the entries of an ACK: there the
\* two directions do not agree, and errors and retries are what Arrived says
\* (packet.cpp:66-206).
THEOREM Packets_Cross ==
  ASSUME NEW p \in Packets
  PROVE  Fits(Len(To_frame(p))) /\ From_frame(To_frame(p)) = Arrived(p)
<1>1. CASE p \in DataPackets /\ Fits(DataSize(Len(p.visited), Len(p.content)))
  <2>1. p.type # "Ack"
    BY <1>1 DEF DataPackets
  <2>2. Arrived(p) = p
    BY <2>1, Zenon DEF Arrived
  <2> QED BY <1>1, <2>2, Packets_Survive, Zenon
<1>2. CASE p \in Acks /\ Fits(6 + 4 * Len(p.parameters))
  BY <1>2, AckArrives, Zenon
<1>3. CASE p \in NodeBroadcasts
  <2>1. Fits(2)
    BY DEF Fits
  <2> QED BY <1>3, <2>1, BroadcastArrives, Zenon
<1>4. CASE p \in EdgeDrops
  <2>1. Fits(3)
    BY DEF Fits
  <2> QED BY <1>4, <2>1, DropArrives, Zenon
<1>5. CASE p \in Graphs /\ Fits(1 + 2 * Len(p.edges))
  BY <1>5, GraphArrives, Zenon
<1> QED BY <1>1, <1>2, <1>3, <1>4, <1>5, Zenon DEF Packets

-----------------------------------------------------------------------------
(* Histories and the bytes of a line. *)

IsList(s) == \E S : s \in Seq(S)

\* What Append leaves as it is.
Grown(t, s, e) ==
  /\ IsList(t) /\ Len(s) \in Nat /\ Len(t) = Len(s) + 1
  /\ t[Len(s) + 1] = e /\ \A i \in 1..Len(s) : t[i] = s[i]

LEMMA Grows == ASSUME NEW s, IsList(s), NEW e PROVE Grown(Append(s, e), s, e)
<1> PICK S : s \in Seq(S)
  BY DEF IsList
<1> DEFINE T == S \cup {e}
<1>1. s \in Seq(T) /\ e \in T
  <2>1. S \subseteq T /\ e \in T
    OBVIOUS
  <2> HIDE DEF T
  <2> QED BY <2>1, SeqMonotonic, Zenon
<1> HIDE DEF T
<1>2. /\ Append(s, e) \in Seq(T) /\ Len(Append(s, e)) = Len(s) + 1
      /\ \A i \in 1..Len(s) : Append(s, e)[i] = s[i]
      /\ Append(s, e)[Len(s) + 1] = e
  BY <1>1, AppendProperties
<1>3. Len(s) \in Nat
  BY LenProperties, Zenon
<1> QED BY <1>2, <1>3, Zenon DEF Grown, IsList

\* Two lists have a set in common that both are made of.
LEMMA Common ==
  ASSUME NEW S, NEW T, NEW s \in Seq(S), NEW t \in Seq(T)
  PROVE  s \in Seq(S \cup T) /\ t \in Seq(S \cup T)
<1>1. S \subseteq S \cup T /\ T \subseteq S \cup T
  OBVIOUS
<1> QED BY <1>1, SeqMonotonic, Zenon

\* A frame as it is written is a list of bytes.
LEMMA SerializedList ==
  ASSUME NEW S, NEW f, f.header \in Seq(S), f.data \in Seq(S)
  PROVE  IsList(Serialize(f))
<1> DEFINE first == <<f.type>>
           two == first \o f.header
           content == two \o f.data
           a == (Len(content) \div 256) % 256
           c == Len(content) % 256
           sum == Checksum(content)
           start == <<126, a, c>>
           head == start \o content
           last == <<sum>>
           T == S \cup {f.type, 126, a, c, sum}
<1>1. Serialize(f) = head \o last
  BY Zenon DEF Serialize, Wrapped
<1> HIDE DEF a, c, sum
<1>2. S \subseteq T /\ first \in Seq(T) /\ start \in Seq(T) /\ last \in Seq(T)
  OBVIOUS
<1> HIDE DEF T, first, start, last
<1>3. f.header \in Seq(T) /\ f.data \in Seq(T)
  BY <1>2, SeqMonotonic, Zenon
<1>4. two \in Seq(T)
  BY <1>2, <1>3, ConcatProperties, Zenon
<1> HIDE DEF two
<1>5. content \in Seq(T)
  BY <1>3, <1>4, ConcatProperties, Zenon
<1> HIDE DEF content
<1>6. head \in Seq(T)
  BY <1>2, <1>5, ConcatProperties, Zenon
<1> HIDE DEF head
<1>7. head \o last \in Seq(T)
  BY <1>2, <1>6, ConcatProperties, Zenon
<1> QED BY <1>1, <1>7, Zenon DEF IsList

\* The bytes of the frames that the radio has sent, as it writes them.
Written(f) == IF f.type = Receive THEN Forwarded(f) ELSE Serialize(f)

\* b is made of the bytes of the frames of s after the n-th: rest[i] is what comes after
\* those of the i-th.
CutAt(b, n, s, S, rest) ==
  /\ rest \in [n..Len(s) -> Seq(S)] /\ rest[n] = b /\ rest[Len(s)] = <<>>
  /\ \A i \in (n + 1)..Len(s) :
       Written(s[i]) \in Seq(S) /\ rest[i - 1] = Written(s[i]) \o rest[i]
Cut(b, n, s) == \E S, rest : CutAt(b, n, s, S, rest)

Regroups(x, y, z) == (x \o y) \o z = x \o (y \o z)
LEMMA Regrouped ==
  ASSUME NEW S, NEW x \in Seq(S), NEW y \in Seq(S), NEW z \in Seq(S) PROVE Regroups(x, y, z)
BY ConcatAssociative, SMT DEF Regroups

LEMMA CutGrows ==
  ASSUME NEW b, NEW s, NEW n \in Nat, n <= Len(s), NEW t, NEW f, Grown(t, s, f),
         Cut(b, n, s), IsList(Written(f))
  PROVE  Cut(b \o Written(f), n, t)
<1> DEFINE w == Written(f)
           m == Len(s)
<1> PICK S0, rest0 : CutAt(b, n, s, S0, rest0)
  BY Zenon DEF Cut
<1> PICK W : w \in Seq(W)
  BY Zenon DEF IsList
<1> DEFINE S == S0 \cup W
           rest == [i \in n..(m + 1) |-> IF i <= m THEN rest0[i] \o w ELSE <<>>]
<1>1. m \in Nat /\ Len(t) = m + 1 /\ t[m + 1] = f /\ \A i \in 1..m : t[i] = s[i]
  BY Zenon DEF Grown
<1>2. /\ rest0 \in [n..m -> Seq(S0)] /\ rest0[n] = b /\ rest0[m] = <<>>
      /\ \A i \in (n + 1)..m :
           Written(s[i]) \in Seq(S0) /\ rest0[i - 1] = Written(s[i]) \o rest0[i]
  BY Zenon DEF CutAt
<1>3. S0 \subseteq S /\ W \subseteq S
  OBVIOUS
<1> HIDE DEF S, w, m
<1>4. w \in Seq(S) /\ <<>> \in Seq(S)
  BY <1>3, SeqMonotonic, EmptySeq, Zenon
<1>5. ASSUME NEW i \in n..m PROVE rest0[i] \in Seq(S)
  <2>1. rest0[i] \in Seq(S0)
    BY <1>2, Zenon
  <2> QED BY <1>3, <2>1, SeqMonotonic, Zenon
<1>6. ASSUME NEW i \in n..m PROVE rest0[i] \o w \in Seq(S)
  BY <1>4, <1>5, ConcatProperties, Zenon
<1>7. n \in n..(m + 1) /\ n <= m /\ m + 1 \in n..(m + 1) /\ ~(m + 1 <= m) /\ n \in n..m
  BY <1>1 DEF m
<1>8. rest \in [n..(m + 1) -> Seq(S)]
  <2>1. ASSUME NEW i \in n..(m + 1)
        PROVE (IF i <= m THEN rest0[i] \o w ELSE <<>>) \in Seq(S)
    <3>1. CASE i <= m
      <4>1. i \in n..m
        BY <1>1, <3>1
      <4> QED BY <1>6, <3>1, <4>1, Zenon
    <3>2. CASE ~(i <= m)
      BY <1>4, <3>2, Zenon
    <3> QED BY <3>1, <3>2
  <2> QED BY <2>1, Zenon
<1>9. rest[n] = b \o w /\ rest[m + 1] = <<>>
  BY <1>2, <1>7, Zenon
<1>10. ASSUME NEW i \in (n + 1)..(m + 1)
       PROVE Written(t[i]) \in Seq(S) /\ rest[i - 1] = Written(t[i]) \o rest[i]
  <2>1. CASE i <= m
    <3>1. i \in (n + 1)..m /\ i \in 1..m /\ i - 1 \in n..m /\ i \in n..m /\ i - 1 <= m
          /\ i - 1 \in n..(m + 1) /\ i \in n..(m + 1)
      BY <1>1, <2>1
    <3>2. /\ t[i] = s[i] /\ Written(s[i]) \in Seq(S0)
          /\ rest0[i - 1] = Written(s[i]) \o rest0[i]
      BY <1>1, <1>2, <3>1, Zenon
    <3>3. Written(s[i]) \in Seq(S)
      BY <1>3, <3>2, SeqMonotonic, Zenon
    <3>4. (Written(s[i]) \o rest0[i]) \o w = Written(s[i]) \o (rest0[i] \o w)
      <4> DEFINE x == Written(s[i])
                 y == rest0[i]
      <4>1. x \in Seq(S) /\ y \in Seq(S) /\ w \in Seq(S)
        BY <1>4, <1>5, <3>1, <3>3, Zenon
      <4> HIDE DEF x, y, rest
      <4>2. (x \o y) \o w = x \o (y \o w)
        <5>1. Regroups(x, y, w)
          BY <4>1, Regrouped, Zenon
        <5> QED BY <5>1, Zenon DEF Regroups
      <4> QED BY <4>2, Zenon DEF x, y
    <3>5. rest[i - 1] = rest0[i - 1] \o w /\ rest[i] = rest0[i] \o w
      BY <2>1, <3>1, Zenon
    <3> QED BY <3>2, <3>3, <3>4, <3>5, Zenon
  <2>2. CASE i = m + 1
    <3>1. /\ i - 1 = m /\ m \in n..(m + 1) /\ m <= m /\ m \in n..m
      BY <1>1, <1>7, <2>2
    <3>2. rest[m] = <<>> \o w /\ rest[m + 1] = <<>>
      BY <1>2, <1>9, <3>1, Zenon
    <3>3. <<>> \o w = w /\ w \o <<>> = w
      BY <1>4, ConcatEmptySeq, Zenon
    <3>4. Written(t[i]) = w
      BY <1>1, <2>2, Zenon DEF w
    <3> QED BY <1>4, <2>2, <3>1, <3>2, <3>3, <3>4, Zenon
  <2>3. i <= m \/ i = m + 1
    BY <1>1
  <2> QED BY <2>1, <2>2, <2>3
<1> HIDE DEF rest
<1>11. CutAt(b \o w, n, t, S, rest)
  BY <1>1, <1>8, <1>9, <1>10, Zenon DEF CutAt
<1> QED BY <1>11, Zenon DEF Cut, w

\* The first of these frames is read, and the rest is left.
LEMMA CutTaken ==
  ASSUME NEW b, NEW s, NEW n \in Nat, Len(s) \in Nat, n < Len(s), Cut(b, n, s),
         NEW S1, IsFrame(s[n + 1], S1), Written(s[n + 1]) = Serialize(s[n + 1])
  PROVE  /\ Unserialize(b) = s[n + 1]
         /\ Cut(SubSeq(b, FrameSize(b) + 1, Len(b)), n + 1, s)
<1> DEFINE f == s[n + 1]
           w == Serialize(f)
           m == Len(s)
           k == n + 1
<1> PICK S0, rest0 : CutAt(b, n, s, S0, rest0)
  BY Zenon DEF Cut
<1> DEFINE S == S1 \cup S0
           x == rest0[k]
           rest == [i \in k..m |-> rest0[i]]
<1>1. /\ rest0 \in [n..m -> Seq(S0)] /\ rest0[n] = b /\ rest0[m] = <<>>
      /\ \A i \in k..m :
           Written(s[i]) \in Seq(S0) /\ rest0[i - 1] = Written(s[i]) \o rest0[i]
  BY Zenon DEF CutAt
<1>2. IsFrame(f, S1) /\ Written(f) = w
  BY Zenon
<1>3. S1 \subseteq S /\ S0 \subseteq S
  OBVIOUS
<1>4. /\ k \in k..m /\ k - 1 = n /\ k \in n..m /\ m \in k..m
      /\ \A i \in k..m : i \in n..m
      /\ \A i \in (k + 1)..m : i \in k..m /\ i - 1 \in k..m
  OBVIOUS
<1> HIDE DEF m, k, S
<1>5. x \in Seq(S0) /\ w \in Seq(S0) /\ b = w \o x
  BY <1>1, <1>2, <1>4, Zenon DEF k
<1> HIDE DEF f, w, x
<1>6. x \in Seq(S) /\ IsFrame(f, S)
  BY <1>2, <1>3, <1>5, SeqMonotonic, Zenon DEF IsFrame
<1>7. ReadsAs(b, w, f)
  BY <1>5, <1>6, FrameRead, Zenon DEF w
<1>8. FrameSize(b) = Len(w) /\ Unserialize(b) = f
  BY <1>7, Zenon DEF ReadsAs
<1>9. SubSeq(b, FrameSize(b) + 1, Len(b)) = x
  <2> DEFINE h == Len(w)
             len == Len(x)
  <2>1. TwoParts(b, w, x) /\ h \in Nat
    BY <1>5, Concatenated, LenProperties, Zenon
  <2>2. Len(b) = h + len /\ \A i \in 1..len : b[h + i] = x[i]
    BY <2>1, Zenon DEF TwoParts
  <2>3. SubSeq(b, h + 1, h + Len(x)) = x
    <3> HIDE DEF h
    <3> QED BY <1>5, <2>1, <2>2, Part, Zenon
  <2> QED BY <1>8, <2>2, <2>3, Zenon
<1>10. CutAt(x, k, s, S0, rest)
  <2>1. rest \in [k..m -> Seq(S0)]
    <3>1. \A i \in k..m : rest0[i] \in Seq(S0)
      BY <1>1, <1>4, Zenon
    <3> QED BY <3>1, Zenon
  <2>2. rest[k] = x /\ rest[m] = <<>>
    BY <1>1, <1>4, Zenon DEF x
  <2>3. ASSUME NEW i \in (k + 1)..m
        PROVE Written(s[i]) \in Seq(S0) /\ rest[i - 1] = Written(s[i]) \o rest[i]
    <3>1. i \in k..m /\ i - 1 \in k..m
      BY <1>4, Zenon
    <3>2. rest[i - 1] = rest0[i - 1] /\ rest[i] = rest0[i]
      BY <3>1, Zenon
    <3> QED BY <1>1, <3>1, <3>2, Zenon
  <2> HIDE DEF rest
  <2> QED BY <2>1, <2>2, <2>3, Zenon DEF CutAt, m
<1> QED BY <1>8, <1>9, <1>10, Zenon DEF Cut, f, k

-----------------------------------------------------------------------------
(* Numbers of a kind. *)

\* A set of numbers up to n is finite, and so is one with another number.
LEMMA Counted ==
  ASSUME NEW n \in Nat, NEW P \in SUBSET (1..n)
  PROVE  /\ IsFiniteSet(P) /\ Cardinality(P) \in Nat /\ (P # {} => Cardinality(P) > 0)
         /\ Cardinality(P \cup {n + 1}) = Cardinality(P) + 1
<1>1. IsFiniteSet(1..n)
  BY FS_Interval
<1>2. IsFiniteSet(P)
  BY <1>1, FS_Subset, Zenon
<1>3. Cardinality(P) \in Nat
  BY <1>2, FS_CardinalityType, Zenon
<1>4. Cardinality(P) = 0 <=> P = {}
  BY <1>2, FS_EmptySet, Zenon
<1>5. n + 1 \notin P
  OBVIOUS
<1>6. Cardinality(P \cup {n + 1}) = Cardinality(P) + 1
  BY <1>2, <1>5, FS_AddElement, Zenon
<1> DEFINE c == Cardinality(P)
<1>7. P # {} => c > 0
  <2> HIDE DEF c
  <2> SUFFICES ASSUME P # {} PROVE c > 0
    OBVIOUS
  <2>1. c # 0 /\ c \in Nat
    BY <1>3, <1>4, Zenon DEF c
  <2> QED BY <2>1
<1> QED BY <1>2, <1>3, <1>6, <1>7, Zenon

\* Which of the first i frames of s are Receive frames.
Receives(s, i) == {j \in 1..i : s[j].type = Receive}
Nth(s, i) == Cardinality(Receives(s, i))

LEMMA NthStays ==
  ASSUME NEW s, NEW t, NEW f, Grown(t, s, f)
  PROVE  /\ \A i \in 0..Len(s) : Nth(t, i) = Nth(s, i) /\ Nth(s, i) \in Nat
         /\ \A i \in 1..Len(s) : s[i].type = Receive => Nth(s, i) > 0
         /\ f.type = Receive => Nth(t, Len(s) + 1) = Nth(s, Len(s)) + 1
         /\ f.type # Receive => Nth(t, Len(s) + 1) = Nth(s, Len(s))
<1> DEFINE m == Len(s)
<1>1. m \in Nat /\ t[m + 1] = f /\ \A i \in 1..m : t[i] = s[i]
  BY Zenon DEF Grown
<1> HIDE DEF m
<1>2. ASSUME NEW i \in 0..m
      PROVE Receives(t, i) = Receives(s, i) /\ Receives(s, i) \in SUBSET (1..i) /\ i \in Nat
  <2>1. i \in Nat /\ \A j \in 1..i : j \in 1..m
    BY <1>1
  <2>2. \A j \in 1..i : t[j].type = s[j].type
    BY <1>1, <2>1, Zenon
  <2> QED BY <2>1, <2>2 DEF Receives
<1>3. ASSUME NEW i \in 0..m PROVE Nth(t, i) = Nth(s, i) /\ Nth(s, i) \in Nat
  BY <1>2, Counted, Zenon DEF Nth
<1>4. ASSUME NEW i \in 1..m, s[i].type = Receive PROVE Nth(s, i) > 0
  <2>1. i \in 0..m /\ i \in 1..i
    OBVIOUS
  <2>2. i \in Receives(s, i)
    BY <1>4, <2>1, Zenon DEF Receives
  <2>3. Receives(s, i) # {}
    BY <2>2, Zenon
  <2> QED BY <1>2, <2>1, <2>3, Counted, Zenon DEF Nth
<1>5. m \in 0..m /\ (1..(m + 1)) = (1..m) \cup {m + 1}
  BY <1>1
<1>6. ASSUME f.type = Receive PROVE Nth(t, m + 1) = Nth(s, m) + 1
  <2>1. Receives(t, m + 1) = Receives(t, m) \cup {m + 1}
    BY <1>1, <1>5, <1>6 DEF Receives
  <2>2. Receives(t, m) = Receives(s, m) /\ Receives(s, m) \in SUBSET (1..m)
    BY <1>2, <1>5, Zenon
  <2>3. Cardinality(Receives(s, m) \cup {m + 1}) = Cardinality(Receives(s, m)) + 1
    BY <1>1, <2>2, Counted, Zenon
  <2> QED BY <2>1, <2>2, <2>3, Zenon DEF Nth
<1>7. ASSUME f.type # Receive PROVE Nth(t, m + 1) = Nth(s, m)
  <2>1. Receives(t, m + 1) = Receives(t, m)
    BY <1>1, <1>5, <1>7 DEF Receives
  <2> QED BY <1>2, <1>5, <2>1, Zenon DEF Nth
<1> QED BY <1>3, <1>4, <1>6, <1>7, Zenon DEF m

-----------------------------------------------------------------------------
(* The reader and the radio. *)

\* All the frames the reader has passed could be written.
InStep == ~torn /\ \A j \in 1..Len(sent) : j <= Len(taken) => Correct(sent[j])

\* The frames the radio sends, and what is in the Receive frames.
Carries(s, a) ==
  /\ Len(a) = Nth(s, Len(s))
  /\ \A i \in 1..Len(s) :
       /\ \E S : IsFrame(s[i], S)
       /\ s[i].type = Receive =>
            /\ Nth(s, i) \in 1..Len(a)
            /\ a[Nth(s, i)] \in Passing /\ s[i].data = To_frame(a[Nth(s, i)])

\* What the reader took, as long as it could.
Matched(k, s) == \A i \in 1..Len(k) :
  (\A j \in 1..Len(s) : j <= i => Correct(s[j])) => i <= Len(s) /\ k[i] = s[i]

LineInv ==
  /\ IsList(sent) /\ IsList(taken) /\ IsList(aired)
  /\ IsTransmissions(traffic)
  /\ Carries(sent, aired)
  /\ ~torn => Matched(taken, sent)
  /\ InStep => Len(taken) <= Len(sent) /\ Cut(up, Len(taken), sent)

LEMMA LineArrives == ASSUME LineInv PROVE PacketsArrive
<1> SUFFICES ASSUME NEW i \in 1..Len(taken), ~torn,
                    \A j \in 1..Len(sent) : j <= i => Correct(sent[j])
             PROVE  /\ i <= Len(sent) /\ taken[i] = sent[i]
                    /\ taken[i].type = Receive =>
                         /\ Nth(sent, i) <= Len(aired)
                         /\ From_frame(taken[i].data) = Arrived(aired[Nth(sent, i)])
  BY DEF PacketsArrive, Nth, Receives
<1> DEFINE k == Nth(sent, i)
<1>1. i <= Len(sent) /\ taken[i] = sent[i]
  BY Zenon DEF LineInv, Matched
<1>2. Len(sent) \in Nat /\ Len(taken) \in Nat /\ Len(aired) \in Nat
  BY LenProperties, Zenon DEF LineInv, IsList
<1>3. i \in 1..Len(sent)
  BY <1>1, <1>2
<1>4. ASSUME taken[i].type = Receive
      PROVE /\ Nth(sent, i) <= Len(aired)
            /\ From_frame(taken[i].data) = Arrived(aired[Nth(sent, i)])
  <2>1. k \in 1..Len(aired) /\ aired[k] \in Packets /\ taken[i].data = To_frame(aired[k])
    BY <1>1, <1>3, <1>4, Zenon DEF LineInv, Carries, Passing
  <2> HIDE DEF k
  <2>2. k <= Len(aired)
    BY <1>2, <2>1
  <2>3. From_frame(To_frame(aired[k])) = Arrived(aired[k])
    BY <2>1, Packets_Cross, Zenon
  <2> QED BY <2>1, <2>2, <2>3, Zenon DEF k
<1> QED BY <1>1, <1>4

\* A frame and its packet are sent: what was taken was taken.
LEMMA CarriesMore ==
  ASSUME NEW s, NEW a, Carries(s, a), NEW t, NEW f, Grown(t, s, f), NEW c, NEW p,
         \E S : IsFrame(f, S),
         \/ f.type # Receive /\ c = a
         \/ f.type = Receive /\ Grown(c, a, p) /\ p \in Passing /\ f.data = To_frame(p)
  PROVE  Carries(t, c)
<1> DEFINE m == Len(s)
           l == Len(a)
<1>1. m \in Nat /\ Len(t) = m + 1 /\ t[m + 1] = f /\ \A i \in 1..m : t[i] = s[i]
  BY Zenon DEF Grown
<1>2. /\ \A i \in 0..m : Nth(t, i) = Nth(s, i) /\ Nth(s, i) \in Nat
      /\ f.type = Receive => Nth(t, m + 1) = Nth(s, m) + 1
      /\ f.type # Receive => Nth(t, m + 1) = Nth(s, m)
  BY NthStays, Zenon
<1>3. /\ l = Nth(s, m)
      /\ \A i \in 1..m :
           /\ \E S : IsFrame(s[i], S)
           /\ s[i].type = Receive =>
                /\ Nth(s, i) \in 1..l
                /\ a[Nth(s, i)] \in Passing /\ s[i].data = To_frame(a[Nth(s, i)])
  BY Zenon DEF Carries
<1> HIDE DEF m, l
<1>4. m \in 0..m /\ \A i \in 1..m : i \in 0..m
  BY <1>1
<1>5. l \in Nat
  BY <1>2, <1>3, <1>4, Zenon
<1>6. /\ Len(c) = Nth(t, m + 1)
      /\ \A k \in 1..l : c[k] = a[k] /\ k \in 1..Len(c)
  <2>1. CASE f.type # Receive /\ c = a
    <3>1. \A k \in 1..l : c[k] = a[k] /\ k \in 1..Len(c)
      BY <2>1, Zenon DEF l
    <3> QED BY <1>2, <1>3, <2>1, <3>1, Zenon DEF l
  <2>2. CASE f.type = Receive /\ Grown(c, a, p)
    <3>1. Len(c) = l + 1 /\ \A k \in 1..l : c[k] = a[k]
      BY <2>2, Zenon DEF Grown, l
    <3>2. \A k \in 1..l : k \in 1..(l + 1)
      BY <1>5
    <3>3. Nth(t, m + 1) = l + 1
      BY <1>2, <1>3, <2>2, Zenon
    <3> QED BY <3>1, <3>2, <3>3, Zenon
  <2> QED BY <2>1, <2>2
<1>7. ASSUME NEW i \in 1..(m + 1)
      PROVE /\ \E S : IsFrame(t[i], S)
            /\ t[i].type = Receive =>
                 /\ Nth(t, i) \in 1..Len(c)
                 /\ c[Nth(t, i)] \in Passing /\ t[i].data = To_frame(c[Nth(t, i)])
  <2>1. CASE i \in 1..m
    <3>1. t[i] = s[i] /\ Nth(t, i) = Nth(s, i)
      BY <1>1, <1>2, <1>4, <2>1, Zenon
    <3> QED BY <1>3, <1>6, <2>1, <3>1, Zenon
  <2>2. CASE i = m + 1
    <3>1. t[i] = f
      BY <1>1, <2>2, Zenon
    <3>2. ASSUME f.type = Receive
          PROVE /\ Nth(t, i) \in 1..Len(c)
                /\ c[Nth(t, i)] \in Passing /\ t[i].data = To_frame(c[Nth(t, i)])
      <4>1. Grown(c, a, p) /\ p \in Passing /\ f.data = To_frame(p)
        BY <3>2, Zenon
      <4>2. Nth(t, i) = l + 1 /\ Len(c) = l + 1 /\ c[l + 1] = p
        BY <1>2, <1>3, <2>2, <3>2, <4>1, Zenon DEF Grown, l
      <4>3. l + 1 \in 1..(l + 1)
        BY <1>5
      <4> QED BY <3>1, <4>1, <4>2, <4>3, Zenon
    <3> QED BY <3>1, <3>2, Zenon
  <2>3. i \in 1..m \/ i = m + 1
    BY <1>1
  <2> QED BY <2>1, <2>2, <2>3
<1> QED BY <1>1, <1>6, <1>7, Zenon DEF Carries

-----------------------------------------------------------------------------
(* Steps of the line. *)

\* What the invariant speaks of.
line == <<torn, sent, taken, aired, traffic, up>>

LEMMA LineStutter == ASSUME LineInv, UNCHANGED line PROVE LineInv'
<1>1. /\ torn' = torn /\ sent' = sent /\ taken' = taken /\ aired' = aired
      /\ traffic' = traffic /\ up' = up
  BY Zenon DEF line
<1>2. /\ IsList(sent') /\ IsList(taken') /\ IsList(aired')
      /\ IsTransmissions(traffic') /\ Carries(sent', aired')
  BY <1>1, Zenon DEF LineInv
<1>3. ASSUME ~torn' PROVE Matched(taken', sent')
  BY <1>1, <1>3, Zenon DEF LineInv
<1>4. ASSUME InStep' PROVE Len(taken') <= Len(sent') /\ Cut(up', Len(taken'), sent')
  <2>1. InStep
    BY <1>1, <1>4, Zenon DEF InStep
  <2> QED BY <1>1, <2>1, Zenon DEF LineInv
<1> QED BY <1>2, <1>3, <1>4, Zenon DEF LineInv

LEMMA WrittenRight ==
  ASSUME NEW S, NEW f, IsFrame(f, S), Correct(f) PROVE Written(f) = Serialize(f)
<1> DEFINE b == Serialize(f)
           h == Len(f.header)
           d == Len(f.data)
           size == Len(b) - 3
<1>1. h \in Nat /\ d \in Nat
  BY LenProperties, Zenon DEF IsFrame
<1>2. <<>> \in Seq(S)
  BY EmptySeq, Zenon
<1>3. Len(b) = h + d + 5
  BY <1>2, FrameRead, Zenon
<1>4. CASE f.type = Receive
  <2>1. (h + d + 2) % 256 # 0
    BY <1>4, Zenon DEF Correct
  <2> HIDE DEF h, d, b
  <2>2. size = h + d + 2
    BY <1>1, <1>3
  <2> HIDE DEF size
  <2>3. ~(size % 256 = 0)
    BY <2>1, <2>2, Zenon
  <2> QED BY <1>4, <2>3, Zenon DEF Written, Forwarded, b, size
<1>5. CASE f.type # Receive
  BY <1>5, Zenon DEF Written
<1> QED BY <1>4, <1>5

LEMMA WrittenList ==
  ASSUME NEW S, NEW f, IsFrame(f, S) PROVE IsList(Written(f))
<1> DEFINE b == Serialize(f)
           x == (Len(b) - 3) \div 256
           start == <<126, x, 0>>
           tail == SubSeq(b, 4, Len(b))
<1>1. IsList(b)
  BY SerializedList, Zenon DEF IsFrame
<1> HIDE DEF b
<1> PICK W : b \in Seq(W)
  BY <1>1, Zenon DEF IsList
<1> DEFINE T == W \cup {126, 0, x}
<1>2. tail \in Seq(W)
  <2>1. Len(b) \in Nat /\ \A k \in 1..Len(b) : b[k] \in W
    BY LenProperties, ElementOfSeq
  <2>2. \A k \in 4..Len(b) : b[k] \in W
    BY <2>1
  <2> QED BY <2>1, <2>2, SubSeqProperties
<1> HIDE DEF x, tail
<1>3. start \in Seq(T) /\ W \subseteq T
  OBVIOUS
<1> HIDE DEF T, start
<1>4. tail \in Seq(T)
  BY <1>2, <1>3, SeqMonotonic, Zenon
<1>5. start \o tail \in Seq(T)
  BY <1>3, <1>4, ConcatProperties, Zenon
<1>6. Written(f) = b \/ Written(f) = start \o tail
  BY Zenon DEF Written, Forwarded, b, start, x, tail
<1> QED BY <1>1, <1>5, <1>6, Zenon DEF IsList

\* The reader takes a frame.
LEMMA LineTakes ==
  ASSUME LineInv, Complete(up), NEW f, f = Unserialize(up), Take(f),
         UNCHANGED <<torn, sent, aired, traffic>>
  PROVE  LineInv'
<1> DEFINE n == Len(taken)
           m == Len(sent)
<1>1. Grown(taken', taken, f)
  BY Grows, Zenon DEF LineInv, Take
<1>2. /\ IsList(taken') /\ n \in Nat /\ Len(taken') = n + 1
      /\ taken'[n + 1] = f /\ \A i \in 1..n : taken'[i] = taken[i]
  BY <1>1, Zenon DEF Grown
<1>3. m \in Nat
  BY LenProperties, Zenon DEF LineInv, IsList
<1>4. ASSUME ~torn, \A j \in 1..m : j <= n + 1 => Correct(sent[j])
      PROVE  n + 1 <= m /\ f = sent[n + 1] /\ Cut(up', n + 1, sent)
  <2>1. InStep
    <3> HIDE DEF n, m
    <3>1. \A j \in 1..m : j <= n => j <= n + 1
      BY <1>2, <1>3
    <3> QED BY <1>4, <3>1, Zenon DEF InStep, n, m
  <2>2. n <= m /\ Cut(up, n, sent)
    BY <2>1, Zenon DEF LineInv
  <2>3. n # m
    <3> SUFFICES ASSUME n = m PROVE FALSE
      OBVIOUS
    <3>1. up = <<>>
      BY <2>2, Zenon DEF Cut, CutAt
    <3>2. Len(<<>>) = 0
      OBVIOUS
    <3>3. Len(up) >= 4
      BY Zenon DEF Complete
    <3>4. Len(up) = 0
      BY <3>1, <3>2, Zenon
    <3> HIDE DEF n, m
    <3> QED BY <3>3, <3>4
  <2>4. n < m /\ n + 1 \in 1..m /\ n + 1 <= n + 1 /\ n + 1 <= m
    <3> HIDE DEF n, m
    <3> QED BY <1>2, <1>3, <2>2, <2>3
  <2>5. Correct(sent[n + 1])
    BY <1>4, <2>4, Zenon
  <2>6. PICK S : IsFrame(sent[n + 1], S)
    BY <2>4, Zenon DEF LineInv, Carries
  <2>7. Written(sent[n + 1]) = Serialize(sent[n + 1])
    BY <2>5, <2>6, WrittenRight, Zenon
  <2>8. /\ Unserialize(up) = sent[n + 1]
        /\ Cut(SubSeq(up, FrameSize(up) + 1, Len(up)), n + 1, sent)
    BY <1>2, <1>3, <2>2, <2>4, <2>6, <2>7, CutTaken, Zenon
  <2> QED BY <2>4, <2>8, Zenon DEF Take
<1>5. ~torn => Matched(taken', sent)
  <2> SUFFICES ASSUME ~torn, NEW i \in 1..(n + 1),
                      \A j \in 1..m : j <= i => Correct(sent[j])
               PROVE  i <= m /\ taken'[i] = sent[i]
    BY <1>2, Zenon DEF Matched
  <2> HIDE DEF n, m
  <2>1. CASE i \in 1..n
    BY <1>2, <2>1, Zenon DEF LineInv, Matched, n, m
  <2>2. CASE i = n + 1
    BY <1>2, <1>4, <2>2, Zenon
  <2> QED BY <1>2, <2>1, <2>2
<1>6. InStep' => Len(taken') <= m /\ Cut(up', Len(taken'), sent)
  BY <1>2, <1>4, Zenon DEF InStep
<1>7. UNCHANGED <<torn, sent, aired, traffic>>
  OBVIOUS
<1> HIDE DEF n, m
<1>8. /\ IsList(sent') /\ IsList(aired') /\ IsTransmissions(traffic')
      /\ Carries(sent', aired')
  BY <1>7, Zenon DEF LineInv
<1>9. ASSUME ~torn' PROVE Matched(taken', sent')
  <2>1. torn' = torn /\ sent' = sent
    BY <1>7, Zenon
  <2>2. ~torn
    BY <1>9, <2>1
  <2>3. Matched(taken', sent)
    BY <1>5, <2>2, Zenon
  <2> QED BY <2>1, <2>3, Zenon
<1>10. InStep' => Len(taken') <= Len(sent') /\ Cut(up', Len(taken'), sent')
  BY <1>6, <1>7, Zenon DEF m
<1> QED BY <1>2, <1>8, <1>9, <1>10, Zenon DEF LineInv

\* The radio writes a frame.
LEMMA LineReplies ==
  ASSUME LineInv, NEW f, Reply(Written(f), f), NEW p, \E S : IsFrame(f, S),
         \/ f.type # Receive /\ aired' = aired
         \/ /\ f.type = Receive /\ aired' = Append(aired, p)
            /\ p \in Passing /\ f.data = To_frame(p),
         IsTransmissions(traffic'), UNCHANGED <<torn, taken>>
  PROVE  LineInv'
<1> DEFINE n == Len(taken)
           m == Len(sent)
<1>1. Grown(sent', sent, f)
  BY Grows, Zenon DEF LineInv, Reply
<1>2. /\ IsList(sent') /\ m \in Nat /\ Len(sent') = m + 1
      /\ sent'[m + 1] = f /\ \A i \in 1..m : sent'[i] = sent[i]
  BY <1>1, Zenon DEF Grown
<1>3. n \in Nat
  BY LenProperties, Zenon DEF LineInv, IsList
<1>4. Carries(sent', aired') /\ IsList(aired')
  <2>1. CASE f.type # Receive /\ aired' = aired
    <3>1. Carries(sent, aired)
      BY Zenon DEF LineInv
    <3>2. Carries(sent', aired')
      BY <1>1, <2>1, <3>1, CarriesMore, Zenon
    <3> QED BY <2>1, <3>2, Zenon DEF LineInv
  <2>2. CASE /\ f.type = Receive /\ aired' = Append(aired, p)
             /\ p \in Passing /\ f.data = To_frame(p)
    <3>1. Carries(sent, aired) /\ Grown(aired', aired, p)
      BY <2>2, Grows, Zenon DEF LineInv
    <3>2. Carries(sent', aired')
      BY <1>1, <2>2, <3>1, CarriesMore, Zenon
    <3> QED BY <3>1, <3>2, Zenon DEF Grown
  <2> QED BY <2>1, <2>2
<1>5. \A j \in 1..m : j \in 1..(m + 1)
  BY <1>2
<1>6. ~torn => Matched(taken, sent')
  <2> SUFFICES ASSUME ~torn, NEW i \in 1..n,
                      \A j \in 1..(m + 1) : j <= i => Correct(sent'[j])
               PROVE  i <= m + 1 /\ taken[i] = sent'[i]
    BY <1>2, Zenon DEF Matched
  <2>1. \A j \in 1..m : j <= i => Correct(sent[j])
    BY <1>2, <1>5, Zenon
  <2>2. i <= m /\ taken[i] = sent[i]
    BY <2>1, Zenon DEF LineInv, Matched
  <2> HIDE DEF n, m
  <2>3. i \in 1..m /\ i <= m + 1
    BY <1>2, <1>3, <2>2
  <2> QED BY <1>2, <2>2, <2>3, Zenon
<1>7. InStep' => n <= m + 1 /\ Cut(up', n, sent')
  <2> SUFFICES ASSUME InStep' PROVE n <= m + 1 /\ Cut(up', n, sent')
    OBVIOUS
  <2>1. /\ ~torn' /\ taken' = taken
        /\ \A j \in 1..Len(sent') : j <= Len(taken') => Correct(sent'[j])
    BY Zenon DEF InStep
  <2>2. /\ ~torn /\ torn' = torn
        /\ \A j \in 1..m : j <= n => Correct(sent[j])
    BY <1>2, <1>5, <2>1, Zenon
  <2>3. n <= m /\ Cut(up, n, sent)
    BY <2>2, Zenon DEF LineInv, InStep
  <2>4. IsList(Written(f))
    BY WrittenList, Zenon
  <2>5. Cut(up \o Written(f), n, sent')
    BY <1>1, <1>3, <2>3, <2>4, CutGrows, Zenon
  <2>6. Cut(up', n, sent')
    BY <2>5, Zenon DEF Reply
  <2> HIDE DEF n, m
  <2> QED BY <1>2, <1>3, <2>3, <2>6
<1>8. torn' = torn /\ taken' = taken /\ IsList(taken) /\ IsTransmissions(traffic')
  BY Zenon DEF LineInv
<1> HIDE DEF m
<1>9. InStep' => Len(taken') <= Len(sent') /\ Cut(up', Len(taken'), sent')
  BY <1>2, <1>7, <1>8, Zenon
<1>10. ASSUME ~torn' PROVE Matched(taken', sent')
  <2>1. ~torn
    <3>1. torn' = torn
      BY <1>8, Zenon
    <3> QED BY <1>10, <3>1
  <2>2. Matched(taken, sent')
    BY <1>6, <2>1, Zenon
  <2> QED BY <1>8, <2>2, Zenon
<1>11. IsList(taken')
  BY <1>8, Zenon
<1> QED BY <1>2, <1>4, <1>8, <1>9, <1>10, <1>11, Zenon DEF LineInv

\* SubSeq takes two elements, whatever they are.
LEMMA TwoTaken ==
  ASSUME NEW h PROVE SubSeq(h, 2, 3) \in Seq({h[2], h[3]}) /\ Len(SubSeq(h, 2, 3)) = 2
<1>1. \A k \in 2..3 : h[k] \in {h[2], h[3]}
  OBVIOUS
<1> QED BY <1>1, SubSeqProperties

\* What the radio answers is a frame that fits.
LEMMA ReplyFrame ==
  ASSUME NEW f
  PROVE  /\ ReplyTo(f).type \in {ModemStatus, CommandResponse}
         /\ IsFrame(ReplyTo(f), Byte \cup {f.header[2], f.header[3]})
<1> DEFINE letters == SubSeq(f.header, 2, 3)
           one == <<1>>
           zero == <<0>>
           front == one \o letters
           header == front \o zero
           S == Byte \cup {f.header[2], f.header[3]}
           response(data) == [type |-> CommandResponse, header |-> header, data |-> data]
           modem == [type |-> ModemStatus, header |-> zero, data |-> <<>>]
<1> SUFFICES ReplyTo(f).type \in {ModemStatus, CommandResponse} /\ IsFrame(ReplyTo(f), S)
  OBVIOUS
<1>1. letters \in Seq(S) /\ Len(letters) = 2
  <2> DEFINE T == {f.header[2], f.header[3]}
  <2>1. T \subseteq S
    OBVIOUS
  <2>2. letters \in Seq(T) /\ Len(letters) = 2
    BY TwoTaken, Zenon
  <2> HIDE DEF letters, T, S
  <2> QED BY <2>1, <2>2, SeqMonotonic, Zenon
<1>2. /\ one \in Seq(S) /\ zero \in Seq(S) /\ <<>> \in Seq(S)
      /\ Len(one) = 1 /\ Len(zero) = 1 /\ Len(<<>>) = 0 /\ Byte \subseteq S
  BY DEF Byte
<1> HIDE DEF letters, one, zero, S
<1>3. front \in Seq(S) /\ TwoParts(front, one, letters)
  BY <1>1, <1>2, Concatenated, Zenon
<1> HIDE DEF front
<1>4. header \in Seq(S) /\ TwoParts(header, front, zero)
  BY <1>2, <1>3, Concatenated, Zenon
<1> HIDE DEF header
<1>5. Len(header) = 4
  <2>1. Len(front) = Len(one) + Len(letters) /\ Len(header) = Len(front) + Len(zero)
    BY <1>3, <1>4, Zenon DEF TwoParts
  <2> QED BY <1>1, <1>2, <2>1
<1>6. /\ Width(CommandResponse) = 4 /\ Width(ModemStatus) = 1
      /\ CommandResponse \in {ModemStatus, CommandResponse}
      /\ ModemStatus \in {ModemStatus, CommandResponse}
      /\ CommandResponse \in WithData
  BY DEF Width, WithData, CommandResponse, ModemStatus, Command, CommandQueue, Receive,
         RemoteCommand, RemoteCommandResponse, Transmit, ExplicitTransmit, Status,
         ExplicitReceive
<1>7. ASSUME NEW d \in Seq(Byte), Len(d) + 5 < LengthLimit
      PROVE  IsFrame(response(d), S)
  <2> DEFINE r == response(d)
  <2>1. /\ r = [type |-> r.type, header |-> r.header, data |-> r.data]
        /\ r.type = CommandResponse /\ r.header = header /\ r.data = d
    OBVIOUS
  <2> HIDE DEF r
  <2>2. d \in Seq(S)
    BY <1>2, <1>7, SeqMonotonic, Zenon
  <2>3. Len(d) \in Nat
    BY LenProperties, Zenon
  <2>4. Len(header) + Len(d) + 1 = Len(d) + 5
    BY <1>5, <2>3
  <2>5. Fitting(r)
    BY <1>7, <2>1, <2>4, Zenon DEF Fitting
  <2>6. IsFrame(r, S)
    BY <1>4, <1>5, <1>6, <2>1, <2>2, <2>5, Zenon DEF IsFrame
  <2> QED BY <2>6, Zenon DEF r
<1>8. \A cmd \in Gets : Answers[cmd] \in Seq(Byte) /\ Len(Answers[cmd]) + 5 < LengthLimit
  <2>1. Answers \in [Gets -> Seq(Byte)]
    BY SerialAssumption, Zenon DEF Byte
  <2> QED BY <2>1, SerialAssumption, Zenon
<1>9. <<>> \in Seq(Byte) /\ Len(<<>>) + 5 < LengthLimit
  BY DEF LengthLimit
<1>10. CASE ReplyTo(f) = modem
  <2> DEFINE r == modem
  <2>1. /\ r = [type |-> r.type, header |-> r.header, data |-> r.data]
        /\ r.type = ModemStatus /\ r.header = zero /\ r.data = <<>>
    OBVIOUS
  <2> HIDE DEF r
  <2>2. Len(zero) + Len(<<>>) + 1 < LengthLimit
    BY <1>2 DEF LengthLimit
  <2>3. IsFrame(r, S)
    BY <1>2, <1>6, <2>1, <2>2, Zenon DEF IsFrame, Fitting
  <2> QED BY <1>6, <1>10, <2>1, <2>3, Zenon DEF r
<1>11. CASE \E cmd \in Gets : ReplyTo(f) = response(Answers[cmd])
  <2> PICK cmd \in Gets : ReplyTo(f) = response(Answers[cmd])
    BY <1>11
  <2> DEFINE r == response(Answers[cmd])
  <2>1. IsFrame(r, S)
    BY <1>7, <1>8, Zenon
  <2>2. r.type = CommandResponse
    OBVIOUS
  <2> QED BY <1>6, <2>1, <2>2, Zenon
<1>12. CASE ReplyTo(f) = response(<<>>)
  <2> DEFINE r == response(<<>>)
  <2>1. IsFrame(r, S)
    BY <1>7, <1>9, Zenon
  <2>2. r.type = CommandResponse
    OBVIOUS
  <2> QED BY <1>6, <1>12, <2>1, <2>2, Zenon
<1>13. \/ ReplyTo(f) = modem
       \/ \E cmd \in Gets : ReplyTo(f) = response(Answers[cmd])
       \/ ReplyTo(f) = response(<<>>)
  <2>1. CASE letters = Letters.FR
    BY <2>1, Zenon DEF ReplyTo, letters, zero
  <2>2. CASE letters # Letters.FR /\ \E cmd \in Gets : letters = Letters[cmd]
    BY <2>2, Zenon DEF ReplyTo, letters, zero, one, front, header
  <2>3. CASE letters # Letters.FR /\ ~\E cmd \in Gets : letters = Letters[cmd]
    BY <2>3, Zenon DEF ReplyTo, letters, zero, one, front, header
  <2> QED BY <2>1, <2>2, <2>3
<1> QED BY <1>10, <1>11, <1>12, <1>13

LEMMA LineListens == ASSUME LineInv, Listen PROVE LineInv'
<1>1. UNCHANGED <<torn, traffic, taken, aired>>
  BY Zenon DEF Listen
<1>2. CASE UNCHANGED <<up, sent>>
  <2>1. UNCHANGED line
    BY <1>1, <1>2, Zenon DEF line
  <2> QED BY <2>1, LineStutter, Zenon
<1>3. CASE \E f : Reply(Serialize(ReplyTo(f)), ReplyTo(f))
  <2> PICK f : Reply(Serialize(ReplyTo(f)), ReplyTo(f))
    BY <1>3, Zenon
  <2> DEFINE r == ReplyTo(f)
  <2>1. r.type # Receive /\ \E S : IsFrame(r, S)
    <3>1. CommandResponse # Receive /\ ModemStatus # Receive
      BY DEF CommandResponse, ModemStatus, Receive
    <3> QED BY <3>1, ReplyFrame, Zenon
  <2>2. Written(r) = Serialize(r)
    BY <2>1, Zenon DEF Written
  <2>3. Reply(Written(r), r)
    BY <2>2, Zenon
  <2>4. IsTransmissions(traffic') /\ aired' = aired /\ UNCHANGED <<torn, taken>>
    BY <1>1, Zenon DEF LineInv
  <2> HIDE DEF r
  <2> QED BY <2>1, <2>3, <2>4, LineReplies, Zenon
<1>4. UNCHANGED <<up, sent>> \/ \E f : Reply(Serialize(ReplyTo(f)), ReplyTo(f))
  BY Zenon DEF Listen
<1> QED BY <1>2, <1>3, <1>4

\* A Receive frame with a packet that fits is a frame that fits.
LEMMA ReceiveFits ==
  ASSUME NEW id \in Byte, NEW mac \in Peers, NEW data \in Seq(Byte), Fits(Len(data))
  PROVE  /\ IsFrame(ReceiveFrame(id, mac, data), Byte)
         /\ ReceiveFrame(id, mac, data).type = Receive
         /\ ReceiveFrame(id, mac, data).data = data
<1> DEFINE part == SubSeq(mac, 2, 8)
           first == <<id>>
           last == <<255, 254, 0>>
           front == first \o part
           header == front \o last
           r == ReceiveFrame(id, mac, data)
<1>1. part \in Seq(Byte) /\ Len(part) = 7
  <2>1. mac \in [1..8 -> Byte]
    BY SerialAssumption, Zenon DEF Byte
  <2>2. \A k \in 2..8 : mac[k] \in Byte
    BY <2>1
  <2> QED BY <2>2, SubSeqProperties
<1>2. first \in Seq(Byte) /\ last \in Seq(Byte) /\ Len(first) = 1 /\ Len(last) = 3
  BY DEF Byte
<1>3. r = [type |-> Receive, header |-> header, data |-> data]
  BY Zenon DEF ReceiveFrame
<1> HIDE DEF part, first, last
<1>4. front \in Seq(Byte) /\ TwoParts(front, first, part)
  BY <1>1, <1>2, Concatenated, Zenon
<1> HIDE DEF front
<1>5. header \in Seq(Byte) /\ TwoParts(header, front, last)
  BY <1>2, <1>4, Concatenated, Zenon
<1> HIDE DEF header
<1>6. Len(header) = 11
  <2>1. Len(front) = Len(first) + Len(part) /\ Len(header) = Len(front) + Len(last)
    BY <1>4, <1>5, Zenon DEF TwoParts
  <2> QED BY <1>1, <1>2, <2>1
<1>7. Width(Receive) = 11 /\ Receive \in WithData
  BY DEF Width, WithData, CommandResponse, ModemStatus, Command, CommandQueue, Receive,
         RemoteCommand, RemoteCommandResponse, Transmit, ExplicitTransmit, Status,
         ExplicitReceive
<1> HIDE DEF r
<1>8. /\ r = [type |-> r.type, header |-> r.header, data |-> r.data]
      /\ r.type = Receive /\ r.header = header /\ r.data = data
  BY <1>3
<1>9. Len(header) + Len(data) + 1 < LengthLimit
  BY <1>6, LenProperties DEF Fits, LengthLimit
<1>10. IsFrame(r, Byte)
  BY <1>5, <1>6, <1>7, <1>8, <1>9, Zenon DEF IsFrame, Fitting
<1> QED BY <1>8, <1>10, Zenon DEF r

LEMMA LineForwards == ASSUME LineInv, Forward PROVE LineInv'
<1> DEFINE t == Head(traffic)
           f == ReceiveFrame(t[1], t[2], To_frame(t[3]))
           S == Byte \X Peers \X Passing
<1>1. /\ traffic # <<>> /\ traffic' = Tail(traffic) /\ Reply(Forwarded(f), f)
      /\ aired' = Append(aired, t[3]) /\ UNCHANGED <<torn, taken>>
  BY Zenon DEF Forward
<1>2. traffic \in Seq(S) /\ \A i \in 1..Len(traffic) : To_frame(traffic[i][3]) \in Seq(Byte)
  BY Zenon DEF LineInv, IsTransmissions
<1> HIDE DEF S
<1>3. /\ t \in S /\ t = traffic[1] /\ 1 \in 1..Len(traffic)
      /\ Tail(traffic) \in Seq(S) /\ Len(Tail(traffic)) = Len(traffic) - 1
      /\ Len(traffic) \in Nat
      /\ \A i \in 1..Len(Tail(traffic)) : Tail(traffic)[i] = traffic[i + 1]
  BY <1>1, <1>2
<1>4. t[1] \in Byte /\ t[2] \in Peers /\ t[3] \in Passing /\ To_frame(t[3]) \in Seq(Byte)
  <2>1. t[1] \in Byte /\ t[2] \in Peers /\ t[3] \in Passing
    BY <1>3 DEF S
  <2>2. To_frame(t[3]) \in Seq(Byte)
    BY <1>2, <1>3, Zenon
  <2> QED BY <2>1, <2>2, Zenon
<1>5. IsTransmissions(traffic')
  <2>1. ASSUME NEW i \in 1..Len(Tail(traffic))
        PROVE  To_frame(Tail(traffic)[i][3]) \in Seq(Byte)
    <3>1. i + 1 \in 1..Len(traffic)
      BY <1>3
    <3>2. Tail(traffic)[i] = traffic[i + 1]
      BY <1>3, Zenon
    <3> QED BY <1>2, <3>1, <3>2, Zenon
  <2>2. IsTransmissions(Tail(traffic))
    BY <1>3, <2>1, Zenon DEF IsTransmissions, S
  <2> QED BY <1>1, <2>2, Zenon
<1>6. Fits(Len(To_frame(t[3])))
  BY <1>4, Packets_Cross, Zenon DEF Passing
<1> HIDE DEF t
<1>7. IsFrame(f, Byte) /\ f.type = Receive /\ f.data = To_frame(t[3])
  BY <1>4, <1>6, ReceiveFits, Zenon
<1> HIDE DEF f
<1>8. Reply(Written(f), f)
  BY <1>1, <1>7, Zenon DEF Written
<1> QED BY <1>1, <1>4, <1>5, <1>7, <1>8, LineReplies, Zenon

LEMMA LineInit == ASSUME Init PROVE LineInv
<1> PICK s \in Scenarios : SerialInit(s.traffic)
  BY Zenon DEF Init
<1>1. /\ sent = <<>> /\ taken = <<>> /\ aired = <<>> /\ traffic = s.traffic
      /\ torn = (up # <<>>)
  BY Zenon DEF SerialInit
<1>2. IsTransmissions(traffic)
  BY <1>1, GatewayAssumption, Zenon
<1>3. IsList(<<>>)
  <2>1. <<>> \in Seq({})
    OBVIOUS
  <2> QED BY <2>1, Zenon DEF IsList
<1>4. Len(<<>>) = 0 /\ 0 <= 0 /\ 0 \in Nat
  OBVIOUS
<1>5. \A i \in 1..0 : FALSE
  OBVIOUS
<1>6. Carries(<<>>, <<>>)
  <2>1. Receives(<<>>, 0) = {}
    BY DEF Receives
  <2>2. Nth(<<>>, 0) = 0
    BY <2>1, FS_EmptySet, Zenon DEF Nth
  <2> QED BY <1>4, <1>5, <2>2, Zenon DEF Carries
<1>7. Matched(<<>>, <<>>)
  BY <1>4, <1>5, Zenon DEF Matched
<1>8. ASSUME InStep PROVE Cut(up, 0, <<>>)
  <2>1. up = <<>>
    <3>1. ~torn
      BY <1>8, Zenon DEF InStep
    <3> QED BY <1>1, <3>1
  <2> DEFINE rest == [i \in 0..0 |-> <<>>]
  <2>2. /\ rest \in [0..0 -> Seq({})] /\ rest[0] = <<>>
        /\ \A i \in (0 + 1)..0 : FALSE
    OBVIOUS
  <2> HIDE DEF rest
  <2>3. CutAt(<<>>, 0, <<>>, {}, rest)
    BY <1>4, <2>2, Zenon DEF CutAt
  <2> QED BY <2>1, <2>3, Zenon DEF Cut
<1> QED BY <1>1, <1>2, <1>3, <1>4, <1>6, <1>7, <1>8, Zenon DEF LineInv

LEMMA LineNext == ASSUME LineInv, [Next]_vars PROVE LineInv'
<1>1. CASE Get \/ Process
  <2> PICK f : f = Unserialize(up) /\ Take(f) /\ Complete(up)
    BY <1>1, Zenon DEF Get, Process
  <2>1. UNCHANGED <<torn, sent, aired, traffic>>
    BY <1>1, Zenon DEF Get, Process, radio
  <2> QED BY <2>1, LineTakes, Zenon
<1>2. CASE Listen
  BY <1>2, LineListens, Zenon
<1>3. CASE Forward
  BY <1>3, LineForwards, Zenon
<1>4. CASE \/ Ask \/ Send \/ Beacon \/ UNCHANGED serial
  <2>1. UNCHANGED line
    BY <1>4, Zenon DEF Ask, Send, Beacon, radio, serial, line
  <2> QED BY <2>1, LineStutter, Zenon
<1>5. \/ Get \/ Process \/ Listen \/ Forward
      \/ Ask \/ Send \/ Beacon \/ UNCHANGED serial
  BY Zenon DEF Next, Line, Redis, StartRouter, Deliver, PublishOwn, StartApp, Echo, StopApp, vars
<1> QED BY <1>1, <1>2, <1>3, <1>4, <1>5

\* Every frame the router takes is one that the radio has sent, in the order in which it has
\* sent them, and every packet in them is one that another router has sent: in every
\* behaviour, up to the first frame with a wrong length, for any answers, traffic and
\* threads (xbee.cpp:127-171, radio.h:397-543, node.rb:123-148).
THEOREM Packets_Arrive == Spec => []PacketsArrive
<1>1. LineInv => PacketsArrive
  BY LineArrives, Zenon
<1> QED BY LineInit, LineNext, <1>1, PTL DEF Spec

=============================================================================
