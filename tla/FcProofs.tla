------------------------------ MODULE FcProofs ------------------------------
(***************************************************************************)
(* Proofs about two parts of fc.  Streams: for any inputs, any sizes of    *)
(* the buffers and any blocks that datastream::write can tell the length   *)
(* of.  Holders: for any number of holders, any heap and any values.       *)
(***************************************************************************)
EXTENDS Streams, Holders, SequenceTheorems, TLAPS

-----------------------------------------------------------------------------
(***************************************************************************)
(* Bytes that are cut up.                                                  *)
(***************************************************************************)

\* The first n bytes and the others.
LEMMA TakeDrop ==
    ASSUME NEW s \in Seq(Nat), NEW n \in 0 .. Len(s)
    PROVE  /\ take(s, n) \in Seq(Nat) /\ drop(s, n) \in Seq(Nat)
           /\ Len(take(s, n)) = n /\ Len(drop(s, n)) = Len(s) - n
           /\ \A k \in 1 .. n : take(s, n)[k] = s[k]
           /\ take(s, n) \o drop(s, n) = s
<1>1. /\ take(s, n) \in Seq(Nat) /\ Len(take(s, n)) = n
      /\ \A k \in 1 .. n : take(s, n)[k] = s[k]
  BY DEF take
<1>2. drop(s, n) \in Seq(Nat) /\ Len(drop(s, n)) = Len(s) - n
  BY DEF drop
<1>3. SubSeq(s, 1, n) \o SubSeq(s, n + 1, Len(s)) = SubSeq(s, 1, Len(s))
  <2>1. Len(s) \in Nat
    BY LenProperties
  <2>2. 1 \in 1 .. Len(s) + 1 /\ n \in 1 - 1 .. Len(s) /\ Len(s) \in n .. Len(s)
    BY <2>1
  <2> QED
    BY <2>2, ConcatAdjacentSubSeq
<1>4. SubSeq(s, 1, Len(s)) = s
  BY SubSeqFull
<1> QED
  BY <1>1, <1>2, <1>3, <1>4 DEF take, drop

\* Where three pieces in a row are cut is of no matter.
LEMMA Recut ==
    ASSUME NEW a \in Seq(Nat), NEW b \in Seq(Nat), NEW c \in Seq(Nat)
    PROVE  (a \o b) \o c = a \o (b \o c)
  BY ConcatAssociative

LEMMA RecutLast ==
    \A b \in Seq(Nat) : \A c \in Seq(Nat) : \A a \in Seq(Nat) : (a \o b) \o c = a \o (b \o c)
  BY Recut

LEMMA Joined ==
    ASSUME NEW a \in Seq(Nat), NEW b \in Seq(Nat)
    PROVE  /\ a \o b \in Seq(Nat) /\ Len(a \o b) = Len(a) + Len(b)
           /\ \A k \in 1 .. Len(a) : (a \o b)[k] = a[k]
  BY ConcatProperties

\* The m bytes after the first n.
LEMMA Cut ==
    ASSUME NEW s \in Seq(Nat), NEW n \in Nat, NEW m \in Nat, n + m <= Len(s)
    PROVE  /\ SubSeq(s, n + 1, n + m) \in Seq(Nat) /\ Len(SubSeq(s, n + 1, n + m)) = m
           /\ \A k \in 1 .. m : SubSeq(s, n + 1, n + m)[k] = s[n + k]
  OBVIOUS

\* The empty piece.
LEMMA NoBytes ==
    ASSUME NEW a \in Seq(Nat)
    PROVE  <<>> \in Seq(Nat) /\ Len(<<>>) = 0 /\ a \o <<>> = a /\ <<>> \o a = a
  BY ConcatEmptySeq, EmptySeq

-----------------------------------------------------------------------------
(***************************************************************************)
(* The reader.                                                             *)
(***************************************************************************)

\* The variables of the streams, one by one.
LEMMA StreamTypes ==
    ASSUME StreamsTypeOK
    PROVE  /\ input \in Seq(Nat) /\ source \in Seq(Nat) /\ rdbuf \in Seq(Nat) /\ consumed \in Seq(Nat)
           /\ sink \in Seq(Nat) /\ wrbuf \in Seq(Nat) /\ output \in Seq(Nat)
           /\ reading.op \in {"idle", "read", "getline"} /\ reading.len \in Nat
           /\ reading.got \in Seq(Nat)
  BY DEF StreamsTypeOK

\* What a call of readsome that asks for len bytes has done.
Got(len) ==
    /\ rdbuf' \in Seq(Nat) /\ source' \in Seq(Nat)
    /\ \E t \in Seq(Nat) : /\ reading' = [reading EXCEPT !.got = @ \o t]
                        /\ Len(t) \in 1 .. len
                        /\ t \o (rdbuf' \o source') = rdbuf \o source

\* Whichever way the bytes come, through the buffer or not, they are the next ones.
LEMMA ReadsSome ==
    ASSUME StreamsTypeOK, NEW len \in Nat \ {0}, readsome(len)
    PROVE  Got(len)
<1>1. source \in Seq(Nat) /\ rdbuf \in Seq(Nat) /\ Len(source) \in Nat /\ Len(rdbuf) \in Nat
  BY StreamTypes, LenProperties
<1>2. CASE from_rdbuf(len)
  <2> DEFINE n == least(len, Len(rdbuf))
             t == take(rdbuf, n)
             r == drop(rdbuf, n)
  <2>1. rdbuf # <<>> /\ reading' = [reading EXCEPT !.got = @ \o t] /\ rdbuf' = r /\ source' = source
    BY <1>2 DEF from_rdbuf
  <2>2. Len(rdbuf) > 0
    BY <1>1, <2>1, EmptySeq
  <2>3. n \in 1 .. len /\ n \in 0 .. Len(rdbuf)
    BY <1>1, <2>2 DEF least
  <2> HIDE DEF n
  <2>4. t \in Seq(Nat) /\ r \in Seq(Nat) /\ Len(t) = n /\ t \o r = rdbuf
    BY <1>1, <2>3, TakeDrop
  <2> HIDE DEF t, r
  <2>5. t \o (r \o source) = rdbuf \o source
    <3>1. (t \o r) \o source = t \o (r \o source)
      BY <1>1, <2>4, RecutLast, Zenon
    <3> QED
      BY <2>4, <3>1
  <2> QED
    BY <1>1, <2>1, <2>3, <2>4, <2>5 DEF Got
<1>3. CASE directly(len)
  <2>1. PICK n \in some(len) : /\ reading' = [reading EXCEPT !.got = @ \o take(source, n)]
                               /\ source' = drop(source, n)
    BY <1>3 DEF directly
  <2>2. rdbuf = <<>> /\ rdbuf' = <<>>
    BY <1>3 DEF directly
  <2>3. n \in 1 .. len /\ n \in 0 .. Len(source)
    BY <1>1, <2>1 DEF some, least
  <2>4. /\ take(source, n) \in Seq(Nat) /\ source' \in Seq(Nat) /\ Len(take(source, n)) = n
        /\ take(source, n) \o source' = source
    BY <1>1, <2>1, <2>3, TakeDrop
  <2>5. /\ <<>> \in Seq(Nat) /\ <<>> \o source' = source' /\ <<>> \o source = source
    BY <1>1, <2>4, NoBytes
  <2> QED
    BY <2>1, <2>2, <2>3, <2>4, <2>5 DEF Got
<1>4. CASE through_tmp(len)
  <2>1. PICK n \in some(minimum_read_size) :
               /\ reading' = [reading EXCEPT !.got = @ \o take(source, least(n, len))]
               /\ rdbuf' = IF n > len THEN drop(take(source, n), len) ELSE rdbuf
               /\ source' = drop(source, n)
    BY <1>4 DEF through_tmp
  <2>2. rdbuf = <<>> /\ <<>> \o source = source /\ <<>> \in Seq(Nat)
    BY <1>1, <1>4, NoBytes DEF through_tmp
  <2>3. n \in Nat /\ n \in 1 .. Len(source) /\ n \in 0 .. Len(source)
    BY <1>1, <2>1, StreamsAssumption DEF some, least
  <2> DEFINE tmp == take(source, n)
  <2>4. tmp \in Seq(Nat) /\ Len(tmp) = n /\ source' \in Seq(Nat) /\ tmp \o source' = source
        /\ \A k \in 1 .. n : tmp[k] = source[k]
    BY <1>1, <2>1, <2>3, TakeDrop
  <2> HIDE DEF tmp
  <2>5. CASE n > len
    <3> DEFINE t == take(source, len)
               r == drop(tmp, len)
    <3>1. reading' = [reading EXCEPT !.got = @ \o t] /\ rdbuf' = r
      <4>1. least(n, len) = len
        BY <2>3, <2>5 DEF least
      <4> QED
        BY <2>1, <2>5, <4>1 DEF tmp
    <3>2. len \in 0 .. Len(tmp) /\ len \in 0 .. Len(source) /\ len \in 1 .. len
      BY <1>1, <2>3, <2>4, <2>5
    <3>3. /\ take(tmp, len) \in Seq(Nat) /\ r \in Seq(Nat) /\ take(tmp, len) \o r = tmp
          /\ Len(take(tmp, len)) = len /\ \A k \in 1 .. len : take(tmp, len)[k] = tmp[k]
      BY <2>4, <3>2, TakeDrop
    <3>4. t \in Seq(Nat) /\ Len(t) = len /\ \A k \in 1 .. len : t[k] = source[k]
      BY <1>1, <3>2, TakeDrop
    <3>5. take(tmp, len) = t
      <4>1. \A k \in 1 .. len : k \in 1 .. n
        BY <2>3, <2>5
      <4> QED
        BY <2>4, <3>3, <3>4, <4>1, SeqEqual
    <3> HIDE DEF t, r
    <3>6. t \o (r \o source') = source
      <4>1. \A x \in Seq(Nat) : (t \o r) \o x = t \o (r \o x)
        BY <3>3, <3>4, Recut
      <4> QED
        BY <2>4, <3>3, <3>5, <4>1, Zenon
    <3> QED
      BY <2>2, <2>4, <3>1, <3>2, <3>3, <3>4, <3>6 DEF Got
  <2>6. CASE ~(n > len)
    <3>1. least(n, len) = n /\ n \in 1 .. len
      BY <2>3, <2>6 DEF least
    <3>2. reading' = [reading EXCEPT !.got = @ \o tmp] /\ rdbuf' = <<>>
      BY <2>1, <2>2, <2>6, <3>1 DEF tmp
    <3>3. <<>> \o source' = source'
      BY <2>4, NoBytes
    <3> QED
      BY <2>2, <2>4, <3>1, <3>2, <3>3 DEF Got
  <2> QED
    BY <2>5, <2>6
<1> QED
  BY <1>2, <1>3, <1>4 DEF readsome

\* The bytes of the input are kept, and the types.
LEMMA ReadsOn ==
    ASSUME StreamsTypeOK, BytesKept, NEW len \in Nat \ {0}, readsome(len),
           UNCHANGED <<input, consumed, lines, sink, wrbuf, output, data>>
    PROVE  /\ StreamsTypeOK' /\ BytesKept'
           /\ reading'.op = reading.op /\ reading'.len = reading.len
           /\ \E t \in Seq(Nat) : Len(t) \in 1 .. len /\ reading'.got = reading.got \o t
<1>1. Got(len)
  BY ReadsSome
<1>2. PICK t \in Seq(Nat) : /\ reading' = [reading EXCEPT !.got = @ \o t]
                            /\ Len(t) \in 1 .. len
                            /\ t \o (rdbuf' \o source') = rdbuf \o source
  BY <1>1 DEF Got
<1>3. reading \in [op : {"idle", "read", "getline"}, len : Nat, got : Seq(Nat)]
  BY DEF StreamsTypeOK
<1>4. reading.got \o t \in Seq(Nat)
  BY <1>3, Joined
<1>5. /\ reading'.op = reading.op /\ reading'.len = reading.len
      /\ reading'.got = reading.got \o t
      /\ reading' \in [op : {"idle", "read", "getline"}, len : Nat, got : Seq(Nat)]
  BY <1>2, <1>3, <1>4
<1>6. StreamsTypeOK'
  BY <1>1, <1>5 DEF StreamsTypeOK, Got
<1>7. ((consumed \o (reading.got \o t)) \o rdbuf') \o source'
        = ((consumed \o reading.got) \o rdbuf) \o source
  <2> DEFINE g == reading.got
  <2>1. /\ consumed \in Seq(Nat) /\ g \in Seq(Nat) /\ rdbuf \in Seq(Nat)
        /\ source \in Seq(Nat) /\ rdbuf' \in Seq(Nat) /\ source' \in Seq(Nat)
    BY <1>1, StreamTypes DEF Got
  <2> HIDE DEF g
  <2>2. /\ g \o t \in Seq(Nat) /\ rdbuf' \o source' \in Seq(Nat)
        /\ consumed \o g \in Seq(Nat) /\ rdbuf \o source \in Seq(Nat) /\ consumed \o (g \o t) \in Seq(Nat)
    BY <2>1, Joined
  <2>3. \A x \in Seq(Nat) : (x \o rdbuf') \o source' = x \o (rdbuf' \o source')
    BY <2>1, RecutLast, Zenon
  <2>4. \A x \in Seq(Nat) : \A y \in Seq(Nat) : (consumed \o x) \o y = consumed \o (x \o y)
    BY <2>1, Recut
  <2>5. \A x \in Seq(Nat) : (g \o t) \o x = g \o (t \o x)
    BY <2>1, Recut
  <2>6. \A x \in Seq(Nat) : (x \o rdbuf) \o source = x \o (rdbuf \o source)
    BY <2>1, RecutLast, Zenon
  <2>7. ((consumed \o (g \o t)) \o rdbuf') \o source' = (consumed \o (g \o t)) \o (rdbuf' \o source')
    BY <2>2, <2>3, Zenon
  <2>8. (consumed \o (g \o t)) \o (rdbuf' \o source') = consumed \o ((g \o t) \o (rdbuf' \o source'))
    BY <2>2, <2>4, Zenon
  <2>9. (g \o t) \o (rdbuf' \o source') = g \o (t \o (rdbuf' \o source'))
    BY <2>2, <2>5, Zenon
  <2>10. ((consumed \o g) \o rdbuf) \o source = (consumed \o g) \o (rdbuf \o source)
    BY <2>2, <2>6, Zenon
  <2>11. (consumed \o g) \o (rdbuf \o source) = consumed \o (g \o (rdbuf \o source))
    <3>1. \A y \in Seq(Nat) : (consumed \o g) \o y = consumed \o (g \o y)
      BY <2>1, <2>4, Zenon
    <3> QED
      BY <2>2, <3>1, Zenon
  <2> QED
    BY <1>2, <2>7, <2>8, <2>9, <2>10, <2>11, Zenon DEF g
<1>8. BytesKept'
  BY <1>5, <1>7, Zenon DEF BytesKept
<1> QED
  BY <1>2, <1>5, <1>6, <1>8

\* An operation ends: what it had is consumed.
LEMMA Finishes ==
    ASSUME StreamsTypeOK, BytesKept, reading' = Idle, consumed' = consumed \o reading.got,
           UNCHANGED <<input, source, rdbuf>>
    PROVE  BytesKept' /\ consumed' \in Seq(Nat)
<1>1. consumed \o reading.got \in Seq(Nat)
  BY StreamTypes, Joined
<1>2. reading'.got = <<>>
  BY DEF Idle
<1>3. (consumed \o reading.got) \o <<>> = consumed \o reading.got
  BY <1>1, NoBytes, Zenon
<1> QED
  BY <1>1, <1>2, <1>3 DEF BytesKept

LEMMA PeekStep ==
    ASSUME StreamsTypeOK, BytesKept, peek
    PROVE  StreamsTypeOK' /\ BytesKept'
<1>1. PICK n \in some(minimum_read_size) : rdbuf' = take(source, n) /\ source' = drop(source, n)
  BY DEF peek
<1>2. n \in 0 .. Len(source)
  BY <1>1, StreamTypes, LenProperties, StreamsAssumption DEF some, least
<1>3. rdbuf' \in Seq(Nat) /\ source' \in Seq(Nat) /\ rdbuf' \o source' = source
  BY <1>1, <1>2, StreamTypes, TakeDrop
<1>4. StreamsTypeOK'
  BY <1>3 DEF StreamsTypeOK, peek
<1> DEFINE c == consumed \o reading.got
<1>5. c \in Seq(Nat)
  BY StreamTypes, Joined
<1>6. (c \o <<>>) \o source = input /\ rdbuf = <<>>
  BY DEF BytesKept, peek
<1> HIDE DEF c
<1>7. c \o <<>> = c
  BY <1>5, NoBytes
<1>8. (c \o rdbuf') \o source' = c \o (rdbuf' \o source')
  BY <1>3, <1>5, Recut
<1>9. (c \o rdbuf') \o source' = input
  BY <1>3, <1>6, <1>7, <1>8, Zenon
<1>10. BytesKept'
  BY <1>9 DEF BytesKept, c, peek
<1> QED
  BY <1>4, <1>10

\* The bytes of the operation under way, where they are in the input.
LEMMA WhereTheyAre ==
    ASSUME StreamsTypeOK, BytesKept
    PROVE  /\ Len(consumed) + Len(reading.got) <= Len(input)
           /\ \A k \in 1 .. Len(reading.got) : input[Len(consumed) + k] = reading.got[k]
<1> DEFINE g == reading.got
           f == consumed \o g
           q == rdbuf \o source
<1>1. consumed \in Seq(Nat) /\ g \in Seq(Nat) /\ rdbuf \in Seq(Nat) /\ source \in Seq(Nat)
  BY StreamTypes
<1>2. (f \o rdbuf) \o source = input
  BY DEF BytesKept
<1> HIDE DEF g
<1>3. f \in Seq(Nat) /\ Len(f) = Len(consumed) + Len(g) /\ q \in Seq(Nat) /\ Len(q) \in Nat
  BY <1>1, Joined, LenProperties
<1>4. \A k \in 1 .. Len(g) : f[Len(consumed) + k] = g[k]
  BY <1>1
<1> HIDE DEF f
<1>5. input = f \o q
  <2>1. \A x \in Seq(Nat) : (x \o rdbuf) \o source = x \o (rdbuf \o source)
    BY <1>1, RecutLast, Zenon
  <2> QED
    BY <1>2, <1>3, <2>1, Zenon
<1> HIDE DEF q
<1>6. Len(input) = Len(f) + Len(q) /\ \A k \in 1 .. Len(f) : input[k] = f[k]
  BY <1>3, <1>5, Joined
<1>7. Len(consumed) \in Nat /\ Len(g) \in Nat
  BY <1>1, LenProperties
<1>8. Len(consumed) + Len(g) <= Len(input)
  BY <1>3, <1>6, <1>7
<1>9. ASSUME NEW k \in 1 .. Len(g) PROVE input[Len(consumed) + k] = g[k]
  <2>1. Len(consumed) + k \in 1 .. Len(f)
    BY <1>3, <1>7
  <2> QED
    BY <1>4, <1>6, <2>1
<1> QED
  BY <1>8, <1>9 DEF g

\* What a getline that ends returns is the rest of a line of the input.
LEMMA LineReturned ==
    ASSUME StreamsTypeOK, BytesKept, LineUnderWay, reading.op = "getline", line_ended
    PROVE  \E j \in DOMAIN input : \E i \in 1 .. j : RestOfLine(without_returns(Front(reading.got)), i, j)
<1> DEFINE g == reading.got
           n == Len(consumed)
           m == Len(reading.got)
           i == n + 1
           j == n + m
<1>1. g \in Seq(Nat) /\ input \in Seq(Nat) /\ n \in Nat /\ m \in Nat /\ Len(input) \in Nat
  BY StreamTypes, LenProperties
<1>2. m > 0 /\ m = Len(g) /\ g[m] = Newline
  <2>1. g # <<>> /\ g[Len(g)] = Newline
    BY DEF line_ended, Last
  <2> QED
    BY <1>1, <2>1, EmptySeq
<1>3. j <= Len(input) /\ \A k \in 1 .. m : input[n + k] = g[k]
  BY WhereTheyAre
<1>4. \A k \in 1 .. m - 1 : g[k] # Newline
  BY DEF LineUnderWay
<1>5. Front(g) = SubSeq(g, 1, m - 1)
  BY DEF Front
<1> HIDE DEF g, n, m
<1>6. j \in 1 .. Len(input) /\ i \in 1 .. j
  BY <1>1, <1>2, <1>3
<1>7. input[j] = Newline
  BY <1>1, <1>2, <1>3
<1>8. ASSUME NEW k \in i .. j - 1 PROVE input[k] # Newline
  <2>1. k - n \in 1 .. m - 1 /\ k - n \in 1 .. m /\ n + (k - n) = k
    BY <1>1
  <2> QED
    BY <1>3, <1>4, <2>1
<1>9. Front(g) = SubSeq(input, i, j - 1)
  <2>1. /\ SubSeq(g, 1, m - 1) \in Seq(Nat) /\ Len(SubSeq(g, 1, m - 1)) = m - 1
        /\ \A k \in 1 .. m - 1 : SubSeq(g, 1, m - 1)[k] = g[k]
    BY <1>1, <1>2
  <2>2. /\ SubSeq(input, i, j - 1) \in Seq(Nat) /\ Len(SubSeq(input, i, j - 1)) = m - 1
        /\ \A k \in 1 .. m - 1 : SubSeq(input, i, j - 1)[k] = input[n + k]
    <3>1. m - 1 \in Nat /\ n + (m - 1) <= Len(input) /\ n + (m - 1) = j - 1
      <4>1. m > 0 /\ j <= Len(input)
        BY <1>2, <1>3
      <4> QED
        BY <1>1, <4>1
    <3> DEFINE l == m - 1
    <3>2. l \in Nat /\ n \in Nat /\ n + l <= Len(input) /\ input \in Seq(Nat)
      BY <1>1, <3>1
    <3> HIDE DEF l
    <3>3. /\ SubSeq(input, n + 1, n + l) \in Seq(Nat) /\ Len(SubSeq(input, n + 1, n + l)) = l
          /\ \A k \in 1 .. l : SubSeq(input, n + 1, n + l)[k] = input[n + k]
      BY <3>2, Cut
    <3>4. n + l = j - 1 /\ l = m - 1
      BY <3>1 DEF l
    <3> QED
      BY <3>3, <3>4
  <2>3. \A k \in 1 .. m - 1 : k \in 1 .. m
    BY <1>1
  <2> QED
    BY <1>3, <1>5, <2>1, <2>2, <2>3, SeqEqual
<1>10. RestOfLine(without_returns(Front(g)), i, j)
  BY <1>7, <1>8, <1>9 DEF RestOfLine
<1>11. DOMAIN input = 1 .. Len(input)
  BY <1>1
<1> QED
  BY <1>6, <1>10, <1>11 DEF g

\* A line goes on until its newline.
LEMMA LineGoesOn ==
    ASSUME StreamsTypeOK, LineUnderWay, ~line_ended, NEW t \in Seq(Nat), Len(t) \in 1 .. 1,
           reading.op = "getline", reading'.got = reading.got \o t
    PROVE  LineUnderWay'
<1> DEFINE g == reading.got
           h == reading'.got
<1>1. g \in Seq(Nat) /\ Len(g) \in Nat
  BY StreamTypes, LenProperties
<1>2. \A k \in 1 .. Len(g) - 1 : g[k] # Newline
  BY DEF LineUnderWay
<1>3. g = <<>> \/ g[Len(g)] # Newline
  BY DEF line_ended, Last
<1>4. h = g \o t
  OBVIOUS
<1> HIDE DEF g, h
<1>5. Len(h) = Len(g) + 1 /\ \A k \in 1 .. Len(g) : h[k] = g[k]
  <2>1. Len(t) = 1
    OBVIOUS
  <2>2. Len(g \o t) = Len(g) + Len(t) /\ \A k \in 1 .. Len(g) : (g \o t)[k] = g[k]
    BY <1>1, Joined
  <2> QED
    BY <1>4, <2>1, <2>2
<1>6. ASSUME NEW k \in 1 .. Len(g) PROVE g[k] # Newline
  BY <1>1, <1>2, <1>3, EmptySeq
<1>7. \A k \in 1 .. Len(h) - 1 : h[k] # Newline
  BY <1>1, <1>5, <1>6
<1> QED
  BY <1>7 DEF LineUnderWay, h

\* The lines returned before.
LEMMA SameLines ==
    ASSUME LinesRead, UNCHANGED <<input, lines>>
    PROVE  LinesRead'
  BY DEF LinesRead, RestOfLine

\* One line more.
LEMMA AnotherLine ==
    ASSUME StreamsTypeOK, LinesRead, input' = input, NEW s \in Seq(Nat),
           lines' = Append(lines, without_returns(s)),
           \E j \in DOMAIN input : \E i \in 1 .. j : RestOfLine(without_returns(s), i, j)
    PROVE  LinesRead' /\ lines' \in Seq({without_returns(x) : x \in Seq(Nat)})
<1> DEFINE Lines == {without_returns(x) : x \in Seq(Nat)}
           l == without_returns(s)
<1>1. lines \in Seq(Lines) /\ l \in Lines
  BY DEF StreamsTypeOK
<1>2. lines' = Append(lines, l)
  OBVIOUS
<1>3. \A k \in ToSet(lines) : \E j \in DOMAIN input : \E i \in 1 .. j : RestOfLine(k, i, j)
  BY DEF LinesRead
<1>4. \E j \in DOMAIN input : \E i \in 1 .. j : RestOfLine(l, i, j)
  OBVIOUS
<1> HIDE DEF Lines, l
<1>5. lines' \in Seq(Lines)
  BY <1>1, <1>2
<1>6. ToSet(lines') \subseteq ToSet(lines) \cup {l}
  BY <1>1, <1>2 DEF ToSet
<1>7. \A k \in ToSet(lines') : \E j \in DOMAIN input : \E i \in 1 .. j : RestOfLine(k, i, j)
  BY <1>3, <1>4, <1>6
<1>8. LinesRead'
  BY <1>7 DEF LinesRead, RestOfLine
<1> QED
  BY <1>5, <1>8 DEF Lines

\* Every step of a reader.
LEMMA ReaderStep ==
    ASSUME StreamsTypeOK, BytesKept, LinesRead, LineUnderWay, ReaderNext
    PROVE  /\ StreamsTypeOK' /\ BytesKept' /\ LinesRead' /\ LineUnderWay'
           /\ UNCHANGED <<sink, wrbuf, output, data>>
<1> USE StreamTypes
<1>1. CASE peek
  <2>1. StreamsTypeOK' /\ BytesKept'
    BY <1>1, PeekStep
  <2>2. UNCHANGED <<input, reading, lines, sink, wrbuf, output, data>>
    BY <1>1 DEF peek
  <2> QED
    BY <2>1, <2>2, SameLines DEF LineUnderWay
<1>2. CASE istream_read
  <2>1. readsome(reading.len - Len(reading.got)) /\ reading.op = "read"
        /\ UNCHANGED <<input, consumed, lines, sink, wrbuf, output, data>>
    BY <1>2 DEF istream_read
  <2>2. reading.len - Len(reading.got) \in Nat \ {0}
    BY <1>2, LenProperties DEF istream_read
  <2>3. StreamsTypeOK' /\ BytesKept' /\ reading'.op = reading.op
    BY <2>1, <2>2, ReadsOn
  <2> QED
    BY <2>1, <2>3, SameLines DEF LineUnderWay
<1>3. CASE read_returns
  <2>1. reading' = Idle /\ consumed' = consumed \o reading.got
        /\ UNCHANGED <<input, source, rdbuf, lines, sink, wrbuf, output, data>>
    BY <1>3 DEF read_returns
  <2>2. BytesKept' /\ consumed' \in Seq(Nat)
    BY <2>1, Finishes
  <2>3. StreamsTypeOK' /\ LineUnderWay'
    BY <2>1, <2>2 DEF StreamsTypeOK, LineUnderWay, Idle
  <2> QED
    BY <2>1, <2>2, <2>3, SameLines
<1>4. CASE eof
  <2>1. reading' = Idle /\ consumed' = consumed \o reading.got
        /\ UNCHANGED <<input, source, rdbuf, lines, sink, wrbuf, output, data>>
    BY <1>4 DEF eof
  <2>2. BytesKept' /\ consumed' \in Seq(Nat)
    BY <2>1, Finishes
  <2>3. StreamsTypeOK' /\ LineUnderWay'
    BY <2>1, <2>2 DEF StreamsTypeOK, LineUnderWay, Idle
  <2> QED
    BY <2>1, <2>2, <2>3, SameLines
<1>5. CASE getline
  <2>1. readsome(1) /\ reading.op = "getline" /\ ~line_ended
        /\ UNCHANGED <<input, consumed, lines, sink, wrbuf, output, data>>
    BY <1>5 DEF getline, readsome
  <2>2. /\ StreamsTypeOK' /\ BytesKept'
        /\ \E t \in Seq(Nat) : Len(t) \in 1 .. 1 /\ reading'.got = reading.got \o t
    <3>1. 1 \in Nat \ {0}
      OBVIOUS
    <3> QED
      BY <2>1, <3>1, ReadsOn
  <2>3. LineUnderWay'
    BY <2>1, <2>2, LineGoesOn
  <2> QED
    BY <2>1, <2>2, <2>3, SameLines
<1>6. CASE getline_returns
  <2>1. /\ reading' = Idle /\ consumed' = consumed \o reading.got
        /\ lines' = Append(lines, without_returns(Front(reading.got)))
        /\ UNCHANGED <<input, source, rdbuf, sink, wrbuf, output, data>>
    BY <1>6 DEF getline_returns
  <2>2. BytesKept' /\ consumed' \in Seq(Nat)
    BY <2>1, Finishes
  <2>3. \E j \in DOMAIN input : \E i \in 1 .. j :
          RestOfLine(without_returns(Front(reading.got)), i, j)
    BY <1>6, LineReturned DEF getline_returns
  <2>4. Front(reading.got) \in Seq(Nat)
    <3> DEFINE g == reading.got
    <3>1. g \in Seq(Nat) /\ Len(g) \in Nat /\ g # <<>>
      BY <1>6, LenProperties DEF getline_returns, line_ended
    <3>2. Front(g) = SubSeq(g, 1, Len(g) - 1)
      BY DEF Front
    <3> HIDE DEF g
    <3>3. 0 + (Len(g) - 1) <= Len(g) /\ Len(g) - 1 \in Nat /\ 0 + (Len(g) - 1) = Len(g) - 1 /\ 0 + 1 = 1
      BY <3>1, EmptySeq
    <3>4. \A m \in Nat : 0 + m <= Len(g) => SubSeq(g, 0 + 1, 0 + m) \in Seq(Nat)
      BY <3>1, Cut
    <3>5. SubSeq(g, 1, Len(g) - 1) \in Seq(Nat)
      BY <3>3, <3>4
    <3> QED
      BY <3>2, <3>5 DEF g
  <2>5. LinesRead' /\ lines' \in Seq({without_returns(x) : x \in Seq(Nat)})
    BY <2>1, <2>3, <2>4, AnotherLine
  <2>6. StreamsTypeOK' /\ LineUnderWay'
    BY <2>1, <2>2, <2>5 DEF StreamsTypeOK, LineUnderWay, Idle
  <2> QED
    BY <2>1, <2>2, <2>5, <2>6
<1>7. ASSUME NEW op \in {"read", "getline"}, NEW len \in Nat, start_reading(op, len)
      PROVE  /\ StreamsTypeOK' /\ BytesKept' /\ LinesRead' /\ LineUnderWay'
             /\ UNCHANGED <<sink, wrbuf, output, data>>
  <2>1. /\ reading = Idle /\ reading' = [op |-> op, len |-> len, got |-> <<>>]
        /\ UNCHANGED <<input, source, rdbuf, consumed, lines, sink, wrbuf, output, data>>
    BY <1>7 DEF start_reading
  <2>2. reading.got = <<>> /\ reading'.got = <<>>
    BY <2>1 DEF Idle
  <2>3. BytesKept'
    BY <2>1, <2>2 DEF BytesKept
  <2>4. StreamsTypeOK' /\ LineUnderWay'
    BY <2>1, <2>2 DEF StreamsTypeOK, LineUnderWay
  <2> QED
    BY <2>1, <2>3, <2>4, SameLines
<1>8. \A len \in 1 .. minimum_read_size + 1 : len \in Nat
  BY StreamsAssumption
<1> QED
  BY <1>1, <1>2, <1>3, <1>4, <1>5, <1>6, <1>7, <1>8 DEF ReaderNext

-----------------------------------------------------------------------------
(***************************************************************************)
(* The writer.                                                             *)
(***************************************************************************)

LEMMA WriterStep ==
    ASSUME StreamsTypeOK, sink \o wrbuf = output, WriterNext
    PROVE  /\ StreamsTypeOK' /\ (sink \o wrbuf = output)'
           /\ UNCHANGED <<input, source, rdbuf, reading, consumed, lines, data>>
<1>1. sink \in Seq(Nat) /\ wrbuf \in Seq(Nat) /\ output \in Seq(Nat)
  BY StreamTypes
<1>2. CASE flush_block
  <2>1. PICK n \in 1 .. least(write_buffer_size, Len(wrbuf)) :
               sink' = sink \o take(wrbuf, n) /\ wrbuf' = drop(wrbuf, n)
    BY <1>2 DEF flush_block
  <2>2. UNCHANGED <<input, source, rdbuf, reading, consumed, lines, output, data>>
    BY <1>2 DEF flush_block
  <2>3. n \in 0 .. Len(wrbuf)
    BY <1>1, <2>1, StreamsAssumption, LenProperties DEF least
  <2> DEFINE t == take(wrbuf, n)
             d == drop(wrbuf, n)
  <2>4. t \in Seq(Nat) /\ d \in Seq(Nat) /\ t \o d = wrbuf
    BY <1>1, <2>3, TakeDrop
  <2>5. sink' = sink \o t /\ wrbuf' = d
    BY <2>1
  <2> HIDE DEF t, d
  <2>6. (sink \o t) \o d = sink \o (t \o d)
    <3>1. \A x \in Seq(Nat) : (sink \o t) \o x = sink \o (t \o x)
      BY <1>1, <2>4, Recut
    <3> QED
      BY <2>4, <3>1, Zenon
  <2>7. sink \o t \in Seq(Nat)
    BY <1>1, <2>4, Joined
  <2>8. sink' \o wrbuf' = output'
    BY <2>2, <2>4, <2>5, <2>6
  <2>9. StreamsTypeOK'
    BY <2>2, <2>4, <2>5, <2>7 DEF StreamsTypeOK
  <2> QED
    BY <2>2, <2>8, <2>9
<1>3. ASSUME NEW b \in Blocks, writesome(b)
      PROVE  /\ StreamsTypeOK' /\ (sink \o wrbuf = output)'
             /\ UNCHANGED <<input, source, rdbuf, reading, consumed, lines, data>>
  <2>1. b \in Seq(Nat)
    BY StreamsAssumption
  <2>2. /\ wrbuf' = wrbuf \o b /\ output' = output \o b
        /\ UNCHANGED <<input, source, rdbuf, reading, consumed, lines, sink, data>>
    BY <1>3 DEF writesome
  <2>3. wrbuf \o b \in Seq(Nat) /\ output \o b \in Seq(Nat)
    BY <1>1, <2>1, Joined
  <2>4. StreamsTypeOK'
    BY <2>2, <2>3 DEF StreamsTypeOK
  <2>5. (sink \o wrbuf) \o b = sink \o (wrbuf \o b)
    BY <1>1, <2>1, Recut
  <2> QED
    BY <2>2, <2>4, <2>5
<1> QED
  BY <1>2, <1>3 DEF WriterNext

-----------------------------------------------------------------------------
(***************************************************************************)
(* The datastreams.                                                        *)
(***************************************************************************)

\* Of blocks that fill a buffer, the first one fits; when there is none the buffer is full.
LEMMA FirstFits ==
    ASSUME NEW blocks \in Seq(Blocks), NEW from \in Nat, NEW total \in Nat,
           Fills(blocks, from, total)
    PROVE  /\ from <= total
           /\ blocks = <<>> => from = total
           /\ blocks # <<>> => from + Len(blocks[1]) <= total
<1>1. PICK ends \in [0 .. Len(blocks) -> Nat] :
        /\ ends[0] = from /\ ends[Len(blocks)] = total
        /\ \A i \in 0 .. Len(blocks) : ends[i] <= total
        /\ \A i \in 1 .. Len(blocks) : ends[i] = ends[i - 1] + Len(blocks[i])
  BY DEF Fills
<1>2. Len(blocks) \in Nat /\ (blocks = <<>> => Len(blocks) = 0) /\ (blocks # <<>> => Len(blocks) # 0)
  BY LenProperties, EmptySeq
<1>3. from <= total
  BY <1>1, <1>2
<1>4. blocks = <<>> => from = total
  BY <1>1, <1>2
<1>5. ASSUME blocks # <<>> PROVE from + Len(blocks[1]) <= total
  <2>1. 1 \in 0 .. Len(blocks) /\ 1 \in 1 .. Len(blocks) /\ 1 - 1 = 0
    BY <1>2, <1>5
  <2>2. ends[1] <= total
    BY <1>1, <2>1
  <2>3. ends[1] = ends[1 - 1] + Len(blocks[1])
    BY <1>1, <2>1
  <2>4. ends[1 - 1] = from
    BY <1>1, <2>1
  <2> QED
    BY <2>2, <2>3, <2>4
<1> QED
  BY <1>3, <1>4, <1>5

LEMMA FillsNothing ==
    ASSUME NEW from \in Nat
    PROVE  Fills(<<>>, from, from)
<1> DEFINE ends == [i \in 0 .. Len(<<>>) |-> from]
<1>1. ends \in [0 .. Len(<<>>) -> Nat] /\ ends[0] = from /\ ends[Len(<<>>)] = from
      /\ \A i \in 0 .. Len(<<>>) : ends[i] <= from
  OBVIOUS
<1>2. 1 .. Len(<<>>) = {}
  OBVIOUS
<1> HIDE DEF ends
<1> QED
  BY <1>1, <1>2 DEF Fills

\* The first pass counts one block more.
LEMMA FillsAppend ==
    ASSUME NEW blocks \in Seq(Blocks), NEW from \in Nat, NEW total \in Nat, NEW b \in Blocks,
           Fills(blocks, from, total)
    PROVE  Fills(Append(blocks, b), from, total + Len(b))
<1>1. PICK ends \in [0 .. Len(blocks) -> Nat] :
        /\ ends[0] = from /\ ends[Len(blocks)] = total
        /\ \A i \in 0 .. Len(blocks) : ends[i] <= total
        /\ \A i \in 1 .. Len(blocks) : ends[i] = ends[i - 1] + Len(blocks[i])
  BY DEF Fills
<1> DEFINE n == Len(blocks)
           more == Append(blocks, b)
           last == total + Len(b)
           longer == [i \in 0 .. n + 1 |-> IF i <= n THEN ends[i] ELSE last]
<1>2. n \in Nat /\ Len(b) \in Nat /\ last \in Nat /\ total <= last
  <2>1. b \in Seq(Nat)
    BY StreamsAssumption
  <2>2. n \in Nat /\ Len(b) \in Nat
    BY <2>1, LenProperties
  <2> QED
    BY <2>2
<1>3. Len(more) = n + 1 /\ more[n + 1] = b /\ \A i \in 1 .. n : more[i] = blocks[i]
  BY <1>2, AppendProperties
<1>4. /\ ends \in [0 .. n -> Nat] /\ ends[0] = from /\ ends[n] = total
      /\ \A i \in 0 .. n : ends[i] <= total
      /\ \A i \in 1 .. n : ends[i] = ends[i - 1] + Len(blocks[i])
  BY <1>1
<1> HIDE DEF n, more
<1>5. last = total + Len(b)
  OBVIOUS
<1> HIDE DEF last
<1>6. longer \in [0 .. n + 1 -> Nat] /\ longer[n + 1] = last /\ \A i \in 0 .. n : longer[i] = ends[i]
  BY <1>2, <1>4
<1> HIDE DEF longer
<1>7. longer[0] = from
  BY <1>2, <1>4, <1>6
<1>8. \A i \in 0 .. n + 1 : longer[i] <= last
  <2>1. ASSUME NEW i \in 0 .. n + 1 PROVE longer[i] <= last
    <3>1. CASE i = n + 1
      BY <1>2, <1>6, <3>1
    <3>2. CASE i # n + 1
      <4>1. i \in 0 .. n
        BY <1>2, <3>2
      <4>2. longer[i] = ends[i] /\ ends[i] <= total /\ ends[i] \in Nat
        BY <1>4, <1>6, <4>1
      <4> QED
        BY <1>2, <4>2
    <3> QED
      BY <3>1, <3>2
  <2> QED
    BY <2>1
<1>9. \A i \in 1 .. n + 1 : longer[i] = longer[i - 1] + Len(more[i])
  <2>1. ASSUME NEW i \in 1 .. n + 1 PROVE longer[i] = longer[i - 1] + Len(more[i])
    <3>1. CASE i = n + 1
      <4>1. i - 1 = n /\ n \in 0 .. n
        BY <1>2, <3>1
      <4>2. longer[n] = ends[n] /\ longer[n + 1] = last
        BY <1>6, <4>1
      <4> QED
        BY <1>3, <1>4, <1>5, <3>1, <4>1, <4>2
    <3>2. CASE i # n + 1
      <4>1. i \in 1 .. n /\ i \in 0 .. n /\ i - 1 \in 0 .. n
        BY <1>2, <3>2
      <4>2. longer[i] = ends[i] /\ longer[i - 1] = ends[i - 1]
        BY <1>6, <4>1
      <4>3. ends[i] = ends[i - 1] + Len(blocks[i]) /\ more[i] = blocks[i]
        BY <1>3, <1>4, <4>1
      <4> QED
        BY <4>2, <4>3
    <3> QED
      BY <3>1, <3>2
  <2> QED
    BY <2>1
<1>10. Fills(more, from, last)
  BY <1>3, <1>6, <1>7, <1>8, <1>9 DEF Fills
<1> QED
  BY <1>10 DEF more, last

\* The second pass has written the first one.
LEMMA FillsTail ==
    ASSUME NEW blocks \in Seq(Blocks), NEW from \in Nat, NEW total \in Nat,
           Fills(blocks, from, total), blocks # <<>>
    PROVE  Fills(Tail(blocks), from + Len(blocks[1]), total)
<1>1. PICK ends \in [0 .. Len(blocks) -> Nat] :
        /\ ends[0] = from /\ ends[Len(blocks)] = total
        /\ \A i \in 0 .. Len(blocks) : ends[i] <= total
        /\ \A i \in 1 .. Len(blocks) : ends[i] = ends[i - 1] + Len(blocks[i])
  BY DEF Fills
<1> DEFINE m == Len(Tail(blocks))
           rest == Tail(blocks)
           later == [i \in 0 .. m |-> ends[i + 1]]
<1>2. m \in Nat /\ Len(blocks) = m + 1 /\ \A i \in 1 .. m : rest[i] = blocks[i + 1]
  BY HeadTailProperties, LenProperties, EmptySeq
<1>3. /\ ends \in [0 .. m + 1 -> Nat] /\ ends[0] = from /\ ends[m + 1] = total
      /\ \A i \in 0 .. m + 1 : ends[i] <= total
      /\ \A i \in 1 .. m + 1 : ends[i] = ends[i - 1] + Len(blocks[i])
  BY <1>1, <1>2
<1>4. Len(rest) = m
  OBVIOUS
<1> HIDE DEF m, rest
<1>5. later \in [0 .. m -> Nat] /\ \A i \in 0 .. m : later[i] = ends[i + 1]
  BY <1>2, <1>3
<1> HIDE DEF later
<1>6. later[0] = from + Len(blocks[1])
  <2>1. 0 \in 0 .. m /\ 1 \in 1 .. m + 1 /\ 0 + 1 = 1 /\ 1 - 1 = 0
    BY <1>2
  <2>2. later[0] = ends[0 + 1]
    BY <1>5, <2>1
  <2>3. ends[1] = ends[1 - 1] + Len(blocks[1])
    BY <1>3, <2>1
  <2> QED
    BY <1>3, <2>1, <2>2, <2>3
<1>7. later[m] = total /\ \A i \in 0 .. m : later[i] <= total
  <2>1. m \in 0 .. m /\ \A i \in 0 .. m : i + 1 \in 0 .. m + 1
    BY <1>2
  <2> QED
    BY <1>3, <1>5, <2>1
<1>8. ASSUME NEW i \in 1 .. m PROVE later[i] = later[i - 1] + Len(rest[i])
  <2>1. i \in 0 .. m /\ i - 1 \in 0 .. m /\ i + 1 \in 1 .. m + 1 /\ i + 1 - 1 = i /\ (i - 1) + 1 = i
    BY <1>2
  <2>2. later[i] = ends[i + 1] /\ later[i - 1] = ends[(i - 1) + 1]
    BY <1>5, <2>1
  <2>3. ends[i + 1] = ends[i + 1 - 1] + Len(blocks[i + 1])
    BY <1>3, <2>1
  <2>4. rest[i] = blocks[i + 1]
    BY <1>2
  <2> QED
    BY <2>1, <2>2, <2>3, <2>4
<1>9. Fills(rest, from + Len(blocks[1]), total)
  BY <1>4, <1>5, <1>6, <1>7, <1>8 DEF Fills
<1> QED
  BY <1>9 DEF rest

\* The fields of data, one by one.
LEMMA DataTypes ==
    ASSUME StreamsTypeOK
    PROVE  /\ data \in [size : Nat, buf : Seq(Nat), end : Nat, read : Nat, pass : 1 .. 4,
                        blocks : Seq(Blocks)]
           /\ data.size \in Nat /\ data.buf \in Seq(Nat) /\ data.end \in Nat /\ data.read \in Nat
           /\ data.pass \in 1 .. 4 /\ data.blocks \in Seq(Blocks) /\ Len(data.buf) \in Nat
  BY LenProperties DEF StreamsTypeOK

\* Every step of a datastream: in the second pass the block fits, for the
\* first pass counted it.
LEMMA DataStep ==
    ASSUME StreamsTypeOK, Counted, DataNext
    PROVE  /\ StreamsTypeOK' /\ Counted'
           /\ UNCHANGED <<input, source, rdbuf, reading, consumed, lines, sink, wrbuf, output>>
<1> DEFINE Data == [size : Nat, buf : Seq(Nat), end : Nat, read : Nat, pass : 1 .. 4,
                    blocks : Seq(Blocks)]
<1>0. /\ data \in Data
      /\ data.size \in Nat /\ data.buf \in Seq(Nat) /\ data.end \in Nat /\ data.read \in Nat
      /\ data.pass \in 1 .. 4 /\ data.blocks \in Seq(Blocks) /\ Len(data.buf) \in Nat
  BY DataTypes
<1>1. UNCHANGED <<input, source, rdbuf, reading, consumed, lines, sink, wrbuf, output>>
  BY DEF DataNext, allocate, write_pass, size_pass, read_pass
<1>2. ASSUME data' \in Data PROVE StreamsTypeOK'
  BY <1>1, <1>2 DEF StreamsTypeOK
<1>3. CASE allocate
  <2>1. data.pass = 1 /\ data' = [data EXCEPT !.pass = 2, !.end = data.size]
    BY <1>3 DEF allocate
  <2>2. 2 \in 1 .. 4
    OBVIOUS
  <2>3. data' \in Data
    BY <1>0, <2>1, <2>2
  <2>4. /\ data'.pass = 2 /\ data'.end = data.size /\ data'.blocks = data.blocks
        /\ data'.buf = data.buf /\ data'.read = data.read
    BY <1>0, <2>1
  <2>5. Fills(data.blocks, Len(data.buf), data.size) /\ data.read = 0
    BY <2>1 DEF Counted
  <2>6. Counted'
    BY <2>4, <2>5 DEF Counted
  <2> QED
    BY <1>1, <1>2, <2>6, <2>3
<1>4. ASSUME NEW b \in Blocks, size_pass(b)
      PROVE  StreamsTypeOK' /\ Counted'
  <2>1. data.pass = 1 /\ data' = [data EXCEPT !.size = @ + Len(b), !.blocks = Append(@, b)]
    BY <1>4 DEF size_pass
  <2>2. b \in Seq(Nat) /\ Len(b) \in Nat
    BY StreamsAssumption, LenProperties
  <2>3. Append(data.blocks, b) \in Seq(Blocks)
    BY <1>0
  <2>4. data.size + Len(b) \in Nat
    BY <1>0, <2>2
  <2>5. data' \in Data
    BY <1>0, <2>1, <2>3, <2>4
  <2>6. /\ data'.pass = 1 /\ data'.size = data.size + Len(b)
        /\ data'.blocks = Append(data.blocks, b)
        /\ data'.buf = data.buf /\ data'.read = data.read
    BY <1>0, <2>1
  <2>7. Fills(data.blocks, Len(data.buf), data.size) /\ data.read = 0
    BY <2>1 DEF Counted
  <2>8. Fills(Append(data.blocks, b), Len(data.buf), data.size + Len(b))
    BY <1>0, <2>7, FillsAppend
  <2>9. Counted'
    BY <2>6, <2>7, <2>8 DEF Counted
  <2> QED
    BY <1>2, <2>9, <2>5
<1>5. CASE write_pass
  <2> DEFINE h == Head(data.blocks)
  <2>1. /\ data.pass = 2 /\ data.blocks # <<>>
        /\ data' = IF data.end - Len(data.buf) >= as_int(Len(h))
                   THEN [data EXCEPT !.buf = @ \o h, !.blocks = Tail(@)]
                   ELSE [data EXCEPT !.pass = 4]
    BY <1>5 DEF write_pass
  <2>2. Fills(data.blocks, Len(data.buf), data.end) /\ data.read = 0
    BY <2>1 DEF Counted
  <2>3. h = data.blocks[1] /\ h \in Blocks /\ Tail(data.blocks) \in Seq(Blocks)
    BY <1>0, <2>1, HeadTailProperties
  <2>4. h \in Seq(Nat) /\ Len(h) \in Nat /\ as_int(Len(h)) = Len(h)
    <3>1. h \in Seq(Nat) /\ as_int(Len(h)) = Len(h)
      BY <2>3, StreamsAssumption, SizesFit
    <3> QED
      BY <3>1, LenProperties
  <2> HIDE DEF h
  <2>5. Len(data.buf) + Len(h) <= data.end
    BY <1>0, <2>1, <2>2, <2>3, FirstFits
  <2>6. data.end - Len(data.buf) >= as_int(Len(h))
    <3>1. Len(data.buf) \in Nat /\ data.end \in Nat
      BY <1>0
    <3> QED
      BY <2>4, <2>5, <3>1
  <2>7. data' = [data EXCEPT !.buf = @ \o h, !.blocks = Tail(@)]
    BY <2>1, <2>6
  <2>8. data.buf \o h \in Seq(Nat) /\ Len(data.buf \o h) = Len(data.buf) + Len(h)
    BY <1>0, <2>4, Joined
  <2>9. /\ data' \in Data /\ data'.pass = 2 /\ data'.buf = data.buf \o h
        /\ data'.blocks = Tail(data.blocks) /\ data'.end = data.end /\ data'.read = data.read
    BY <1>0, <2>1, <2>3, <2>7, <2>8
  <2>10. Fills(Tail(data.blocks), Len(data.buf) + Len(h), data.end)
    BY <1>0, <2>1, <2>2, <2>3, FillsTail
  <2>11. Counted'
    BY <2>2, <2>8, <2>9, <2>10 DEF Counted
  <2> QED
    BY <1>1, <1>2, <2>9, <2>11
<1>6. ASSUME NEW n \in 1 .. 2, read_pass(n)
      PROVE  StreamsTypeOK' /\ Counted'
  <2>1. /\ data.pass \in {2, 3} /\ data.blocks = <<>>
        /\ data' = IF data.end - data.read >= n
                   THEN [data EXCEPT !.pass = 3, !.read = @ + n]
                   ELSE [data EXCEPT !.pass = 4]
    BY <1>6 DEF read_pass
  <2>2. Len(data.buf) = data.end
    <3>1. CASE data.pass = 2
      <4>1. Fills(data.blocks, Len(data.buf), data.end)
        BY <3>1 DEF Counted
      <4> QED
        BY <1>0, <2>1, <4>1, FirstFits
    <3>2. CASE data.pass = 3
      BY <3>2 DEF Counted
    <3> QED
      BY <2>1, <3>1, <3>2
  <2>3. 3 \in 1 .. 4 /\ 4 \in 1 .. 4 /\ data.read + n \in Nat
    BY <1>0
  <2>4. data' \in Data /\ data'.blocks = <<>>
    <3>1. [data EXCEPT !.pass = 3, !.read = @ + n] \in Data
      BY <1>0, <2>3
    <3>2. [data EXCEPT !.pass = 4] \in Data
      BY <1>0, <2>3
    <3>3. data'.blocks = data.blocks
      BY <1>0, <2>1
    <3> QED
      BY <2>1, <3>1, <3>2, <3>3
  <2>5. CASE data.end - data.read >= n
    <3>1. data'.pass = 3 /\ data'.read = data.read + n /\ data'.end = data.end /\ data'.buf = data.buf
      BY <1>0, <2>1, <2>5
    <3>2. data.read + n <= data.end
      <4>1. data.end \in Nat /\ data.read \in Nat
        BY <1>0
      <4> QED
        BY <2>5, <4>1
    <3>3. Counted'
      BY <2>2, <2>4, <3>1, <3>2 DEF Counted
    <3> QED
      BY <1>2, <2>4, <3>3
  <2>6. CASE ~(data.end - data.read >= n)
    <3>1. data'.pass = 4
      BY <1>0, <2>1, <2>6
    <3>2. Counted'
      BY <2>4, <3>1 DEF Counted
    <3> QED
      BY <1>2, <2>4, <3>2
  <2> QED
    BY <2>5, <2>6
<1> QED
  BY <1>1, <1>3, <1>4, <1>5, <1>6 DEF DataNext

\* What the invariant says of the datastream is what the property asks.
LEMMA CountedFits ==
    ASSUME StreamsTypeOK, Counted
    PROVE  DatastreamFits
<1>1. /\ data.end \in Nat /\ data.read \in Nat
      /\ data.pass \in 1 .. 4 /\ data.blocks \in Seq(Blocks) /\ Len(data.buf) \in Nat
  BY DataTypes
<1>2. CASE data.pass = 2
  <2>1. Fills(data.blocks, Len(data.buf), data.end) /\ data.read = 0
    BY <1>2 DEF Counted
  <2>2. Len(data.buf) <= data.end /\ (data.blocks = <<>> => Len(data.buf) = data.end)
    BY <1>1, <2>1, FirstFits
  <2>3. data.read <= data.end
    BY <1>1, <2>1
  <2> QED
    BY <1>2, <2>2, <2>3 DEF DatastreamFits
<1>3. CASE data.pass # 2
  BY <1>1, <1>3 DEF Counted, DatastreamFits
<1> QED
  BY <1>2, <1>3

-----------------------------------------------------------------------------
(***************************************************************************)
(* The streams.                                                            *)
(***************************************************************************)

\* Types, and the bytes of the readers, the writers and the datastreams: the
\* invariant of istream.cpp, buffered_iostream.cpp and datastream.hpp together.
THEOREM StreamsInvariance ==
    StreamsSpec => [](StreamsTypeOK /\ StreamsWhole /\ LineUnderWay /\ Counted)
<1> DEFINE I == StreamsTypeOK /\ StreamsWhole /\ LineUnderWay /\ Counted
<1>1. StreamsInit => I
  <2> SUFFICES ASSUME StreamsInit PROVE I
    OBVIOUS
  <2>1. /\ input \in Seq(Nat) /\ source = input /\ rdbuf = <<>> /\ reading = Idle /\ consumed = <<>>
        /\ lines = <<>> /\ sink = <<>> /\ wrbuf = <<>> /\ output = <<>>
        /\ data = [size |-> 0, buf |-> <<>>, end |-> 0, read |-> 0, pass |-> 1, blocks |-> <<>>]
    BY StreamsAssumption DEF StreamsInit
  <2>2. reading.got = <<>> /\ reading.op = "idle"
    BY <2>1 DEF Idle
  <2>3. StreamsTypeOK
    BY <2>1 DEF StreamsTypeOK, Idle
  <2>4. BytesKept
    <3>1. <<>> \o <<>> = <<>> /\ <<>> \o input = input
      BY <2>1, NoBytes
    <3> QED
      BY <2>1, <2>2, <3>1 DEF BytesKept
  <2>5. LinesRead
    BY <2>1 DEF LinesRead, ToSet
  <2>6. sink \o wrbuf = output
    BY <2>1, NoBytes
  <2>7. data.pass = 1 /\ data.blocks = <<>> /\ Len(data.buf) = 0 /\ data.size = 0 /\ data.read = 0
    BY <2>1
  <2>8. Counted
    BY <2>7, FillsNothing DEF Counted
  <2>9. DatastreamFits
    BY <2>7 DEF DatastreamFits
  <2> QED
    BY <2>2, <2>3, <2>4, <2>5, <2>6, <2>8, <2>9 DEF StreamsWhole, LineUnderWay
<1>2. I /\ [StreamsNext]_stream_vars => I'
  <2> SUFFICES ASSUME I, [StreamsNext]_stream_vars PROVE I'
    OBVIOUS
  <2>1. BytesKept /\ LinesRead /\ sink \o wrbuf = output /\ DatastreamFits
    BY DEF StreamsWhole
  <2>2. CASE ReaderNext
    <3>1. /\ StreamsTypeOK' /\ BytesKept' /\ LinesRead' /\ LineUnderWay'
          /\ UNCHANGED <<sink, wrbuf, output, data>>
      BY <2>1, <2>2, ReaderStep
    <3> QED
      BY <2>1, <3>1 DEF StreamsWhole, DatastreamFits, Counted
  <2>3. CASE WriterNext
    <3>1. /\ StreamsTypeOK' /\ (sink \o wrbuf = output)'
          /\ UNCHANGED <<input, source, rdbuf, reading, consumed, lines, data>>
      BY <2>1, <2>3, WriterStep
    <3> QED
      BY <2>1, <3>1, SameLines DEF StreamsWhole, BytesKept, DatastreamFits, LineUnderWay, Counted
  <2>4. CASE DataNext
    <3>1. /\ StreamsTypeOK' /\ Counted'
          /\ UNCHANGED <<input, source, rdbuf, reading, consumed, lines, sink, wrbuf, output>>
      BY <2>4, DataStep
    <3>2. DatastreamFits'
      BY <3>1, CountedFits, PTL
    <3> QED
      BY <2>1, <3>1, <3>2, SameLines DEF StreamsWhole, BytesKept, LineUnderWay
  <2>5. CASE UNCHANGED stream_vars
    BY <2>1, <2>5, SameLines
       DEF stream_vars, StreamsTypeOK, StreamsWhole, BytesKept, DatastreamFits, LineUnderWay, Counted
  <2> QED
    BY <2>2, <2>3, <2>4, <2>5 DEF StreamsNext
<1> QED
  BY <1>1, <1>2, PTL DEF StreamsSpec

\* However the streams cut the bytes up, none is lost, repeated or moved, each
\* line is one of the input, and a datastream takes what was counted for it.
THEOREM BytesGoThrough == StreamsSpec => []StreamsWhole
  BY StreamsInvariance, PTL

-----------------------------------------------------------------------------
(***************************************************************************)
(* Holders that are as they should be, with x what they are to have.       *)
(***************************************************************************)
Contents == HeldValues \cup {"moved"}

HolderTags == {"empty", "valid", "null", "plain", "pointer", "blob"}

\* Storage without a value, and that of a torn holder whose destructor ran.
Nothing == {<< >>, <<"twice", "twice">>}

HolderRecords == [alive : BOOLEAN, tag : HolderTags, storage : Nothing \cup {<<v>> : v \in Contents},
                  ptr : Cells \cup {0}]

\* What a program expects of a holder.
Expectations == Contents \cup {"nothing", "torn"}

\* An optional: valid with a value in its storage, or empty with none.
OptionalSound(s, x) ==
  /\ s.tag \in {"valid", "empty"} /\ (~s.alive => s.tag = "empty") /\ x # "torn"
  /\ s.tag = "empty" => s.storage = << >> /\ (s.alive => x \in {"nothing", "moved"})
  /\ s.tag = "valid" => x \in Contents /\ s.storage = <<x>>

\* A static_variant has a value of the type its tag names all its life, unless it was torn.
StaticSound(s, x) ==
  /\ x # "torn" /\ ~s.alive => s.storage = << >>
  /\ x # "torn" /\ s.alive => /\ x \in Contents /\ s.storage = <<x>> /\ s.tag \in {"plain", "pointer", "blob"}
                               /\ (x # "moved" => s.tag = type_of(x))
  /\ x = "torn" /\ s.alive => s.storage = << >>

\* A variant has nothing, a value of its own, a pointer to one, or a pointer to some blob.
VariantSound(s, x, cells) ==
  /\ x # "torn"
  /\ IF s.alive THEN s.tag \in {"null", "plain", "pointer", "blob"} ELSE s.tag = "empty"
  /\ s.tag = "null" => x \in {"nothing", "moved"}
  /\ s.tag = "plain" => x \in PlainValues /\ s.storage = <<x>>
  /\ s.tag = "pointer" => s.ptr \in Cells /\ cells[s.ptr] = x /\ x \in PointedValues
  /\ s.tag = "blob" => s.ptr \in Cells /\ cells[s.ptr] \in BlobValues /\ x \in BlobValues

\* Each cell in use, but for the blobs, has one variant that points at it.
HeapSound(hs, cells) ==
  /\ \A c \in Cells : cells[c] \in PointedValues => \E h \in Slots : hs[h].tag = "pointer" /\ hs[h].ptr = c
  /\ \A g, h \in Slots : hs[g].tag = "pointer" /\ hs[h].tag = "pointer" /\ hs[g].ptr = hs[h].ptr
                           => g = h

HoldersTypes(hs, xs, cells) ==
  /\ hs \in [Slots -> HolderRecords]
  /\ xs \in [Slots -> Expectations]
  /\ cells \in [Cells -> PointedValues \cup BlobValues \cup {"free"}]

VariantsSound(hs, xs, cells) ==
  /\ HoldersTypes(hs, xs, cells) /\ HeapSound(hs, cells)
  /\ \A h \in Slots : VariantSound(hs[h], xs[h], cells)

\* The inductive invariant.
HoldersInv ==
  /\ holder_kind \in {"optional", "static_variant", "variant"}
  /\ HoldersTypes(holders, expected, heap)
  /\ holder_kind = "optional" => \A h \in Slots : OptionalSound(holders[h], expected[h])
  /\ holder_kind = "static_variant" => \A h \in Slots : StaticSound(holders[h], expected[h])
  /\ holder_kind = "variant" => VariantsSound(holders, expected, heap)
  /\ holder_kind # "variant" => \A c \in Cells : heap[c] = "free"

-----------------------------------------------------------------------------
(***************************************************************************)
(* The operations on one holder.                                           *)
(***************************************************************************)

\* The types of values, and the marks, are apart.
LEMMA ValuesApart ==
    /\ \A v \in HeldValues : v \notin Marks /\ v \in Contents /\ v # "torn"
    /\ Contents \subseteq Expectations /\ "nothing" \in Expectations /\ "torn" \in Expectations
    /\ "torn" \notin Contents
    /\ \A v \in BlobValues : /\ v \in HeldValues /\ type_of(v) = "blob"
                             /\ v \notin PointedValues /\ v \notin PlainValues
    /\ \A v \in PlainValues : v \in HeldValues /\ type_of(v) = "plain"
    /\ \A v \in PointedValues : v \in HeldValues /\ type_of(v) = "pointer"
    /\ "moved" \in Contents /\ "nothing" \notin Contents /\ "moved" \notin HeldValues
  BY HoldersAssumption DEF HeldValues, Contents, Expectations, Marks, type_of

\* Constructing into empty storage, and destroying what is there.
LEMMA Storage ==
    ASSUME NEW s \in HolderRecords
    PROVE  /\ \A v \in Contents : s.storage = << >> =>
                 /\ construct(s, v) \in HolderRecords /\ construct(s, v).storage = <<v>>
                 /\ construct(s, v).alive = s.alive /\ construct(s, v).tag = s.tag
           /\ \A v \in Contents : s.storage = <<v>> =>
                 /\ destruct(s) \in HolderRecords /\ destruct(s).storage = << >>
                 /\ destruct(s).alive = s.alive /\ destruct(s).tag = s.tag
                 /\ moved_from(s) \in HolderRecords /\ moved_from(s).storage = <<"moved">>
                 /\ moved_from(s).alive = s.alive /\ moved_from(s).tag = s.tag
<1>1. \A v : Append(<< >>, v) = <<v>> /\ Tail(<<v>>) = << >> /\ <<v>> # << >>
  OBVIOUS
<1>2. ASSUME NEW v \in Contents, s.storage = << >>
      PROVE  /\ construct(s, v) \in HolderRecords /\ construct(s, v).storage = <<v>>
             /\ construct(s, v).alive = s.alive /\ construct(s, v).tag = s.tag
             /\ construct(s, v).ptr = s.ptr
  BY <1>1, <1>2 DEF construct, HolderRecords
<1>3. ASSUME NEW v \in Contents, s.storage = <<v>>
      PROVE  /\ destruct(s) \in HolderRecords /\ destruct(s).storage = << >>
             /\ destruct(s).alive = s.alive /\ destruct(s).tag = s.tag
  <2>1. destruct(s) = [s EXCEPT !.storage = << >>]
    BY <1>1, <1>3 DEF destruct
  <2>2. << >> \in Nothing
    BY DEF Nothing
  <2> QED
    BY <2>1, <2>2 DEF HolderRecords
<1>4. ASSUME NEW v \in Contents, s.storage = <<v>>
      PROVE  /\ moved_from(s) \in HolderRecords /\ moved_from(s).storage = <<"moved">>
             /\ moved_from(s).alive = s.alive /\ moved_from(s).tag = s.tag
  <2>1. moved_from(s) = [s EXCEPT !.storage = <<"moved">>]
    BY <1>1, <1>4 DEF moved_from
  <2>2. <<"moved">> \in {<<w>> : w \in Contents}
    BY ValuesApart
  <2> QED
    BY <2>1, <2>2 DEF HolderRecords
<1> QED
  BY <1>2, <1>3, <1>4

\* The tags.
LEMMA TagsAre ==
    /\ "empty" \in HolderTags /\ "valid" \in HolderTags /\ "null" \in HolderTags
    /\ "plain" \in HolderTags /\ "pointer" \in HolderTags /\ "blob" \in HolderTags
    /\ << >> \in Nothing /\ <<"twice", "twice">> \in Nothing
    /\ TRUE \in BOOLEAN /\ FALSE \in BOOLEAN
  BY DEF HolderTags, Nothing

\* A holder that is not there.
LEMMA FreshIs ==
    /\ Fresh \in HolderRecords /\ ~Fresh.alive /\ Fresh.tag = "empty" /\ Fresh.storage = << >>
  BY DEF Fresh, HolderRecords, HolderTags, Nothing

\* reset leaves nothing.
LEMMA ResetSound ==
    ASSUME NEW s \in HolderRecords, NEW x, NEW y \in {"nothing", "moved"}, OptionalSound(s, x)
    PROVE  /\ reset(s) \in HolderRecords /\ OptionalSound(reset(s), y) /\ reset(s).alive = s.alive
           /\ reset(s).tag = "empty" /\ reset(s).storage = << >>
<1>1. CASE s.tag = "valid"
  <2> DEFINE d == destruct(s)
  <2>1. d \in HolderRecords /\ d.storage = << >> /\ d.alive = s.alive
    BY <1>1, Storage DEF OptionalSound
  <2>2. reset(s) = [d EXCEPT !.tag = "empty"]
    BY <1>1 DEF reset
  <2> HIDE DEF d
  <2>3. /\ reset(s) \in HolderRecords /\ reset(s).tag = "empty" /\ reset(s).alive = s.alive
        /\ reset(s).storage = << >>
    BY <2>1, <2>2, TagsAre DEF HolderRecords
  <2> QED
    BY <2>3 DEF OptionalSound
<1>2. CASE s.tag = "empty"
  <2>1. reset(s) = s
    BY <1>2 DEF reset
  <2> QED
    BY <1>2, <2>1 DEF OptionalSound
<1> QED
  BY <1>1, <1>2 DEF OptionalSound

\* An optional gets a value where it has none.
LEMMA FilledSound ==
    ASSUME NEW s \in HolderRecords, NEW v \in Contents, NEW b \in BOOLEAN, s.storage = << >>, b
    PROVE  /\ [construct(s, v) EXCEPT !.alive = b, !.tag = "valid"] \in HolderRecords
           /\ OptionalSound([construct(s, v) EXCEPT !.alive = b, !.tag = "valid"], v)
           /\ s.alive => /\ [construct(s, v) EXCEPT !.tag = "valid"] \in HolderRecords
                         /\ OptionalSound([construct(s, v) EXCEPT !.tag = "valid"], v)
<1> DEFINE d == construct(s, v)
<1>1. d \in HolderRecords /\ d.storage = <<v>> /\ d.alive = s.alive
  BY Storage
<1> HIDE DEF d
<1> DEFINE a == [d EXCEPT !.alive = b, !.tag = "valid"]
           c == [d EXCEPT !.tag = "valid"]
<1>2. /\ a \in HolderRecords /\ a.tag = "valid" /\ a.alive = b /\ a.storage = <<v>>
      /\ c \in HolderRecords /\ c.tag = "valid" /\ c.alive = s.alive /\ c.storage = <<v>>
  BY <1>1, TagsAre DEF HolderRecords
<1> HIDE DEF a, c
<1>3. OptionalSound(a, v) /\ (s.alive => OptionalSound(c, v))
  BY <1>2, ValuesApart DEF OptionalSound
<1> QED
  BY <1>2, <1>3 DEF a, c, d

\* The constructors and assignments of optional.
LEMMA OptionalOps ==
    ASSUME NEW s \in HolderRecords, NEW x, OptionalSound(s, x), s.alive,
           NEW o \in HolderRecords, NEW y, OptionalSound(o, y), o.alive
    PROVE  /\ \A v \in HeldValues : /\ optional_of(v) \in HolderRecords /\ OptionalSound(optional_of(v), v)
                                    /\ optional_assign(s, v) \in HolderRecords
                                    /\ OptionalSound(optional_assign(s, v), v)
           /\ optional_copy(o) \in HolderRecords /\ OptionalSound(optional_copy(o), y)
           /\ optional_copy_assign(s, o) \in HolderRecords
           /\ OptionalSound(optional_copy_assign(s, o), y)
           /\ optional_move_assign(s, o)[1] \in HolderRecords
           /\ OptionalSound(optional_move_assign(s, o)[1], y)
           /\ optional_move_assign(s, o)[2] \in HolderRecords
           /\ OptionalSound(optional_move_assign(s, o)[2], "moved")
<1>1. ASSUME NEW v \in Contents
      PROVE  /\ optional_of(v) \in HolderRecords /\ OptionalSound(optional_of(v), v)
             /\ optional_assign(s, v) \in HolderRecords /\ OptionalSound(optional_assign(s, v), v)
  <2>1. optional_of(v) \in HolderRecords /\ OptionalSound(optional_of(v), v)
    BY FreshIs, FilledSound DEF optional_of
  <2>2. reset(s) \in HolderRecords /\ reset(s).storage = << >> /\ reset(s).alive
    BY ResetSound
  <2>3. optional_assign(s, v) \in HolderRecords /\ OptionalSound(optional_assign(s, v), v)
    BY <2>2, FilledSound DEF optional_assign
  <2> QED
    BY <2>1, <2>3
<1>2. optional_copy(o) \in HolderRecords /\ OptionalSound(optional_copy(o), y)
  <2>1. CASE o.tag = "valid"
    <3>1. o.storage[1] = y /\ y \in Contents
      BY <2>1 DEF OptionalSound
    <3>2. optional_copy(o) = [construct(Fresh, y) EXCEPT !.alive = TRUE, !.tag = "valid"]
      BY <2>1, <3>1 DEF optional_copy
    <3> DEFINE b == TRUE
    <3>3. b \in BOOLEAN /\ b
      OBVIOUS
    <3>4. /\ [construct(Fresh, y) EXCEPT !.alive = b, !.tag = "valid"] \in HolderRecords
          /\ OptionalSound([construct(Fresh, y) EXCEPT !.alive = b, !.tag = "valid"], y)
      <4> HIDE DEF b
      <4> QED
        BY <3>1, <3>3, FreshIs, FilledSound
    <3> QED
      BY <3>2, <3>4
  <2>2. CASE o.tag = "empty"
    <3>1. optional_copy(o) = [Fresh EXCEPT !.alive = TRUE, !.tag = "empty"]
      BY <2>2 DEF optional_copy
    <3>2. /\ optional_copy(o) \in HolderRecords /\ optional_copy(o).storage = << >>
          /\ optional_copy(o).tag = "empty"
      BY <3>1, FreshIs, TagsAre DEF HolderRecords
    <3> QED
      BY <2>2, <3>2 DEF OptionalSound
  <2> QED
    BY <2>1, <2>2 DEF OptionalSound
<1>3. s.tag \in {"valid", "empty"} /\ o.tag \in {"valid", "empty"}
  BY DEF OptionalSound
<1>4. CASE s.tag = "valid" /\ o.tag = "valid"
  <2> DEFINE t == [s EXCEPT !.storage = o.storage]
  <2>1. t \in HolderRecords /\ t.storage = o.storage /\ t.tag = "valid" /\ t.alive
    BY <1>4 DEF HolderRecords
  <2>2. OptionalSound(t, y)
    BY <1>4, <2>1 DEF OptionalSound
  <2>3. reset(o) \in HolderRecords /\ OptionalSound(reset(o), "moved")
    BY ResetSound
  <2>4. optional_copy_assign(s, o) = t /\ optional_move_assign(s, o) = <<t, reset(o)>>
    BY <1>4 DEF optional_copy_assign, optional_move_assign
  <2> HIDE DEF t
  <2> QED
    BY <1>1, <1>2, <2>1, <2>2, <2>3, <2>4, ValuesApart
<1>5. CASE s.tag = "empty" /\ o.tag = "valid"
  <2>1. o.storage = <<y>> /\ o.storage[1] = y /\ y \in Contents
    BY <1>5 DEF OptionalSound
  <2> DEFINE t == [construct(s, y) EXCEPT !.tag = "valid"]
  <2>2. t \in HolderRecords /\ OptionalSound(t, y)
    <3>1. s.storage = << >>
      BY <1>5 DEF OptionalSound
    <3> QED
      BY <2>1, <3>1, FilledSound, TagsAre
  <2>3. optional_copy_assign(s, o) = t
    BY <1>5, <2>1 DEF optional_copy_assign
  <2>4. optional_move_assign(s, o) = <<optional_assign(s, y), moved_from(o)>>
    BY <1>5, <2>1 DEF optional_move_assign
  <2>5. moved_from(o) \in HolderRecords /\ OptionalSound(moved_from(o), "moved")
    BY <1>5, <2>1, Storage, ValuesApart DEF OptionalSound
  <2> HIDE DEF t
  <2> QED
    BY <1>1, <1>2, <2>1, <2>2, <2>3, <2>4, <2>5, ValuesApart
<1>6. CASE o.tag = "empty"
  <2>1. y \in {"nothing", "moved"}
    BY <1>6 DEF OptionalSound
  <2>2. reset(s) \in HolderRecords /\ OptionalSound(reset(s), y)
    BY <2>1, ResetSound
  <2>3. optional_copy_assign(s, o) = reset(s) /\ optional_move_assign(s, o) = <<reset(s), o>>
    BY <1>6 DEF optional_copy_assign, optional_move_assign
  <2>4. OptionalSound(o, "moved")
    BY <1>6 DEF OptionalSound
  <2> QED
    BY <1>1, <1>2, <2>2, <2>3, <2>4, ValuesApart
<1> QED
  BY <1>3, <1>4, <1>5, <1>6

\* init finds empty storage.
LEMMA InitSound ==
    ASSUME NEW d \in HolderRecords, d.storage = << >>, NEW v \in HeldValues
    PROVE  init(d, v) \in HolderRecords /\ StaticSound(init(d, v), v)
<1> DEFINE c == construct(d, v)
<1>1. c \in HolderRecords /\ c.storage = <<v>> /\ v \in Contents
  BY Storage, ValuesApart
<1>2. type_of(v) \in {"plain", "pointer", "blob"} /\ type_of(v) \in HolderTags /\ v # "torn"
  BY TagsAre, ValuesApart DEF type_of
<1>3. init(d, v) = [c EXCEPT !.tag = type_of(v), !.alive = TRUE]
  BY DEF init
<1> HIDE DEF c
<1>4. /\ init(d, v) \in HolderRecords /\ init(d, v).storage = <<v>> /\ init(d, v).alive
      /\ init(d, v).tag = type_of(v)
  BY <1>1, <1>2, <1>3 DEF HolderRecords
<1> QED
  BY <1>1, <1>2, <1>4 DEF StaticSound

\* del finds a value of the type its tag names, a copy finds empty storage.
LEMMA StaticOps ==
    ASSUME NEW s \in HolderRecords, NEW x, StaticSound(s, x),
           NEW o \in HolderRecords, NEW y, StaticSound(o, y), o.alive, y # "torn",
           NEW d \in HolderRecords, d.storage = << >>
    PROVE  /\ s.alive /\ x # "torn" => del(s) \in HolderRecords /\ del(s).storage = << >>
           /\ copied_from(d, o) \in HolderRecords /\ StaticSound(copied_from(d, o), y)
           /\ moved_from(o) \in HolderRecords /\ StaticSound(moved_from(o), "moved")
<1>1. ASSUME s.alive, x # "torn" PROVE del(s) \in HolderRecords /\ del(s).storage = << >>
  <2>1. x \in Contents /\ s.storage = <<x>> /\ s.storage[1] = x /\ (x # "moved" => type_of(x) = s.tag)
    BY <1>1 DEF StaticSound
  <2>2. del(s) = destruct(s)
    BY <2>1 DEF del
  <2> QED
    BY <2>1, <2>2, Storage
<1>2. copied_from(d, o) \in HolderRecords /\ StaticSound(copied_from(d, o), y)
  <2>1. /\ y \in Contents /\ o.storage = <<y>> /\ o.storage[1] = y /\ o.tag \in {"plain", "pointer", "blob"}
        /\ (y # "moved" => o.tag = type_of(y)) /\ o.tag \in HolderTags
    BY TagsAre DEF StaticSound
  <2> DEFINE c == construct(d, y)
  <2>2. c \in HolderRecords /\ c.storage = <<y>>
    BY <2>1, Storage
  <2>3. copied_from(d, o) = [c EXCEPT !.tag = o.tag, !.alive = TRUE]
    BY <2>1 DEF copied_from
  <2> HIDE DEF c
  <2>4. /\ copied_from(d, o) \in HolderRecords /\ copied_from(d, o).storage = <<y>>
        /\ copied_from(d, o).alive /\ copied_from(d, o).tag = o.tag
    BY <2>1, <2>2, <2>3 DEF HolderRecords
  <2> QED
    BY <2>1, <2>4 DEF StaticSound
<1>3. moved_from(o) \in HolderRecords /\ StaticSound(moved_from(o), "moved")
  <2>1. y \in Contents /\ o.storage = <<y>> /\ o.tag \in {"plain", "pointer", "blob"}
    BY DEF StaticSound
  <2> QED
    BY <2>1, Storage, ValuesApart DEF StaticSound
<1> QED
  BY <1>1, <1>2, <1>3

-----------------------------------------------------------------------------
(***************************************************************************)
(* The operations on variants and on the heap.                             *)
(***************************************************************************)

\* One holder that is no pointer, before or after, does not matter to the heap.
LEMMA PlainPut ==
    ASSUME NEW hs, NEW xs, NEW cells, VariantsSound(hs, xs, cells),
           NEW h \in Slots, hs[h].tag # "pointer",
           NEW s \in HolderRecords, s.tag # "pointer", NEW x \in Expectations,
           VariantSound(s, x, cells)
    PROVE  VariantsSound([hs EXCEPT ![h] = s], [xs EXCEPT ![h] = x], cells)
<1> DEFINE ht == [hs EXCEPT ![h] = s]
           xt == [xs EXCEPT ![h] = x]
<1>1. /\ ht \in [Slots -> HolderRecords] /\ xt \in [Slots -> Expectations]
      /\ ht[h] = s /\ xt[h] = x /\ \A g \in Slots \ {h} : ht[g] = hs[g] /\ xt[g] = xs[g]
  BY DEF VariantsSound, HoldersTypes
<1> HIDE DEF ht, xt
<1>2. HeapSound(ht, cells)
  BY <1>1 DEF VariantsSound, HeapSound
<1>3. \A g \in Slots : VariantSound(ht[g], xt[g], cells)
  BY <1>1 DEF VariantsSound
<1>4. VariantsSound(ht, xt, cells)
  BY <1>1, <1>2, <1>3 DEF VariantsSound, HoldersTypes
<1> QED
  BY <1>4 DEF ht, xt

\* clear: the cell of a pointer is freed, and nobody else points at it.
LEMMA ClearSound ==
    ASSUME NEW hs, NEW xs, NEW cells, VariantsSound(hs, xs, cells),
           NEW h \in Slots, hs[h].alive, NEW x \in {"nothing", "moved"}
    PROVE  VariantsSound([hs EXCEPT ![h] = cleared(hs[h])], [xs EXCEPT ![h] = x],
                         after_clear(hs[h], cells))
<1> DEFINE s == hs[h]
           n == cleared(s)
           ht == [hs EXCEPT ![h] = n]
           xt == [xs EXCEPT ![h] = x]
           ct == after_clear(s, cells)
<1>1. s \in HolderRecords /\ VariantSound(s, xs[h], cells) /\ x \in Expectations
  BY ValuesApart DEF VariantsSound, HoldersTypes
<1>2. n \in HolderRecords /\ n.tag = "null" /\ n.alive
  BY <1>1, TagsAre DEF cleared, HolderRecords
<1>3. /\ ht \in [Slots -> HolderRecords] /\ xt \in [Slots -> Expectations]
      /\ ht[h] = n /\ xt[h] = x /\ \A g \in Slots \ {h} : ht[g] = hs[g] /\ xt[g] = xs[g]
  BY <1>1, <1>2 DEF VariantsSound, HoldersTypes
<1>4. /\ ct \in [Cells -> PointedValues \cup BlobValues \cup {"free"}]
      /\ \A c \in Cells : (s.tag = "pointer" /\ c = s.ptr) => ct[c] = "free"
      /\ \A c \in Cells : ~(s.tag = "pointer" /\ c = s.ptr) => ct[c] = cells[c]
  <2>1. CASE s.tag = "pointer"
    <3>1. s.ptr \in Cells /\ cells[s.ptr] \in PointedValues
      BY <1>1, <2>1 DEF VariantSound
    <3>2. cells[s.ptr] # "free"
      BY <3>1, ValuesApart DEF Marks
    <3>3. ct = [cells EXCEPT ![s.ptr] = "free"]
      BY <2>1, <3>1, <3>2 DEF after_clear, freed, VariantsSound, HoldersTypes
    <3> HIDE DEF s, ct
    <3> QED
      BY <2>1, <3>1, <3>3 DEF VariantsSound, HoldersTypes
  <2>2. CASE s.tag # "pointer"
    BY <2>2 DEF after_clear, VariantsSound, HoldersTypes
  <2> QED
    BY <2>1, <2>2
<1> HIDE DEF n, ht, xt, ct
<1>5. HeapSound(ht, ct)
  <2>1. ASSUME NEW c \in Cells, ct[c] \in PointedValues
        PROVE  \E g \in Slots : ht[g].tag = "pointer" /\ ht[g].ptr = c
    <3>1. cells[c] \in PointedValues /\ ~(s.tag = "pointer" /\ c = s.ptr)
      BY <1>4, <2>1, ValuesApart DEF Marks
    <3>2. PICK g \in Slots : hs[g].tag = "pointer" /\ hs[g].ptr = c
      BY <3>1 DEF VariantsSound, HeapSound
    <3>3. g # h
      BY <3>1, <3>2
    <3> QED
      BY <1>3, <3>2, <3>3
  <2>2. \A a, g \in Slots : ht[a].tag = "pointer" /\ ht[g].tag = "pointer" /\ ht[a].ptr = ht[g].ptr
                             => a = g
    <3>1. \A g \in Slots : ht[g].tag = "pointer" => g # h /\ ht[g] = hs[g]
      BY <1>2, <1>3
    <3> QED
      BY <3>1 DEF VariantsSound, HeapSound
  <2> QED
    BY <2>1, <2>2 DEF HeapSound
<1>6. ASSUME NEW g \in Slots PROVE VariantSound(ht[g], xt[g], ct)
  <2>1. CASE g = h
    BY <1>2, <1>3, <2>1 DEF VariantSound
  <2>2. CASE g # h
    <3>1. VariantSound(hs[g], xs[g], cells)
      BY DEF VariantsSound
    <3>2. hs[g].tag \in {"pointer", "blob"} => ct[hs[g].ptr] = cells[hs[g].ptr]
      <4>1. hs[g].tag = "pointer" => hs[g].ptr \in Cells /\ ~(s.tag = "pointer" /\ hs[g].ptr = s.ptr)
        BY <2>2, <3>1 DEF VariantsSound, HeapSound, VariantSound
      <4>2. hs[g].tag = "blob" => hs[g].ptr \in Cells /\ ~(s.tag = "pointer" /\ hs[g].ptr = s.ptr)
        BY <1>1, <3>1, ValuesApart DEF VariantSound
      <4> QED
        BY <1>4, <4>1, <4>2
    <3> QED
      BY <1>3, <2>2, <3>1, <3>2 DEF VariantSound
  <2> QED
    BY <2>1, <2>2
<1>7. VariantsSound(ht, xt, ct)
  BY <1>3, <1>4, <1>5, <1>6 DEF VariantsSound, HoldersTypes
<1> QED
  BY <1>7 DEF ht, xt, ct, n, s

\* A cell that nobody uses, and the variant that points at it.
LEMMA PutAt ==
    ASSUME NEW hs, NEW xs, NEW cells, VariantsSound(hs, xs, cells),
           NEW h \in Slots, hs[h].tag # "pointer", NEW v \in HeldValues, type_of(v) # "plain",
           NEW c \in Cells, cells[c] = "free",
           NEW n \in HolderRecords, n.alive = TRUE, n.tag = type_of(v), n.ptr = c
    PROVE  VariantsSound([hs EXCEPT ![h] = n], [xs EXCEPT ![h] = v], [cells EXCEPT ![c] = v])
<1> DEFINE ct == [cells EXCEPT ![c] = v]
           ht == [hs EXCEPT ![h] = n]
           xt == [xs EXCEPT ![h] = v]
<1>1. v \in Expectations /\ v # "torn" /\ v # "free"
  BY ValuesApart DEF Marks
<1>2. /\ type_of(v) = "pointer" => v \in PointedValues /\ v \notin BlobValues
      /\ type_of(v) = "blob" => v \in BlobValues /\ v \notin PointedValues
      /\ type_of(v) \in {"pointer", "blob"}
  BY ValuesApart DEF type_of, HeldValues
<1>3. /\ ht \in [Slots -> HolderRecords] /\ xt \in [Slots -> Expectations]
      /\ ht[h] = n /\ xt[h] = v /\ \A g \in Slots \ {h} : ht[g] = hs[g] /\ xt[g] = xs[g]
  BY <1>1 DEF VariantsSound, HoldersTypes
<1>4. /\ ct \in [Cells -> PointedValues \cup BlobValues \cup {"free"}] /\ ct[c] = v
      /\ \A b \in Cells \ {c} : ct[b] = cells[b]
  BY <1>2 DEF VariantsSound, HoldersTypes
<1> HIDE DEF ht, xt, ct
<1>5. \A g \in Slots : hs[g].tag \in {"pointer", "blob"} => hs[g].ptr \in Cells \ {c}
  <2>1. \A g \in Slots : VariantSound(hs[g], xs[g], cells)
    BY DEF VariantsSound
  <2>2. "free" \notin PointedValues /\ "free" \notin BlobValues
    BY ValuesApart DEF Marks
  <2> QED
    BY <2>1, <2>2 DEF VariantSound
<1>6. HeapSound(ht, ct)
  <2>1. ASSUME NEW b \in Cells, ct[b] \in PointedValues
        PROVE  \E g \in Slots : ht[g].tag = "pointer" /\ ht[g].ptr = b
    <3>1. CASE b = c
      BY <1>2, <1>3, <1>4, <2>1, <3>1
    <3>2. CASE b # c
      <4>1. PICK g \in Slots : hs[g].tag = "pointer" /\ hs[g].ptr = b
        BY <1>4, <2>1, <3>2 DEF VariantsSound, HeapSound
      <4> QED
        BY <1>3, <4>1
    <3> QED
      BY <3>1, <3>2
  <2>2. ASSUME NEW a \in Slots, NEW g \in Slots, ht[a].tag = "pointer", ht[g].tag = "pointer",
               ht[a].ptr = ht[g].ptr
        PROVE  a = g
    <3>1. CASE a # h /\ g # h
      BY <1>3, <2>2, <3>1 DEF VariantsSound, HeapSound
    <3>2. CASE a = h \/ g = h
      BY <1>3, <1>5, <2>2, <3>2
    <3> QED
      BY <3>1, <3>2
  <2> QED
    BY <2>1, <2>2 DEF HeapSound
<1>7. ASSUME NEW g \in Slots PROVE VariantSound(ht[g], xt[g], ct)
  <2>1. CASE g = h
    BY <1>1, <1>2, <1>3, <1>4, <2>1 DEF VariantSound
  <2>2. CASE g # h
    <3>1. VariantSound(hs[g], xs[g], cells)
      BY DEF VariantsSound
    <3>2. hs[g].tag \in {"pointer", "blob"} => ct[hs[g].ptr] = cells[hs[g].ptr]
      BY <1>4, <1>5
    <3> QED
      BY <1>3, <2>2, <3>1, <3>2 DEF VariantSound
  <2> QED
    BY <2>1, <2>2
<1>8. VariantsSound(ht, xt, ct)
  BY <1>3, <1>4, <1>6, <1>7 DEF VariantsSound, HoldersTypes
<1> QED
  BY <1>8 DEF ht, xt, ct

\* A new value is the variant's own or goes to a cell that nobody uses.
LEMMA PutSound ==
    ASSUME NEW hs, NEW xs, NEW cells, VariantsSound(hs, xs, cells),
           NEW h \in Slots, hs[h].tag # "pointer",
           NEW s \in HolderRecords, NEW v \in HeldValues, fits(v, cells)
    PROVE  VariantsSound([hs EXCEPT ![h] = variant_of(s, v, cells).s], [xs EXCEPT ![h] = v],
                         variant_of(s, v, cells).heap)
<1>1. v \in Expectations /\ v # "torn"
  BY ValuesApart
<1>2. CASE type_of(v) = "plain"
  <2> DEFINE n == [s EXCEPT !.alive = TRUE, !.tag = "plain", !.storage = <<v>>]
  <2>1. variant_of(s, v, cells).s = n /\ variant_of(s, v, cells).heap = cells
    BY <1>2 DEF variant_of, Outcome
  <2>2. n \in HolderRecords /\ n.alive /\ n.tag = "plain" /\ n.storage = <<v>>
    BY ValuesApart, TagsAre DEF HolderRecords
  <2>3. v \in PlainValues
    BY <1>2 DEF type_of
  <2> HIDE DEF n
  <2>4. VariantSound(n, v, cells)
    BY <1>1, <2>2, <2>3 DEF VariantSound
  <2> QED
    BY <1>1, <2>1, <2>2, <2>4, PlainPut
<1>3. CASE type_of(v) # "plain"
  <2> DEFINE c == room(cells)
             n == [s EXCEPT !.alive = TRUE, !.tag = type_of(v), !.ptr = c]
  <2>1. variant_of(s, v, cells).s = n /\ variant_of(s, v, cells).heap = [cells EXCEPT ![c] = v]
    BY <1>3 DEF variant_of, Outcome
  <2>2. c \in Cells /\ cells[c] = "free"
    BY <1>3 DEF fits, room
  <2>3. type_of(v) \in HolderTags
    BY TagsAre DEF type_of
  <2> HIDE DEF c
  <2>4. n \in HolderRecords /\ n.alive = TRUE /\ n.tag = type_of(v) /\ n.ptr = c
    BY <2>2, <2>3 DEF HolderRecords
  <2> HIDE DEF n
  <2>5. VariantsSound([hs EXCEPT ![h] = n], [xs EXCEPT ![h] = v], [cells EXCEPT ![c] = v])
    BY <1>3, <2>2, <2>4, PutAt
  <2> QED
    BY <2>1, <2>5
<1> QED
  BY <1>2, <1>3

\* Through a reference: a string, an array or an object is changed for one variant, a blob for all
\* that lead to it.
LEMMA WriteSound ==
    ASSUME NEW hs, NEW xs, NEW cells, VariantsSound(hs, xs, cells),
           NEW h \in Slots, hs[h].tag \in {"pointer", "blob"},
           NEW v \in HeldValues, type_of(v) = hs[h].tag
    PROVE  VariantsSound(hs, [xs EXCEPT ![h] = v], [cells EXCEPT ![hs[h].ptr] = v])
<1> DEFINE c == hs[h].ptr
           ct == [cells EXCEPT ![c] = v]
           xt == [xs EXCEPT ![h] = v]
<1>1. v \in Expectations /\ v # "torn"
  BY ValuesApart
<1>2. /\ type_of(v) = "pointer" => v \in PointedValues /\ v \notin BlobValues
      /\ type_of(v) = "blob" => v \in BlobValues /\ v \notin PointedValues
  BY ValuesApart DEF type_of, HeldValues
<1>3. \A g \in Slots : VariantSound(hs[g], xs[g], cells)
  BY DEF VariantsSound
<1>4. c \in Cells
  BY <1>3 DEF VariantSound
<1>5. /\ xt \in [Slots -> Expectations] /\ xt[h] = v /\ \A g \in Slots \ {h} : xt[g] = xs[g]
      /\ hs \in [Slots -> HolderRecords]
  BY <1>1 DEF VariantsSound, HoldersTypes
<1>6. /\ ct \in [Cells -> PointedValues \cup BlobValues \cup {"free"}] /\ ct[c] = v
      /\ \A b \in Cells \ {c} : ct[b] = cells[b]
  BY <1>2, <1>4 DEF VariantsSound, HoldersTypes
<1>7. c = hs[h].ptr
  OBVIOUS
<1> HIDE DEF c, ct, xt
<1>8. HeapSound(hs, ct)
  <2>1. ASSUME NEW b \in Cells, ct[b] \in PointedValues
        PROVE  \E g \in Slots : hs[g].tag = "pointer" /\ hs[g].ptr = b
    <3>1. CASE b = c
      BY <1>2, <1>6, <1>7, <2>1, <3>1
    <3>2. CASE b # c
      BY <1>6, <2>1, <3>2 DEF VariantsSound, HeapSound
    <3> QED
      BY <3>1, <3>2
  <2> QED
    BY <2>1 DEF VariantsSound, HeapSound
<1>9. ASSUME NEW g \in Slots PROVE VariantSound(hs[g], xt[g], ct)
  <2>1. CASE g = h
    BY <1>1, <1>2, <1>3, <1>5, <1>6, <1>7, <2>1 DEF VariantSound
  <2>2. CASE g # h
    <3>1. VariantSound(hs[g], xs[g], cells) /\ VariantSound(hs[h], xs[h], cells)
      BY <1>3
    <3>2. CASE hs[g].tag = "pointer"
      <4>1. hs[g].ptr # c
        <5>1. hs[h].tag = "pointer" => hs[g].ptr # c
          BY <1>7, <2>2, <3>2 DEF VariantsSound, HeapSound
        <5>2. hs[h].tag = "blob" => hs[g].ptr # c
          BY <1>7, <3>1, <3>2, ValuesApart DEF VariantSound
        <5> QED
          BY <5>1, <5>2
      <4>2. ct[hs[g].ptr] = cells[hs[g].ptr]
        BY <1>6, <3>1, <3>2, <4>1 DEF VariantSound
      <4> QED
        BY <1>5, <2>2, <3>1, <3>2, <4>2 DEF VariantSound
    <3>3. CASE hs[g].tag = "blob"
      <4>1. hs[g].ptr \in Cells /\ cells[hs[g].ptr] \in BlobValues
        BY <3>1, <3>3 DEF VariantSound
      <4>2. hs[g].ptr = c => v \in BlobValues
        BY <1>2, <1>7, <3>1, <4>1, ValuesApart DEF VariantSound
      <4>3. ct[hs[g].ptr] \in BlobValues
        BY <1>6, <4>1, <4>2
      <4> QED
        BY <1>5, <2>2, <3>1, <3>3, <4>1, <4>3 DEF VariantSound
    <3>4. CASE hs[g].tag \notin {"pointer", "blob"}
      BY <1>5, <2>2, <3>1, <3>4 DEF VariantSound
    <3> QED
      BY <3>2, <3>3, <3>4
  <2> QED
    BY <2>1, <2>2
<1>10. VariantsSound(hs, xt, ct)
  BY <1>5, <1>6, <1>8, <1>9 DEF VariantsSound, HoldersTypes
<1> QED
  BY <1>10 DEF c, xt, ct

\* The bytes of a variant move, with the pointer if it is one, and the source is null.
LEMMA MoveSound ==
    ASSUME NEW hs, NEW xs, NEW cells, VariantsSound(hs, xs, cells),
           NEW h \in Slots, hs[h].tag # "pointer", NEW g \in Slots \ {h}, hs[g].alive
    PROVE  VariantsSound([hs EXCEPT ![h] = hs[g], ![g] = [hs[g] EXCEPT !.tag = "null"]],
                         [xs EXCEPT ![h] = xs[g], ![g] = "moved"], cells)
<1> DEFINE n == [hs[g] EXCEPT !.tag = "null"]
           ht == [hs EXCEPT ![h] = hs[g], ![g] = n]
           xt == [xs EXCEPT ![h] = xs[g], ![g] = "moved"]
<1>1. hs[g] \in HolderRecords /\ \A a \in Slots : VariantSound(hs[a], xs[a], cells)
  BY DEF VariantsSound, HoldersTypes
<1>2. n \in HolderRecords /\ n.alive /\ n.tag = "null"
  BY <1>1, TagsAre DEF HolderRecords
<1> HIDE DEF n
<1>3. /\ ht \in [Slots -> HolderRecords] /\ xt \in [Slots -> Expectations]
      /\ ht[h] = hs[g] /\ xt[h] = xs[g] /\ ht[g] = n /\ xt[g] = "moved"
      /\ \A a \in Slots \ {h, g} : ht[a] = hs[a] /\ xt[a] = xs[a]
  BY <1>1, <1>2, ValuesApart DEF VariantsSound, HoldersTypes
<1> HIDE DEF ht, xt
<1>4. HeapSound(ht, cells)
  <2>1. ASSUME NEW c \in Cells, cells[c] \in PointedValues
        PROVE  \E a \in Slots : ht[a].tag = "pointer" /\ ht[a].ptr = c
    <3>1. PICK a \in Slots : hs[a].tag = "pointer" /\ hs[a].ptr = c
      BY <2>1 DEF VariantsSound, HeapSound
    <3>2. CASE a = g
      BY <1>3, <3>1, <3>2
    <3>3. CASE a # g
      BY <1>3, <3>1, <3>3
    <3> QED
      BY <3>2, <3>3
  <2>2. ASSUME NEW a \in Slots, NEW b \in Slots, ht[a].tag = "pointer", ht[b].tag = "pointer",
               ht[a].ptr = ht[b].ptr
        PROVE  a = b
    <3>1. a # g /\ b # g
      BY <1>2, <1>3, <2>2
    <3>2. \A c, d \in Slots : hs[c].tag = "pointer" /\ hs[d].tag = "pointer" /\ hs[c].ptr = hs[d].ptr
                              => c = d
      BY DEF VariantsSound, HeapSound
    <3> QED
      BY <1>3, <2>2, <3>1, <3>2
  <2> QED
    BY <2>1, <2>2 DEF HeapSound
<1>5. ASSUME NEW a \in Slots PROVE VariantSound(ht[a], xt[a], cells)
  <2>1. CASE a = g
    BY <1>2, <1>3, <2>1 DEF VariantSound
  <2>2. CASE a # g
    BY <1>1, <1>3, <2>2
  <2> QED
    BY <2>1, <2>2
<1>6. VariantsSound(ht, xt, cells)
  BY <1>3, <1>4, <1>5 DEF VariantsSound, HoldersTypes
<1> QED
  BY <1>6 DEF ht, xt, n

-----------------------------------------------------------------------------
(***************************************************************************)
(* The steps, by the kind of the holders.                                  *)
(***************************************************************************)

\* One or two holders change, and are as they should be.
LEMMA OthersKept ==
    ASSUME HoldersInv, holder_kind' = holder_kind, heap' = heap,
           NEW h \in Slots, NEW g \in Slots,
           NEW s \in HolderRecords, NEW x \in Expectations,
           NEW t \in HolderRecords, NEW y \in Expectations,
           \/ holder_kind = "optional" /\ OptionalSound(s, x) /\ OptionalSound(t, y)
           \/ holder_kind = "static_variant" /\ StaticSound(s, x) /\ StaticSound(t, y),
           \/ holders' = [holders EXCEPT ![h] = s] /\ expected' = [expected EXCEPT ![h] = x]
           \/ /\ holders' = [holders EXCEPT ![h] = s, ![g] = t]
              /\ expected' = [expected EXCEPT ![h] = x, ![g] = y]
    PROVE  HoldersInv'
<1>1. HoldersTypes(holders, expected, heap)
  BY DEF HoldersInv
<1>2. HoldersTypes(holders', expected', heap')
  BY <1>1 DEF HoldersTypes
<1>3. \A a \in Slots : \/ holders'[a] = s /\ expected'[a] = x
                       \/ holders'[a] = t /\ expected'[a] = y
                       \/ holders'[a] = holders[a] /\ expected'[a] = expected[a]
  BY <1>1 DEF HoldersTypes
<1>4. CASE holder_kind = "optional"
  <2>1. \A a \in Slots : OptionalSound(holders'[a], expected'[a])
    BY <1>3, <1>4 DEF HoldersInv
  <2> QED
    BY <1>2, <1>4, <2>1 DEF HoldersInv
<1>5. CASE holder_kind = "static_variant"
  <2>1. \A a \in Slots : StaticSound(holders'[a], expected'[a])
    BY <1>3, <1>5 DEF HoldersInv
  <2> QED
    BY <1>2, <1>5, <2>1 DEF HoldersInv
<1> QED
  BY <1>4, <1>5

\* Steps of optionals.
LEMMA OptionalStep ==
    ASSUME HoldersInv, holder_kind = "optional", HoldersNext
    PROVE  HoldersInv'
<1>1. /\ \A a \in Slots : /\ holders[a] \in HolderRecords /\ OptionalSound(holders[a], expected[a])
                          /\ expected[a] \in Expectations
  BY DEF HoldersInv, HoldersTypes
<1>2. \A v \in HeldValues : v \in Expectations
  BY ValuesApart
<1>3. "nothing" \in Expectations /\ "moved" \in Expectations
  BY ValuesApart
<1>4. ASSUME NEW h \in Slots, default_construct(h) PROVE HoldersInv'
  <2> DEFINE s == [Fresh EXCEPT !.alive = TRUE]
  <2>1. /\ holders' = [holders EXCEPT ![h] = s] /\ expected' = [expected EXCEPT ![h] = "nothing"]
        /\ heap' = heap /\ holder_kind' = holder_kind
    BY <1>4 DEF default_construct, becomes
  <2>2. s \in HolderRecords /\ s.tag = "empty" /\ s.storage = << >>
    BY FreshIs DEF HolderRecords
  <2> HIDE DEF s
  <2>3. OptionalSound(s, "nothing")
    BY <2>2 DEF OptionalSound
  <2> QED
    BY <1>3, <2>1, <2>2, <2>3, OthersKept
<1>5. ASSUME NEW h \in Slots, NEW v \in HeldValues, assign_throws(h, v) PROVE HoldersInv'
  <2> DEFINE s == reset(holders[h])
  <2>1. /\ holders' = [holders EXCEPT ![h] = s] /\ expected' = [expected EXCEPT ![h] = "nothing"]
        /\ heap' = heap /\ holder_kind' = holder_kind
    BY <1>5 DEF assign_throws, becomes
  <2>2. s \in HolderRecords /\ OptionalSound(s, "nothing")
    BY <1>1, ResetSound
  <2> HIDE DEF s
  <2> QED
    BY <1>3, <2>1, <2>2, OthersKept
<1>6. ASSUME NEW h \in Slots, destroy(h) PROVE HoldersInv'
  <2> DEFINE r == reset(holders[h])
             s == [r EXCEPT !.alive = FALSE, !.tag = "empty"]
  <2>1. /\ holders' = [holders EXCEPT ![h] = s] /\ expected' = [expected EXCEPT ![h] = "nothing"]
        /\ heap' = heap /\ holder_kind' = holder_kind
    BY <1>1, <1>6 DEF destroy, OptionalSound
  <2>2. r \in HolderRecords /\ r.storage = << >>
    BY <1>1, ResetSound
  <2> HIDE DEF r
  <2>3. s \in HolderRecords /\ s.tag = "empty" /\ s.storage = << >>
    BY <2>2, TagsAre DEF HolderRecords
  <2> HIDE DEF s
  <2>4. OptionalSound(s, "nothing")
    BY <2>3 DEF OptionalSound
  <2> QED
    BY <1>3, <2>1, <2>3, <2>4, OthersKept
<1>7. ASSUME NEW h \in Slots, NEW v \in HeldValues, construct_from(h, v) PROVE HoldersInv'
  <2> DEFINE s == optional_of(v)
  <2>1. /\ holders' = [holders EXCEPT ![h] = s] /\ expected' = [expected EXCEPT ![h] = v]
        /\ heap' = heap /\ holder_kind' = holder_kind
    BY <1>7 DEF construct_from, living, becomes
  <2>2. s \in HolderRecords /\ OptionalSound(s, v)
    BY <1>2, FreshIs, FilledSound, ValuesApart DEF optional_of
  <2> HIDE DEF s
  <2> QED
    BY <1>2, <2>1, <2>2, OthersKept
<1>8. ASSUME NEW h \in Slots, NEW v \in HeldValues, assign(h, v) PROVE HoldersInv'
  <2> DEFINE s == optional_assign(holders[h], v)
  <2>1. /\ holders' = [holders EXCEPT ![h] = s] /\ expected' = [expected EXCEPT ![h] = v]
        /\ heap' = heap /\ holder_kind' = holder_kind /\ holders[h].alive
    BY <1>8 DEF assign, living, becomes
  <2>2. s \in HolderRecords /\ OptionalSound(s, v)
    BY <1>1, <2>1, OptionalOps
  <2> HIDE DEF s
  <2> QED
    BY <1>2, <2>1, <2>2, OthersKept
<1>9. ASSUME NEW h \in Slots, NEW g \in Slots, copy_construct(h, g) PROVE HoldersInv'
  <2> DEFINE s == optional_copy(holders[g])
  <2>1. /\ holders' = [holders EXCEPT ![h] = s] /\ expected' = [expected EXCEPT ![h] = expected[g]]
        /\ heap' = heap /\ holder_kind' = holder_kind /\ holders[g].alive
    BY <1>9 DEF copy_construct, living, becomes
  <2>2. s \in HolderRecords /\ OptionalSound(s, expected[g])
    BY <1>1, <2>1, OptionalOps
  <2> HIDE DEF s
  <2> QED
    BY <1>1, <2>1, <2>2, OthersKept
<1>10. ASSUME NEW h \in Slots, NEW g \in Slots \ {h}, move_construct(h, g) PROVE HoldersInv'
  <2> DEFINE s == optional_copy(holders[g])
             t == reset(holders[g])
  <2>1. /\ holders' = [holders EXCEPT ![h] = s, ![g] = t]
        /\ expected' = [expected EXCEPT ![h] = expected[g], ![g] = "moved"]
        /\ heap' = heap /\ holder_kind' = holder_kind /\ holders[g].alive
    BY <1>10 DEF move_construct, living, HoldersInv, HoldersTypes
  <2>2. s \in HolderRecords /\ OptionalSound(s, expected[g])
    BY <1>1, <2>1, OptionalOps
  <2>3. t \in HolderRecords /\ OptionalSound(t, "moved")
    BY <1>1, ResetSound
  <2> HIDE DEF s, t
  <2> QED
    BY <1>1, <1>3, <2>1, <2>2, <2>3, OthersKept
<1>11. ASSUME NEW h \in Slots, NEW g \in Slots \ {h}, move_assign(h, g) PROVE HoldersInv'
  <2> DEFINE s == optional_move_assign(holders[h], holders[g])[1]
             t == optional_move_assign(holders[h], holders[g])[2]
  <2>1. /\ holders' = [holders EXCEPT ![h] = s, ![g] = t]
        /\ expected' = [expected EXCEPT ![h] = expected[g], ![g] = "moved"]
        /\ heap' = heap /\ holder_kind' = holder_kind /\ holders[g].alive /\ holders[h].alive
    BY <1>11 DEF move_assign, living, HoldersInv, HoldersTypes
  <2>2. /\ s \in HolderRecords /\ OptionalSound(s, expected[g])
        /\ t \in HolderRecords /\ OptionalSound(t, "moved")
    BY <1>1, <2>1, OptionalOps
  <2> HIDE DEF s, t
  <2> QED
    BY <1>1, <1>3, <2>1, <2>2, OthersKept
<1>12. ASSUME NEW h \in Slots, NEW g \in Slots, copy_assign(h, g) PROVE HoldersInv'
  <2> DEFINE s == IF h = g THEN holders[h] ELSE optional_copy_assign(holders[h], holders[g])
  <2>1. /\ holders' = [holders EXCEPT ![h] = s] /\ expected' = [expected EXCEPT ![h] = expected[g]]
        /\ heap' = heap /\ holder_kind' = holder_kind /\ holders[h].alive /\ holders[g].alive
    <3>1. CASE h = g
      BY <1>12, <3>1 DEF copy_assign, living, HoldersInv, HoldersTypes
    <3>2. CASE h # g
      BY <1>12, <3>2 DEF copy_assign, living, becomes
    <3> QED
      BY <3>1, <3>2
  <2>2. s \in HolderRecords /\ OptionalSound(s, expected[g])
    BY <1>1, <2>1, OptionalOps
  <2> HIDE DEF s
  <2> QED
    BY <1>1, <2>1, <2>2, OthersKept
<1>13. ASSUME NEW h \in Slots, NEW w \in 0 .. 1, empty(h, w) PROVE HoldersInv'
  <2> DEFINE s == reset(holders[h])
  <2>1. /\ holders' = [holders EXCEPT ![h] = s] /\ expected' = [expected EXCEPT ![h] = "nothing"]
        /\ heap' = heap /\ holder_kind' = holder_kind
    BY <1>13 DEF empty
  <2>2. s \in HolderRecords /\ OptionalSound(s, "nothing")
    BY <1>1, ResetSound
  <2> HIDE DEF s
  <2> QED
    BY <1>3, <2>1, <2>2, OthersKept
<1>14. \A h \in Slots : (\A v \in HeldValues : ~write(h, v)) /\ (\A g \in Slots : ~copy_assign_throws(h, g))
  BY DEF write, copy_assign_throws
<1> QED
  BY <1>4, <1>5, <1>6, <1>7, <1>8, <1>9, <1>10, <1>11, <1>12, <1>13, <1>14 DEF HoldersNext

\* Steps of static_variants.
LEMMA StaticStep ==
    ASSUME HoldersInv, holder_kind = "static_variant", HoldersNext
    PROVE  HoldersInv'
<1>1. /\ \A a \in Slots : /\ holders[a] \in HolderRecords /\ StaticSound(holders[a], expected[a])
                          /\ expected[a] \in Expectations
  BY DEF HoldersInv, HoldersTypes
<1>2. \A v \in HeldValues : v \in Expectations
  BY ValuesApart
<1>3. "nothing" \in Expectations /\ "moved" \in Expectations /\ "torn" \in Expectations
  BY ValuesApart
<1>4. \A w : default_of(w) \in HeldValues
  BY HoldersAssumption DEF default_of, HeldValues
<1>5. \A d \in HolderRecords, v \in HeldValues : d.storage = << >> =>
         init(d, v) \in HolderRecords /\ StaticSound(init(d, v), v)
  BY InitSound
<1>6. \A a \in Slots : living(a) =>
         /\ del(holders[a]) \in HolderRecords /\ del(holders[a]).storage = << >>
         /\ moved_from(holders[a]) \in HolderRecords /\ StaticSound(moved_from(holders[a]), "moved")
  BY <1>1, StaticOps, FreshIs DEF living
<1>7. ASSUME NEW g \in Slots, living(g), NEW d \in HolderRecords, d.storage = << >>
      PROVE  copied_from(d, holders[g]) \in HolderRecords
             /\ StaticSound(copied_from(d, holders[g]), expected[g])
  BY <1>1, <1>7, StaticOps DEF living
<1>8. ASSUME NEW h \in Slots, default_construct(h) PROVE HoldersInv'
  <2> DEFINE v == default_of(0)
             s == init(Fresh, v)
  <2>1. /\ holders' = [holders EXCEPT ![h] = s] /\ expected' = [expected EXCEPT ![h] = v]
        /\ heap' = heap /\ holder_kind' = holder_kind
    BY <1>8 DEF default_construct, becomes
  <2>2. v \in HeldValues /\ s \in HolderRecords /\ StaticSound(s, v)
    BY <1>4, <1>5, FreshIs
  <2> HIDE DEF s, v
  <2> QED
    BY <1>2, <2>1, <2>2, OthersKept
<1>9. ASSUME NEW h \in Slots, destroy(h) PROVE HoldersInv'
  <2> DEFINE r == del(holders[h])
             s == [r EXCEPT !.alive = FALSE, !.tag = "empty"]
             x == IF expected[h] = "torn" THEN "torn" ELSE "nothing"
  <2>1. /\ holders' = [holders EXCEPT ![h] = s] /\ expected' = [expected EXCEPT ![h] = x]
        /\ heap' = heap /\ holder_kind' = holder_kind /\ holders[h].alive
    BY <1>9 DEF destroy
  <2>2. CASE expected[h] # "torn"
    <3>1. r \in HolderRecords /\ r.storage = << >> /\ x = "nothing"
      BY <1>6, <2>1, <2>2 DEF living
    <3> HIDE DEF r
    <3>2. s \in HolderRecords /\ ~s.alive /\ s.storage = << >>
      BY <3>1, TagsAre DEF HolderRecords
    <3> HIDE DEF s
    <3>3. StaticSound(s, "nothing")
      BY <3>2 DEF StaticSound
    <3> QED
      BY <1>3, <2>1, <3>1, <3>2, <3>3, OthersKept
  <2>3. CASE expected[h] = "torn"
    <3>1. holders[h] \in HolderRecords /\ holders[h].storage = << >> /\ x = "torn"
      BY <1>1, <2>1, <2>3 DEF StaticSound
    <3>2. r = [holders[h] EXCEPT !.storage = <<"twice", "twice">>]
      BY <3>1 DEF del, destruct
    <3>3. r \in HolderRecords
      BY <3>1, <3>2, TagsAre DEF HolderRecords
    <3> HIDE DEF r
    <3>4. s \in HolderRecords /\ ~s.alive
      BY <3>3, TagsAre DEF HolderRecords
    <3> HIDE DEF s
    <3>5. StaticSound(s, "torn")
      BY <3>4 DEF StaticSound
    <3> QED
      BY <1>3, <2>1, <3>1, <3>4, <3>5, OthersKept
  <2> QED
    BY <2>2, <2>3
<1>10. ASSUME NEW h \in Slots, NEW v \in HeldValues, construct_from(h, v) PROVE HoldersInv'
  <2> DEFINE s == init(Fresh, v)
  <2>1. /\ holders' = [holders EXCEPT ![h] = s] /\ expected' = [expected EXCEPT ![h] = v]
        /\ heap' = heap /\ holder_kind' = holder_kind
    BY <1>10 DEF construct_from, becomes
  <2>2. s \in HolderRecords /\ StaticSound(s, v)
    BY <1>5, FreshIs
  <2> HIDE DEF s
  <2> QED
    BY <1>2, <2>1, <2>2, OthersKept
<1>11. ASSUME NEW h \in Slots, NEW v \in HeldValues, assign(h, v) PROVE HoldersInv'
  <2> DEFINE d == del(holders[h])
             s == init(d, v)
  <2>1. /\ holders' = [holders EXCEPT ![h] = s] /\ expected' = [expected EXCEPT ![h] = v]
        /\ heap' = heap /\ holder_kind' = holder_kind /\ living(h)
    BY <1>11 DEF assign, becomes, static_variant_assign
  <2>2. s \in HolderRecords /\ StaticSound(s, v)
    BY <1>5, <1>6, <2>1
  <2> HIDE DEF s
  <2> QED
    BY <1>2, <2>1, <2>2, OthersKept
<1>12. ASSUME NEW h \in Slots, NEW g \in Slots, copy_construct(h, g) PROVE HoldersInv'
  <2> DEFINE s == copied_from(Fresh, holders[g])
  <2>1. /\ holders' = [holders EXCEPT ![h] = s] /\ expected' = [expected EXCEPT ![h] = expected[g]]
        /\ heap' = heap /\ holder_kind' = holder_kind /\ living(g)
    BY <1>12 DEF copy_construct, becomes
  <2>2. s \in HolderRecords /\ StaticSound(s, expected[g])
    BY <1>7, <2>1, FreshIs
  <2> HIDE DEF s
  <2> QED
    BY <1>1, <2>1, <2>2, OthersKept
<1>13. ASSUME NEW h \in Slots, NEW g \in Slots \ {h}, move_construct(h, g) \/ move_assign(h, g)
       PROVE  HoldersInv'
  <2> DEFINE t == moved_from(holders[g])
  <2>1. PICK d \in HolderRecords :
          /\ d.storage = << >>
          /\ holders' = [holders EXCEPT ![h] = copied_from(d, holders[g]), ![g] = t]
          /\ expected' = [expected EXCEPT ![h] = expected[g], ![g] = "moved"]
          /\ heap' = heap /\ holder_kind' = holder_kind /\ living(g)
    <3>1. CASE move_construct(h, g)
      BY <3>1, FreshIs DEF move_construct, HoldersInv, HoldersTypes
    <3>2. CASE move_assign(h, g)
      <4>1. del(holders[h]) \in HolderRecords /\ del(holders[h]).storage = << >>
        BY <1>6, <3>2 DEF move_assign
      <4> QED
        BY <3>2, <4>1 DEF move_assign, HoldersInv, HoldersTypes
    <3> QED
      BY <1>13, <3>1, <3>2
  <2> DEFINE s == copied_from(d, holders[g])
  <2>2. s \in HolderRecords /\ StaticSound(s, expected[g])
    BY <1>7, <2>1
  <2>3. t \in HolderRecords /\ StaticSound(t, "moved")
    BY <1>6, <2>1
  <2>4. holders' = [holders EXCEPT ![h] = s, ![g] = t]
    BY <2>1
  <2> HIDE DEF s, t
  <2> QED
    BY <1>1, <1>3, <2>1, <2>2, <2>3, <2>4, OthersKept
<1>14. ASSUME NEW h \in Slots, NEW g \in Slots, copy_assign(h, g) PROVE HoldersInv'
  <2> DEFINE s == IF h = g THEN holders[h] ELSE copied_from(del(holders[h]), holders[g])
  <2>1. /\ holders' = [holders EXCEPT ![h] = s] /\ expected' = [expected EXCEPT ![h] = expected[g]]
        /\ heap' = heap /\ holder_kind' = holder_kind /\ living(h) /\ living(g)
    <3>1. CASE h = g
      BY <1>14, <3>1 DEF copy_assign, HoldersInv, HoldersTypes
    <3>2. CASE h # g
      BY <1>14, <3>2 DEF copy_assign, becomes
    <3> QED
      BY <3>1, <3>2
  <2>2. s \in HolderRecords /\ StaticSound(s, expected[g])
    BY <1>1, <1>6, <1>7, <2>1
  <2> HIDE DEF s
  <2> QED
    BY <1>1, <2>1, <2>2, OthersKept
<1>15. ASSUME NEW h \in Slots, NEW w \in 0 .. 1, empty(h, w) PROVE HoldersInv'
  <2> DEFINE v == default_of(w)
             s == init(del(holders[h]), v)
  <2>1. /\ holders' = [holders EXCEPT ![h] = s] /\ expected' = [expected EXCEPT ![h] = v]
        /\ heap' = heap /\ holder_kind' = holder_kind /\ living(h)
    BY <1>15 DEF empty, set_which
  <2>2. v \in HeldValues /\ s \in HolderRecords /\ StaticSound(s, v)
    BY <1>4, <1>5, <1>6, <2>1
  <2> HIDE DEF s, v
  <2> QED
    BY <1>2, <2>1, <2>2, OthersKept
<1>16. ASSUME NEW h \in Slots, NEW v \in HeldValues, assign_throws(h, v) PROVE HoldersInv'
  <2> DEFINE d == del(holders[h])
             s == torn(holders[h], v)
  <2>1. /\ holders' = [holders EXCEPT ![h] = s] /\ expected' = [expected EXCEPT ![h] = "torn"]
        /\ heap' = heap /\ holder_kind' = holder_kind /\ living(h)
    BY <1>16 DEF assign_throws, becomes
  <2>2. d \in HolderRecords /\ d.storage = << >> /\ type_of(v) \in HolderTags
    BY <1>6, <2>1, TagsAre DEF type_of
  <2>3. s = [d EXCEPT !.tag = type_of(v)]
    BY DEF torn
  <2> HIDE DEF d
  <2>4. s \in HolderRecords /\ s.storage = << >>
    BY <2>2, <2>3 DEF HolderRecords
  <2> HIDE DEF s
  <2>5. StaticSound(s, "torn")
    BY <2>4 DEF StaticSound
  <2> QED
    BY <1>3, <2>1, <2>4, <2>5, OthersKept
<1>17. \A h \in Slots : (\A v \in HeldValues : ~write(h, v)) /\ (\A g \in Slots : ~copy_assign_throws(h, g))
  BY DEF write, copy_assign_throws
<1> QED
  BY <1>8, <1>9, <1>10, <1>11, <1>12, <1>13, <1>14, <1>15, <1>16, <1>17 DEF HoldersNext

\* What is put twice in one place.
LEMMA PutTwice ==
    ASSUME NEW S, NEW T, NEW f \in [S -> T], NEW i \in S, NEW a, NEW b, NEW g,
           g = [f EXCEPT ![i] = a]
    PROVE  [g EXCEPT ![i] = b] = [f EXCEPT ![i] = b]
  OBVIOUS

\* Steps of variants.
LEMMA VariantStep ==
    ASSUME HoldersInv, holder_kind = "variant", HoldersNext
    PROVE  HoldersInv'
<1>0. VariantsSound(holders, expected, heap)
  BY DEF HoldersInv
<1>1. \A a \in Slots : /\ holders[a] \in HolderRecords /\ VariantSound(holders[a], expected[a], heap)
                       /\ expected[a] \in Expectations
  BY <1>0 DEF VariantsSound, HoldersTypes
<1>2. /\ \A v \in HeldValues : v \in Expectations
      /\ "nothing" \in Expectations /\ "moved" \in Expectations
  BY ValuesApart
<1>3. ASSUME VariantsSound(holders', expected', heap'), holder_kind' = holder_kind PROVE HoldersInv'
  BY <1>3 DEF HoldersInv, VariantsSound
<1>4. \A a \in Slots : ~holders[a].alive => holders[a].tag # "pointer"
  BY <1>1 DEF VariantSound
<1>15. holders \in [Slots -> HolderRecords] /\ expected \in [Slots -> Expectations]
  BY DEF HoldersInv, HoldersTypes
<1>16. ASSUME NEW h \in Slots, holders[h].alive, NEW n, n = cleared(holders[h]),
              NEW ht, ht = [holders EXCEPT ![h] = n], NEW xt, xt = [expected EXCEPT ![h] = "nothing"]
       PROVE  /\ VariantsSound(ht, xt, after_clear(holders[h], heap))
              /\ ht[h].tag # "pointer" /\ n \in HolderRecords
  <2>1. VariantsSound(ht, xt, after_clear(holders[h], heap))
    BY <1>0, <1>16, ClearSound
  <2>2. n \in HolderRecords /\ n.tag # "pointer"
    BY <1>1, <1>16, TagsAre DEF cleared, HolderRecords
  <2>3. ht[h].tag # "pointer"
    BY <1>15, <1>16, <2>2
  <2> QED
    BY <2>1, <2>2, <2>3
<1>5. ASSUME NEW h \in Slots, default_construct(h) PROVE HoldersInv'
  <2> DEFINE s == [Fresh EXCEPT !.alive = TRUE, !.tag = "null"]
  <2>1. /\ holders' = [holders EXCEPT ![h] = s] /\ expected' = [expected EXCEPT ![h] = "nothing"]
        /\ heap' = heap /\ holder_kind' = holder_kind /\ ~holders[h].alive
    BY <1>5 DEF default_construct, becomes, vacant
  <2>2. s \in HolderRecords /\ s.tag = "null" /\ s.alive
    BY FreshIs, TagsAre DEF HolderRecords
  <2> HIDE DEF s
  <2>3. VariantSound(s, "nothing", heap)
    BY <2>2 DEF VariantSound
  <2>4. VariantsSound([holders EXCEPT ![h] = s], [expected EXCEPT ![h] = "nothing"], heap)
    BY <1>0, <1>2, <1>4, <2>1, <2>2, <2>3, PlainPut
  <2> QED
    BY <1>3, <2>1, <2>4
<1>6. ASSUME NEW h \in Slots, (\E g \in Slots : copy_assign_throws(h, g)) \/ (\E w \in 0 .. 1 : empty(h, w))
      PROVE  HoldersInv'
  <2>1. /\ holders' = [holders EXCEPT ![h] = cleared(holders[h])]
        /\ expected' = [expected EXCEPT ![h] = "nothing"]
        /\ heap' = after_clear(holders[h], heap) /\ holder_kind' = holder_kind /\ holders[h].alive
    BY <1>6 DEF copy_assign_throws, empty, living
  <2> QED
    BY <1>0, <1>3, <2>1, ClearSound
<1>7. ASSUME NEW h \in Slots, destroy(h) PROVE HoldersInv'
  <2> DEFINE s == [Fresh EXCEPT !.alive = FALSE, !.tag = "empty"]
             ct == after_clear(holders[h], heap)
             n == cleared(holders[h])
             ht == [holders EXCEPT ![h] = n]
             xt == [expected EXCEPT ![h] = "nothing"]
  <2>1. /\ holders' = [holders EXCEPT ![h] = s] /\ expected' = [expected EXCEPT ![h] = "nothing"]
        /\ heap' = ct /\ holder_kind' = holder_kind /\ holders[h].alive
    BY <1>1, <1>7 DEF destroy, VariantSound
  <2>2. s \in HolderRecords /\ s.tag = "empty" /\ ~s.alive
    BY FreshIs, TagsAre DEF HolderRecords
  <2>3. /\ VariantsSound(ht, xt, ct) /\ ht[h].tag # "pointer"
        /\ [ht EXCEPT ![h] = s] = [holders EXCEPT ![h] = s]
        /\ [xt EXCEPT ![h] = "nothing"] = [expected EXCEPT ![h] = "nothing"]
    <3>1. /\ n = cleared(holders[h]) /\ ct = after_clear(holders[h], heap)
          /\ ht = [holders EXCEPT ![h] = n] /\ xt = [expected EXCEPT ![h] = "nothing"]
      OBVIOUS
    <3> HIDE DEF s, n, ct, ht, xt
    <3> QED
      BY <1>15, <1>16, <2>1, <3>1, PutTwice
  <2> HIDE DEF s, ct, ht, xt
  <2>4. VariantSound(s, "nothing", ct)
    BY <2>2 DEF VariantSound
  <2>5. VariantsSound([ht EXCEPT ![h] = s], [xt EXCEPT ![h] = "nothing"], ct)
    BY <1>2, <2>2, <2>3, <2>4, PlainPut
  <2> QED
    BY <1>3, <2>1, <2>3, <2>5
<1>8. ASSUME NEW h \in Slots, NEW v \in HeldValues, construct_from(h, v) PROVE HoldersInv'
  <2>1. /\ holders' = [holders EXCEPT ![h] = variant_of(Fresh, v, heap).s]
        /\ expected' = [expected EXCEPT ![h] = v] /\ fits(v, heap)
        /\ heap' = variant_of(Fresh, v, heap).heap /\ holder_kind' = holder_kind /\ ~holders[h].alive
    BY <1>8 DEF construct_from, living, vacant
  <2>2. VariantsSound([holders EXCEPT ![h] = variant_of(Fresh, v, heap).s],
                      [expected EXCEPT ![h] = v], variant_of(Fresh, v, heap).heap)
    BY <1>0, <1>4, <2>1, PutSound, FreshIs
  <2> QED
    BY <1>3, <2>1, <2>2
<1>9. ASSUME NEW h \in Slots, NEW v \in HeldValues, assign(h, v) PROVE HoldersInv'
  <2> DEFINE o == holders[h]
             n == cleared(o)
             ct == after_clear(o, heap)
             ht == [holders EXCEPT ![h] = n]
             xt == [expected EXCEPT ![h] = "nothing"]
             r == variant_of(Fresh, v, heap)
             s == r.s
             cn == after_clear(o, r.heap)
  <2>1. /\ holders' = [holders EXCEPT ![h] = s]
        /\ expected' = [expected EXCEPT ![h] = v] /\ fits(v, heap)
        /\ heap' = cn /\ holder_kind' = holder_kind /\ o.alive
    BY <1>9 DEF assign, living
  <2>2. /\ VariantsSound(ht, xt, ct) /\ ht[h].tag # "pointer"
        /\ [ht EXCEPT ![h] = s] = [holders EXCEPT ![h] = s]
        /\ [xt EXCEPT ![h] = v] = [expected EXCEPT ![h] = v]
    <3>1. /\ n = cleared(holders[h]) /\ ct = after_clear(holders[h], heap)
          /\ ht = [holders EXCEPT ![h] = n] /\ xt = [expected EXCEPT ![h] = "nothing"]
          /\ o = holders[h]
      OBVIOUS
    <3> HIDE DEF s, n, ct, ht, xt, o
    <3> QED
      BY <1>15, <1>16, <2>1, <3>1, PutTwice
  <2>3. VariantsSound([ht EXCEPT ![h] = s], [xt EXCEPT ![h] = v], cn)
    <3>1. CASE type_of(v) = "plain"
      <4>1. s = variant_of(Fresh, v, ct).s /\ cn = variant_of(Fresh, v, ct).heap /\ fits(v, ct)
        BY <3>1 DEF variant_of, Outcome, fits
      <4> HIDE DEF n, ct, ht, xt, s, cn
      <4> QED
        BY <2>2, <4>1, PutSound, FreshIs
    <3>2. CASE type_of(v) # "plain"
      <4> DEFINE c == room(heap)
      <4>1. c \in Cells /\ heap[c] = "free"
        BY <2>1, <3>2 DEF fits, room
      <4>2. s = [Fresh EXCEPT !.alive = TRUE, !.tag = type_of(v), !.ptr = c] /\ r.heap = [heap EXCEPT ![c] = v]
        BY <3>2 DEF variant_of, Outcome
      <4> HIDE DEF c, s, r
      <4>3. type_of(v) \in HolderTags
        BY TagsAre DEF type_of
      <4>4. s \in HolderRecords /\ s.alive = TRUE /\ s.tag = type_of(v) /\ s.ptr = c
        BY <4>1, <4>2, <4>3, FreshIs DEF HolderRecords
      <4>5. ct[c] = "free" /\ cn = [ct EXCEPT ![c] = v]
        <5>1. heap \in [Cells -> PointedValues \cup BlobValues \cup {"free"}]
          BY <1>0 DEF VariantsSound, HoldersTypes
        <5>2. CASE o.tag = "pointer"
          <6>1. o.ptr \in Cells /\ heap[o.ptr] \in PointedValues
            BY <1>1, <5>2 DEF VariantSound
          <6>2. heap[o.ptr] # "free" /\ o.ptr # c
            BY <4>1, <6>1, ValuesApart DEF Marks
          <6>3. ct = [heap EXCEPT ![o.ptr] = "free"]
            BY <5>1, <5>2, <6>1, <6>2 DEF after_clear, freed
          <6>4. r.heap[o.ptr] = heap[o.ptr]
            BY <4>1, <4>2, <5>1, <6>1, <6>2
          <6>5. cn = [r.heap EXCEPT ![o.ptr] = "free"]
            BY <4>2, <5>1, <5>2, <6>1, <6>2, <6>4 DEF after_clear, freed
          <6> HIDE DEF o, ct, cn
          <6> QED
            BY <4>1, <4>2, <5>1, <6>1, <6>2, <6>3, <6>5
        <5>3. CASE o.tag # "pointer"
          <6>1. ct = heap /\ cn = r.heap
            BY <5>3 DEF after_clear
          <6> QED
            BY <4>1, <4>2, <6>1
        <5> QED
          BY <5>2, <5>3
      <4> HIDE DEF n, ct, ht, xt, cn
      <4> QED
        BY <2>2, <3>2, <4>1, <4>4, <4>5, PutAt
    <3> QED
      BY <3>1, <3>2
  <2> HIDE DEF n, ct, ht, xt, s, cn
  <2> QED
    BY <1>3, <2>1, <2>2, <2>3
<1>10. ASSUME NEW h \in Slots, NEW g \in Slots \ {h}, copy_construct(h, g) PROVE HoldersInv'
  <2> DEFINE o == holders[g]
             r == variant_copy(Fresh, o, heap)
  <2>1. /\ holders' = [holders EXCEPT ![h] = r.s] /\ expected' = [expected EXCEPT ![h] = expected[g]]
        /\ heap' = r.heap /\ holder_kind' = holder_kind /\ ~holders[h].alive /\ o.alive
        /\ copy_fits(o, heap)
    BY <1>10 DEF copy_construct, living, vacant
  <2>2. CASE o.tag = "pointer"
    <3> DEFINE v == expected[g]
    <3>1. heap[o.ptr] = v /\ v \in PointedValues /\ v \in HeldValues
      BY <1>1, <2>2, ValuesApart DEF VariantSound
    <3>2. r = variant_of(Fresh, v, heap) /\ fits(v, heap)
      BY <2>1, <2>2, <3>1 DEF variant_copy, copy_fits, fits
    <3> HIDE DEF v, r, o
    <3>3. VariantsSound([holders EXCEPT ![h] = r.s], [expected EXCEPT ![h] = v], r.heap)
      BY <1>0, <1>4, <2>1, <3>1, <3>2, PutSound, FreshIs
    <3> QED
      BY <1>3, <2>1, <3>3 DEF v
  <2>3. CASE o.tag # "pointer"
    <3>1. r.s = o /\ r.heap = heap
      BY <2>3 DEF variant_copy, Outcome
    <3>2. VariantsSound([holders EXCEPT ![h] = o], [expected EXCEPT ![h] = expected[g]], heap)
      BY <1>0, <1>1, <1>4, <2>1, <2>3, PlainPut
    <3> QED
      BY <1>3, <2>1, <3>1, <3>2
  <2> QED
    BY <2>2, <2>3
<1>11. ASSUME NEW h \in Slots, NEW g \in Slots \ {h}, move_construct(h, g) PROVE HoldersInv'
  <2>1. /\ holders' = [holders EXCEPT ![h] = holders[g], ![g] = [holders[g] EXCEPT !.tag = "null"]]
        /\ expected' = [expected EXCEPT ![h] = expected[g], ![g] = "moved"]
        /\ heap' = heap /\ holder_kind' = holder_kind /\ ~holders[h].alive /\ holders[g].alive
    BY <1>11 DEF move_construct, living, vacant, variant_move, HoldersInv, HoldersTypes
  <2> QED
    BY <1>0, <1>3, <1>4, <2>1, MoveSound
<1>12. ASSUME NEW h \in Slots, NEW g \in Slots \ {h}, move_assign(h, g) PROVE HoldersInv'
  <2> DEFINE t == [holders[g] EXCEPT !.tag = "null"]
             ct == after_clear(holders[h], heap)
             n == cleared(holders[h])
             ht == [holders EXCEPT ![h] = n]
             xt == [expected EXCEPT ![h] = "nothing"]
  <2>1. /\ holders' = [holders EXCEPT ![h] = holders[g], ![g] = t]
        /\ expected' = [expected EXCEPT ![h] = expected[g], ![g] = "moved"]
        /\ heap' = ct /\ holder_kind' = holder_kind /\ holders[h].alive /\ holders[g].alive
    BY <1>12 DEF move_assign, living, vacant, variant_move, HoldersInv, HoldersTypes
  <2>2. /\ VariantsSound(ht, xt, ct) /\ ht[h].tag # "pointer"
        /\ ht[g] = holders[g] /\ xt[g] = expected[g]
    <3>1. /\ n = cleared(holders[h]) /\ ct = after_clear(holders[h], heap)
          /\ ht = [holders EXCEPT ![h] = n] /\ xt = [expected EXCEPT ![h] = "nothing"]
      OBVIOUS
    <3>2. holders[h].alive
      BY <2>1
    <3> HIDE DEF n, ct, ht, xt
    <3>3. VariantsSound(ht, xt, ct) /\ ht[h].tag # "pointer"
      BY <1>16, <3>1, <3>2
    <3>4. ht[g] = holders[g] /\ xt[g] = expected[g]
      BY <1>15, <3>1
    <3> QED
      BY <3>3, <3>4
  <2>3. VariantsSound([ht EXCEPT ![h] = ht[g], ![g] = [ht[g] EXCEPT !.tag = "null"]],
                      [xt EXCEPT ![h] = xt[g], ![g] = "moved"], ct)
    <3> HIDE DEF ct, ht, xt
    <3> QED
      BY <2>1, <2>2, MoveSound
  <2>4. [ht EXCEPT ![h] = ht[g], ![g] = [ht[g] EXCEPT !.tag = "null"]] = holders'
    <3>1. [ht EXCEPT ![h] = holders[g], ![g] = t] = [holders EXCEPT ![h] = holders[g], ![g] = t]
      <4> HIDE DEF t
      <4> QED
        BY <1>0 DEF VariantsSound, HoldersTypes
    <3> HIDE DEF ht
    <3> QED
      BY <2>1, <2>2, <3>1
  <2>5. [xt EXCEPT ![h] = xt[g], ![g] = "moved"] = expected'
    BY <1>0, <2>1, <2>2 DEF VariantsSound, HoldersTypes
  <2> HIDE DEF ct, ht, xt
  <2> QED
    BY <1>3, <2>1, <2>3, <2>4, <2>5
<1>13. ASSUME NEW h \in Slots, copy_assign(h, h) PROVE HoldersInv'
  <2>1. holders' = holders /\ expected' = expected /\ heap' = heap /\ holder_kind' = holder_kind
    BY <1>13 DEF copy_assign, living, vacant, HoldersInv, HoldersTypes
  <2> QED
    BY <1>0, <1>3, <2>1
<1>14. ASSUME NEW h \in Slots, NEW g \in Slots \ {h}, copy_assign(h, g) PROVE HoldersInv'
  <2> DEFINE o == holders[g]
             v == expected[g]
             n == cleared(holders[h])
             ct == after_clear(holders[h], heap)
             ht == [holders EXCEPT ![h] = n]
             xt == [expected EXCEPT ![h] = "nothing"]
             r == variant_copy(n, o, ct)
  <2>1. /\ holders' = [holders EXCEPT ![h] = r.s] /\ expected' = [expected EXCEPT ![h] = v]
        /\ heap' = r.heap /\ holder_kind' = holder_kind /\ holders[h].alive /\ o.alive
        /\ copy_fits(o, ct)
    BY <1>14 DEF copy_assign, living, vacant
  <2>2. /\ VariantsSound(ht, xt, ct) /\ ht[h].tag # "pointer" /\ n \in HolderRecords
        /\ [ht EXCEPT ![h] = r.s] = [holders EXCEPT ![h] = r.s]
        /\ [xt EXCEPT ![h] = v] = [expected EXCEPT ![h] = v]
        /\ ht[g] = o /\ xt[g] = v
    <3>1. /\ n = cleared(holders[h]) /\ ct = after_clear(holders[h], heap)
          /\ ht = [holders EXCEPT ![h] = n] /\ xt = [expected EXCEPT ![h] = "nothing"]
      OBVIOUS
    <3> DEFINE s == r.s
    <3>4. holders[h].alive
      BY <2>1
    <3> HIDE DEF s, n, ct, ht, xt
    <3>2. VariantsSound(ht, xt, ct) /\ ht[h].tag # "pointer" /\ n \in HolderRecords
      BY <1>16, <3>1, <3>4
    <3>5. ht[g] = o /\ xt[g] = v
      BY <1>15, <3>1
    <3>3. /\ [ht EXCEPT ![h] = s] = [holders EXCEPT ![h] = s]
          /\ [xt EXCEPT ![h] = v] = [expected EXCEPT ![h] = v]
      BY <1>15, <3>1, PutTwice
    <3> QED
      BY <3>2, <3>3, <3>5 DEF s
  <2>3. VariantSound(o, v, ct) /\ o \in HolderRecords /\ v \in Expectations
    <3> HIDE DEF ct, ht, xt
    <3> QED
      BY <1>1, <2>2 DEF VariantsSound
  <2>4. CASE o.tag = "pointer"
    <3>1. ct[o.ptr] = v /\ heap[o.ptr] = v /\ v \in PointedValues /\ v \in HeldValues
      BY <1>1, <2>3, <2>4, ValuesApart DEF VariantSound
    <3>2. r = variant_of(n, v, ct)
      BY <2>4, <3>1 DEF variant_copy
    <3>3. fits(v, ct)
      BY <2>1, <2>4 DEF copy_fits, fits
    <3> HIDE DEF v, r, o, n, ct, ht, xt
    <3>4. VariantsSound([ht EXCEPT ![h] = r.s], [xt EXCEPT ![h] = v], r.heap)
      BY <2>1, <2>2, <3>1, <3>2, <3>3, PutSound
    <3> QED
      BY <1>3, <2>1, <2>2, <3>4
  <2>5. CASE o.tag # "pointer"
    <3>1. r.s = o /\ r.heap = ct
      BY <2>5 DEF variant_copy, Outcome
    <3> HIDE DEF v, r, o, n, ct, ht, xt
    <3>2. VariantsSound([ht EXCEPT ![h] = r.s], [xt EXCEPT ![h] = v], ct)
      BY <2>2, <2>3, <2>5, <3>1, PlainPut
    <3> QED
      BY <1>3, <2>1, <2>2, <3>1, <3>2
  <2> QED
    BY <2>4, <2>5
<1>17. ASSUME NEW h \in Slots, NEW v \in HeldValues, write(h, v) PROVE HoldersInv'
  <2>1. /\ holders' = holders /\ expected' = [expected EXCEPT ![h] = v]
        /\ heap' = [heap EXCEPT ![holders[h].ptr] = v] /\ holder_kind' = holder_kind
        /\ holders[h].tag \in {"pointer", "blob"} /\ type_of(v) = holders[h].tag
    BY <1>17 DEF write
  <2>2. VariantsSound(holders, [expected EXCEPT ![h] = v], [heap EXCEPT ![holders[h].ptr] = v])
    BY <1>0, <2>1, WriteSound
  <2> QED
    BY <1>3, <2>1, <2>2
<1>18. \A h \in Slots, v \in HeldValues : ~assign_throws(h, v)
  BY DEF assign_throws
<1> QED
  BY <1>5, <1>6, <1>7, <1>8, <1>9, <1>10, <1>11, <1>12, <1>13, <1>14, <1>17, <1>18 DEF HoldersNext

\* Holders are as they should be in every state.
THEOREM HoldersInvariance ==
    HoldersSpec => []HoldersInv
<1>1. HoldersInit => HoldersInv
  <2> SUFFICES ASSUME HoldersInit PROVE HoldersInv
    OBVIOUS
  <2>1. HoldersTypes(holders, expected, heap)
    BY FreshIs, ValuesApart DEF HoldersInit, HoldersTypes
  <2>2. \A h \in Slots : holders[h] = Fresh
    BY DEF HoldersInit
  <2>3. /\ OptionalSound(Fresh, "nothing") /\ StaticSound(Fresh, "nothing")
        /\ VariantSound(Fresh, "nothing", heap)
    BY FreshIs DEF OptionalSound, StaticSound, VariantSound
  <2>4. \A h \in Slots : expected[h] = "nothing"
    BY DEF HoldersInit
  <2>5. \A c \in Cells : heap[c] = "free"
    BY DEF HoldersInit
  <2>6. HeapSound(holders, heap)
    BY <2>2, <2>5, FreshIs, ValuesApart DEF HeapSound, Marks
  <2>7. holder_kind \in {"optional", "static_variant", "variant"}
    BY DEF HoldersInit
  <2> QED
    BY <2>1, <2>2, <2>3, <2>4, <2>5, <2>6, <2>7 DEF HoldersInv, VariantsSound
<1>2. HoldersInv /\ [HoldersNext]_holder_vars => HoldersInv'
  <2>1. ASSUME HoldersInv, HoldersNext PROVE HoldersInv'
    BY <2>1, OptionalStep, StaticStep, VariantStep DEF HoldersInv
  <2>2. ASSUME HoldersInv, UNCHANGED holder_vars PROVE HoldersInv'
    BY <2>2 DEF holder_vars, HoldersInv
  <2> QED
    BY <2>1, <2>2
<1> QED
  BY <1>1, <1>2, PTL DEF HoldersSpec

\* Whatever is constructed, assigned, written, copied, moved, emptied and destroyed, and whenever
\* copying fails: every value that an optional, a variant or a static_variant that no failed assignment
\* tore constructs is destroyed once, no cell of the heap but for those of blobs is lost or has two
\* owners, and a living holder has the value that was put there last, or some blob for a blob.
THEOREM Lifetimes ==
    HoldersSpec => []LifetimesMatched
<1>1. HoldersInv => LifetimesMatched
  <2> SUFFICES ASSUME HoldersInv PROVE LifetimesMatched
    OBVIOUS
  <2> DEFINE pointing == {h \in Slots : holders[h].alive /\ holders[h].tag = "pointer"}
  <2>1. CASE holder_kind = "optional"
    <3>1. ASSUME NEW h \in Slots
          PROVE  /\ holders[h].alive =>
                      \/ value_of(holders[h], heap) = expected[h]
                      \/ expected[h] = "moved" /\ value_of(holders[h], heap) = "nothing"
                 /\ Len(holders[h].storage) =
                      IF holders[h].alive /\ holders[h].tag = "valid" THEN 1 ELSE 0
      <4>1. OptionalSound(holders[h], expected[h])
        BY <2>1 DEF HoldersInv
      <4>2. CASE holders[h].tag = "valid"
        <5>1. holders[h].storage = <<expected[h]>> /\ holders[h].alive
          BY <4>1, <4>2 DEF OptionalSound
        <5>2. value_of(holders[h], heap) = expected[h]
          BY <2>1, <4>2, <5>1 DEF value_of
        <5> QED
          BY <4>2, <5>1, <5>2
      <4>3. CASE holders[h].tag = "empty"
        <5>1. holders[h].storage = << >> /\ (holders[h].alive => expected[h] \in {"nothing", "moved"})
          BY <4>1, <4>3 DEF OptionalSound
        <5>2. value_of(holders[h], heap) = "nothing"
          BY <2>1, <4>3 DEF value_of
        <5> QED
          BY <4>3, <5>1, <5>2
      <4> QED
        BY <4>1, <4>2, <4>3 DEF OptionalSound
    <3>2. \A c \in Cells : heap[c] = "free"
      BY <2>1 DEF HoldersInv
    <3> QED
      BY <2>1, <3>1, <3>2 DEF LifetimesMatched
  <2>2. CASE holder_kind = "static_variant"
    <3>1. ASSUME NEW h \in Slots, expected[h] # "torn"
          PROVE  /\ holders[h].alive => value_of(holders[h], heap) = expected[h]
                 /\ Len(holders[h].storage) = IF holders[h].alive THEN 1 ELSE 0
      <4>1. StaticSound(holders[h], expected[h])
        BY <2>2 DEF HoldersInv
      <4>2. CASE holders[h].alive
        <5>1. holders[h].storage = <<expected[h]>>
          BY <3>1, <4>1, <4>2 DEF StaticSound
        <5>2. value_of(holders[h], heap) = expected[h]
          BY <2>2, <5>1 DEF value_of
        <5> QED
          BY <4>2, <5>1, <5>2
      <4>3. CASE ~holders[h].alive
        BY <3>1, <4>1, <4>3 DEF StaticSound
      <4> QED
        BY <4>2, <4>3
    <3>2. \A c \in Cells : heap[c] = "free"
      BY <2>2 DEF HoldersInv
    <3> QED
      BY <2>2, <3>1, <3>2 DEF LifetimesMatched
  <2>3. CASE holder_kind = "variant"
    <3>0. VariantsSound(holders, expected, heap)
      BY <2>3 DEF HoldersInv
    <3>1. ASSUME NEW h \in Slots, holders[h].alive
          PROVE  \/ value_of(holders[h], heap) = expected[h]
                 \/ expected[h] = "moved" /\ value_of(holders[h], heap) = "nothing"
                 \/ {expected[h], value_of(holders[h], heap)} \subseteq BlobValues
      <4>1. VariantSound(holders[h], expected[h], heap)
        BY <3>0 DEF VariantsSound
      <4> QED
        BY <2>3, <3>1, <4>1 DEF VariantSound, value_of
    <3>2. \A h \in Slots : /\ holders[h].tag = "pointer" => holders[h].alive
                           /\ holders[h].tag = "pointer" =>
                                holders[h].ptr \in Cells /\ heap[holders[h].ptr] \in PointedValues
      BY <3>0 DEF VariantsSound, VariantSound
    <3>3. \A c \in Cells : heap[c] \notin BlobValues \cup {"free"} <=> \E h \in pointing : holders[h].ptr = c
      <4>1. \A c \in Cells : heap[c] \in PointedValues <=> heap[c] \notin BlobValues \cup {"free"}
        BY <3>0, ValuesApart DEF VariantsSound, HoldersTypes, Marks
      <4> QED
        BY <3>0, <3>2, <4>1 DEF VariantsSound, HeapSound
    <3>4. {c \in Cells : heap[c] \notin BlobValues \cup {"free"}} = {holders[h].ptr : h \in pointing}
      BY <3>2, <3>3
    <3>5. \A g, h \in pointing : holders[g].ptr = holders[h].ptr => g = h
      BY <3>0 DEF VariantsSound, HeapSound
    <3> QED
      BY <2>3, <3>1, <3>4, <3>5 DEF LifetimesMatched
  <2> QED
    BY <2>1, <2>2, <2>3 DEF HoldersInv
<1> QED
  BY <1>1, HoldersInvariance, PTL

=============================================================================
