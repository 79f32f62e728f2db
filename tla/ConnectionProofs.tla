--------------------------- MODULE ConnectionProofs ---------------------------
(***************************************************************************)
(* Proofs about JsonConnection and Rpc: for any number of calls, notices,  *)
(* callbacks and messages of other programs.                               *)
(***************************************************************************)
EXTENDS JsonConnection, Rpc, SequenceTheorems, TLAPS

-----------------------------------------------------------------------------
(***************************************************************************)
(* The elements of a sequence.                                             *)
(***************************************************************************)

\* None.
LEMMA NoElements ==
    ToSet(<< >>) = {}
  BY DEF ToSet

\* Those of a sequence, by their places.
LEMMA ElementsOf ==
    ASSUME NEW S, NEW s \in Seq(S)
    PROVE  /\ ToSet(s) \subseteq S
           /\ \A x : x \in ToSet(s) <=> \E i \in 1..Len(s) : x = s[i]
<1>1. s \in [1..Len(s) -> S] /\ DOMAIN s = 1..Len(s)
  BY LenProperties
<1> QED
  BY <1>1 DEF ToSet

\* One more at the end.
LEMMA ElementsOfAppend ==
    ASSUME NEW S, NEW s \in Seq(S), NEW e \in S
    PROVE  /\ Append(s, e) \in Seq(S) /\ Len(Append(s, e)) = Len(s) + 1
           /\ \A i \in 1..Len(s) : Append(s, e)[i] = s[i]
           /\ Append(s, e)[Len(s) + 1] = e
           /\ ToSet(Append(s, e)) = ToSet(s) \cup {e}
<1>1. /\ Append(s, e) \in Seq(S) /\ Len(Append(s, e)) = Len(s) + 1 /\ Len(s) \in Nat
      /\ \A i \in 1..Len(s) : Append(s, e)[i] = s[i]
      /\ Append(s, e)[Len(s) + 1] = e
  BY AppendProperties
<1>2. \A x : x \in ToSet(Append(s, e)) <=> x \in ToSet(s) \/ x = e
  <2>1. \A x : x \in ToSet(Append(s, e)) <=> \E i \in 1..Len(s) + 1 : x = Append(s, e)[i]
    <3> DEFINE t == Append(s, e)
    <3>1. t \in Seq(S) /\ Len(t) = Len(s) + 1
      BY <1>1
    <3> HIDE DEF t
    <3>2. \A x : x \in ToSet(t) <=> \E i \in 1..Len(t) : x = t[i]
      BY <3>1, ElementsOf
    <3> QED
      BY <3>1, <3>2 DEF t
  <2>2. \A x : x \in ToSet(s) <=> \E i \in 1..Len(s) : x = s[i]
    BY ElementsOf
  <2> QED
    BY <1>1, <2>1, <2>2
<1> QED
  BY <1>1, <1>2

\* The first one and the others.
LEMMA ElementsOfTail ==
    ASSUME NEW S, NEW s \in Seq(S), s # << >>
    PROVE  /\ Head(s) \in S /\ Tail(s) \in Seq(S) /\ Head(s) = s[1]
           /\ Len(s) \in Nat \ {0} /\ Len(Tail(s)) = Len(s) - 1
           /\ \A i \in 1..Len(s) - 1 : Tail(s)[i] = s[i + 1]
           /\ ToSet(s) = {Head(s)} \cup ToSet(Tail(s))
<1>1. /\ Head(s) \in S /\ Tail(s) \in Seq(S) /\ Head(s) = s[1]
      /\ Len(s) \in Nat \ {0} /\ Len(Tail(s)) = Len(s) - 1
      /\ \A i \in 1..Len(s) - 1 : Tail(s)[i] = s[i + 1]
  BY HeadTailProperties, EmptySeq
<1>2. \A x : x \in ToSet(s) <=> x = Head(s) \/ x \in ToSet(Tail(s))
  <2>1. \A x : x \in ToSet(s) <=> \E i \in 1..Len(s) : x = s[i]
    BY ElementsOf
  <2>2. \A x : x \in ToSet(Tail(s)) <=> \E i \in 1..Len(s) - 1 : x = Tail(s)[i]
    <3> DEFINE t == Tail(s)
    <3>1. t \in Seq(S) /\ Len(t) = Len(s) - 1
      BY <1>1
    <3> HIDE DEF t
    <3>2. \A x : x \in ToSet(t) <=> \E i \in 1..Len(t) : x = t[i]
      BY <3>1, ElementsOf
    <3> QED
      BY <3>1, <3>2 DEF t
  <2>3. ASSUME NEW x, x \in ToSet(s) PROVE x = Head(s) \/ x \in ToSet(Tail(s))
    <3>1. PICK i \in 1..Len(s) : x = s[i]
      BY <2>1, <2>3
    <3>2. CASE i = 1
      BY <1>1, <3>1, <3>2
    <3>3. CASE i # 1
      <4>1. i - 1 \in 1..Len(s) - 1 /\ i - 1 + 1 = i
        BY <1>1, <3>3
      <4> QED
        BY <1>1, <2>2, <3>1, <4>1
    <3> QED
      BY <3>2, <3>3
  <2>4. ASSUME NEW x, x \in ToSet(Tail(s)) PROVE x \in ToSet(s)
    <3>1. PICK i \in 1..Len(s) - 1 : x = Tail(s)[i]
      BY <2>2, <2>4
    <3>2. i + 1 \in 1..Len(s)
      BY <1>1
    <3> QED
      BY <1>1, <2>1, <3>1, <3>2
  <2>5. Head(s) \in ToSet(s)
    BY <1>1, <2>1
  <2> QED
    BY <2>3, <2>4, <2>5
<1> QED
  BY <1>1, <1>2

\* Two sequences one after the other.
LEMMA ElementsOfConcat ==
    ASSUME NEW S, NEW s \in Seq(S), NEW t \in Seq(S)
    PROVE  s \o t \in Seq(S) /\ ToSet(s \o t) = ToSet(s) \cup ToSet(t)
<1>1. /\ s \o t \in Seq(S) /\ Len(s \o t) = Len(s) + Len(t) /\ Len(s) \in Nat /\ Len(t) \in Nat
      /\ \A i \in 1..Len(s) + Len(t) :
            (s \o t)[i] = IF i <= Len(s) THEN s[i] ELSE t[i - Len(s)]
  BY ConcatProperties, LenProperties
<1>2. /\ \A x : x \in ToSet(s) <=> \E i \in 1..Len(s) : x = s[i]
      /\ \A x : x \in ToSet(t) <=> \E i \in 1..Len(t) : x = t[i]
      /\ \A x : x \in ToSet(s \o t) <=> \E i \in 1..Len(s) + Len(t) : x = (s \o t)[i]
  <2> DEFINE u == s \o t
  <2>1. u \in Seq(S) /\ Len(u) = Len(s) + Len(t)
    BY <1>1
  <2> HIDE DEF u
  <2>2. \A x : x \in ToSet(u) <=> \E i \in 1..Len(u) : x = u[i]
    BY <2>1, ElementsOf
  <2>3. /\ \A x : x \in ToSet(s) <=> \E i \in 1..Len(s) : x = s[i]
        /\ \A x : x \in ToSet(t) <=> \E i \in 1..Len(t) : x = t[i]
    BY ElementsOf
  <2> QED
    BY <2>1, <2>2, <2>3 DEF u
<1>3. ASSUME NEW x, x \in ToSet(s \o t) PROVE x \in ToSet(s) \cup ToSet(t)
  <2>1. PICK i \in 1..Len(s) + Len(t) : x = (s \o t)[i]
    BY <1>2, <1>3
  <2>2. i <= Len(s) => i \in 1..Len(s)
    BY <1>1
  <2>3. ~(i <= Len(s)) => i - Len(s) \in 1..Len(t)
    BY <1>1
  <2> QED
    BY <1>1, <1>2, <2>1, <2>2, <2>3
<1>4. ASSUME NEW x, x \in ToSet(s) PROVE x \in ToSet(s \o t)
  <2>1. PICK i \in 1..Len(s) : x = s[i]
    BY <1>2, <1>4
  <2>2. i \in 1..Len(s) + Len(t) /\ i <= Len(s)
    BY <1>1
  <2> QED
    BY <1>1, <1>2, <2>1, <2>2
<1>5. ASSUME NEW x, x \in ToSet(t) PROVE x \in ToSet(s \o t)
  <2>1. PICK i \in 1..Len(t) : x = t[i]
    BY <1>2, <1>5
  <2>2. /\ i + Len(s) \in 1..Len(s) + Len(t) /\ ~(i + Len(s) <= Len(s))
        /\ i + Len(s) - Len(s) = i
    BY <1>1
  <2> QED
    BY <1>1, <1>2, <2>1, <2>2
<1> QED
  BY <1>1, <1>3, <1>4, <1>5

\* All but the last one.
LEMMA ElementsOfFront ==
    ASSUME NEW S, NEW s \in Seq(S), s # << >>
    PROVE  Front(s) \in Seq(S) /\ ToSet(Front(s)) \subseteq ToSet(s)
<1>1. Len(s) \in Nat \ {0} /\ \A i \in 1..Len(s) : s[i] \in S
  BY EmptySeq, ElementOfSeq
<1>2. /\ Front(s) \in Seq(S) /\ Len(Front(s)) = Len(s) - 1
      /\ \A i \in 1..Len(s) - 1 : Front(s)[i] = s[i]
  <2>1. /\ SubSeq(s, 1, Len(s) - 1) \in Seq(S)
        /\ Len(SubSeq(s, 1, Len(s) - 1)) = IF 1 <= Len(s) - 1 THEN Len(s) - 1 - 1 + 1 ELSE 0
        /\ \A i \in 1..Len(s) - 1 - 1 + 1 : SubSeq(s, 1, Len(s) - 1)[i] = s[1 + i - 1]
    BY <1>1, SubSeqProperties
  <2> DEFINE t == SubSeq(s, 1, Len(s) - 1)
             n == Len(s)
  <2>2. Front(s) = t
    BY DEF Front
  <2>3. t \in Seq(S) /\ Len(t) = n - 1 /\ \A i \in 1..n - 1 : t[i] = s[1 + i - 1]
    <3>1. n \in Nat \ {0}
      BY <1>1
    <3>2. /\ t \in Seq(S) /\ Len(t) = IF 1 <= n - 1 THEN n - 1 - 1 + 1 ELSE 0
          /\ \A i \in 1..n - 1 - 1 + 1 : t[i] = s[1 + i - 1]
      BY <2>1
    <3> HIDE DEF t, n
    <3>3. n - 1 - 1 + 1 = n - 1 /\ (~(1 <= n - 1) => n - 1 = 0)
      BY <3>1
    <3> QED
      BY <3>2, <3>3
  <2>4. \A i \in 1..n - 1 : 1 + i - 1 = i
    BY <1>1
  <2> HIDE DEF t
  <2> QED
    BY <2>2, <2>3, <2>4
<1>3. \A x : x \in ToSet(Front(s)) <=> \E i \in 1..Len(s) - 1 : x = Front(s)[i]
  BY <1>2, ElementsOf
<1>4. \A x : x \in ToSet(s) <=> \E i \in 1..Len(s) : x = s[i]
  BY ElementsOf
<1> QED
  BY <1>1, <1>2, <1>3, <1>4

\* Some in the middle.
LEMMA ElementsOfSubSeq ==
    ASSUME NEW S, NEW s \in Seq(S), NEW m \in Nat \ {0}, NEW n \in Nat, n <= Len(s), m <= n + 1
    PROVE  /\ SubSeq(s, m, n) \in Seq(S) /\ Len(SubSeq(s, m, n)) = n - m + 1
           /\ \A x : x \in ToSet(SubSeq(s, m, n)) <=> \E k \in m..n : x = s[k]
<1> DEFINE t == SubSeq(s, m, n)
<1>1. Len(s) \in Nat /\ \A k \in 1..Len(s) : s[k] \in S
  BY LenProperties, ElementOfSeq
<1>2. \A k \in m..n : s[k] \in S
  BY <1>1
<1>3. /\ t \in Seq(S) /\ Len(t) = (IF m <= n THEN n - m + 1 ELSE 0)
      /\ \A k \in 1..n - m + 1 : t[k] = s[m + k - 1]
  BY <1>2, SubSeqProperties
<1> HIDE DEF t
<1>4. Len(t) = n - m + 1
  BY <1>3
<1>5. \A x : x \in ToSet(t) <=> \E k \in 1..n - m + 1 : x = t[k]
  BY <1>3, <1>4, ElementsOf
<1>6. ASSUME NEW x, x \in ToSet(t) PROVE \E k \in m..n : x = s[k]
  <2>1. PICK k \in 1..n - m + 1 : x = t[k]
    BY <1>5, <1>6
  <2>2. m + k - 1 \in m..n
    OBVIOUS
  <2> QED
    BY <1>3, <2>1, <2>2
<1>7. ASSUME NEW x, NEW k \in m..n, x = s[k] PROVE x \in ToSet(t)
  <2>1. k - m + 1 \in 1..n - m + 1 /\ m + (k - m + 1) - 1 = k
    OBVIOUS
  <2>2. t[k - m + 1] = s[k]
    BY <1>3, <2>1
  <2> QED
    BY <1>5, <1>7, <2>1, <2>2
<1>8. t \in Seq(S) /\ Len(t) = n - m + 1 /\ \A x : x \in ToSet(t) <=> \E k \in m..n : x = s[k]
  BY <1>3, <1>4, <1>6, <1>7
<1> QED
  BY <1>8 DEF t

\* All but the i-th one.
LEMMA ElementsOfRemoveAt ==
    ASSUME NEW S, NEW s \in Seq(S), NEW i \in 1..Len(s)
    PROVE  /\ RemoveAt(s, i) \in Seq(S) /\ Len(RemoveAt(s, i)) = Len(s) - 1
           /\ s[i] \in S /\ s[i] \in ToSet(s)
           /\ ToSet(RemoveAt(s, i)) \subseteq ToSet(s)
           /\ ToSet(s) \subseteq ToSet(RemoveAt(s, i)) \cup {s[i]}
<1> DEFINE a == SubSeq(s, 1, i - 1)
           b == SubSeq(s, i + 1, Len(s))
<1>1. Len(s) \in Nat /\ s[i] \in S
  BY LenProperties, ElementOfSeq
<1>2. /\ a \in Seq(S) /\ Len(a) = i - 1 - 1 + 1
      /\ \A x : x \in ToSet(a) <=> \E k \in 1..i - 1 : x = s[k]
  <2>1. 1 \in Nat \ {0} /\ i - 1 \in Nat /\ i - 1 <= Len(s) /\ 1 <= i - 1 + 1
    BY <1>1
  <2> QED
    BY <2>1, ElementsOfSubSeq
<1>3. /\ b \in Seq(S) /\ Len(b) = Len(s) - (i + 1) + 1
      /\ \A x : x \in ToSet(b) <=> \E k \in i + 1..Len(s) : x = s[k]
  <2>1. i + 1 \in Nat \ {0} /\ Len(s) \in Nat /\ Len(s) <= Len(s) /\ i + 1 <= Len(s) + 1
    BY <1>1
  <2> QED
    BY <2>1, ElementsOfSubSeq
<1>4. RemoveAt(s, i) = a \o b
  BY DEF RemoveAt
<1> HIDE DEF a, b
<1>5. a \o b \in Seq(S) /\ ToSet(a \o b) = ToSet(a) \cup ToSet(b)
  BY <1>2, <1>3, ElementsOfConcat
<1>6. Len(a \o b) = Len(s) - 1
  <2>1. Len(a \o b) = Len(a) + Len(b)
    BY <1>2, <1>3, ConcatProperties
  <2> QED
    BY <1>1, <1>2, <1>3, <2>1
<1>7. \A x : x \in ToSet(s) <=> \E k \in 1..Len(s) : x = s[k]
  BY ElementsOf
<1>8. \A k : k \in 1..i - 1 \/ k \in i + 1..Len(s) => k \in 1..Len(s)
  BY <1>1
<1>9. \A k \in 1..Len(s) : k \in 1..i - 1 \/ k \in i + 1..Len(s) \/ k = i
  BY <1>1
<1>10. ToSet(a \o b) \subseteq ToSet(s)
  BY <1>2, <1>3, <1>5, <1>7, <1>8
<1>11. ToSet(s) \subseteq ToSet(a \o b) \cup {s[i]}
  BY <1>2, <1>3, <1>5, <1>7, <1>9
<1> QED
  BY <1>1, <1>4, <1>5, <1>6, <1>7, <1>10, <1>11

-----------------------------------------------------------------------------
(***************************************************************************)
(* JsonConnection.                                                         *)
(***************************************************************************)
Ways == {"none", "list", "named"}

Asked == CalledNames \X Ways

SentNames == CalledNames \cup {"m"}

SentWays == Ways \cup {"number"}

Results == {<< >>} \cup (SentNames \X SentWays)

JsonPromises == [asked : Asked, late : BOOLEAN, ready : BOOLEAN, exceptp : BOOLEAN, result : Results]

Loops == {"idle", "reading", "ended", "closed", "canceled"}

JsonMessages == [id : Int, method : SentNames \cup {"absent"}, params : SentWays \cup {"absent"},
                 error : BOOLEAN, result : Results]

\* The state of a pair of json_connections.
JsonTypeOK ==
  /\ methods \in [Sides -> [list : SUBSET AddedNames, named : SUBSET AddedNames]]
  /\ promises \in [Sides -> Seq(JsonPromises)]
  /\ buffer \in [Sides -> Seq(JsonMessages)]
  /\ wire \in [Sides -> Seq(JsonMessages)]
  /\ handlers \in [Sides -> Seq(JsonMessages)]
  /\ newest \in [Sides -> BOOLEAN]
  /\ loop \in [Sides -> Loops]
  /\ closed_with \in [Sides -> Nat]
  /\ sent \in [Sides -> Nat]
  /\ foreign \in Nat

\* The messages for e that have been flushed, and all messages for e.
Coming(e) == ToSet(wire[e]) \cup ToSet(handlers[e])

AllFor(e) == ToSet(buffer[Across(e)]) \cup Coming(e)

\* No call has one of these ids.
NoCall(id) == id \in {NoId, WrongId, MaxRequests}

\* A message that belongs to the call whose id it has: a request is the one that was asked, and a
\* result is one of what was asked.
Belongs(e, msg) ==
  /\ msg.method # "absent" /\ ~NoCall(msg.id) =>
       /\ msg.id + 1 \in 1..Len(promises[Across(e)])
       /\ promises[Across(e)][msg.id + 1].asked = <<msg.method, msg.params>>
  /\ msg.method = "absent" /\ ~NoCall(msg.id) /\ ~msg.error /\ msg.result # << >> =>
       /\ msg.id + 1 \in 1..Len(promises[e])
       /\ msg.result = promises[e][msg.id + 1].asked

MessagesBelong == \A e \in Sides : \A msg \in AllFor(e) : Belongs(e, msg)

\* Something is coming that settles the call with this id.
Settles(e, id) ==
  \/ \E msg \in Coming(Across(e)) : msg.id = id /\ msg.method # "absent"
  \/ \E msg \in Coming(e) : msg.id = id /\ msg.method = "absent" /\ (msg.error \/ msg.result # << >>)

\* A call that returns gives what was asked, and one that waits has something to wait for.
PromiseSettles(e, i) ==
  /\ promises[e][i].ready /\ ~promises[e][i].exceptp => promises[e][i].result = promises[e][i].asked
  /\ ~promises[e][i].ready /\ loop[e] \in {"ended", "closed"} => promises[e][i].late
  /\ ~promises[e][i].ready /\ ~Over(e) /\ ~Over(Across(e)) => Settles(e, i - 1)

PromisesSettle == \A e \in Sides : \A i \in 1..Len(promises[e]) : PromiseSettles(e, i)

CallsCounted == \A e \in Sides : Len(promises[e]) <= sent[e] /\ sent[e] <= MaxRequests

\* What close() would cancel is there, and was read.
NewestThere == \A e \in Sides : newest[e] => handlers[e] # << >> /\ loop[e] # "idle"

\* The inductive invariant.
JsonInv == JsonTypeOK /\ CallsCounted /\ MessagesBelong /\ PromisesSettle /\ NewestThere

\* There are two ends.
LEMMA TwoSides ==
    ASSUME NEW e \in Sides
    PROVE  /\ Across(e) \in Sides /\ Across(e) # e /\ Across(Across(e)) = e
           /\ \A o \in Sides : o = e \/ o = Across(e)
<1>1. Across("left") = "right" /\ Across("right") = "left"
  BY DEF Across, Sides
<1> QED
  BY <1>1 DEF Sides

\* What belongs to a call goes on doing so while calls keep what they asked.
LEMMA BelongsOn ==
    ASSUME JsonInv,
           \A e \in Sides : Len(promises[e]) \in Nat /\ Len(promises'[e]) \in Nat,
           \A e \in Sides : Len(promises[e]) <= Len(promises'[e]),
           \A e \in Sides : \A i \in 1..Len(promises[e]) :
               promises'[e][i].asked = promises[e][i].asked,
           \A e \in Sides : \A msg \in AllFor(e)' : msg \in AllFor(e) \/ Belongs(e, msg)'
    PROVE  MessagesBelong'
<1> SUFFICES ASSUME NEW e \in Sides, NEW msg \in AllFor(e)', msg \in AllFor(e)
             PROVE  Belongs(e, msg)'
  BY DEF MessagesBelong
<1>1. Belongs(e, msg)
  BY DEF JsonInv, MessagesBelong
<1>2. Across(e) \in Sides
  BY TwoSides
<1>3. \A o \in Sides : \A i \in 1..Len(promises[o]) :
         i \in 1..Len(promises'[o]) /\ promises'[o][i].asked = promises[o][i].asked
  OBVIOUS
<1>4. msg.method # "absent" /\ ~NoCall(msg.id) =>
       /\ msg.id + 1 \in 1..Len(promises'[Across(e)])
       /\ promises'[Across(e)][msg.id + 1].asked = <<msg.method, msg.params>>
  BY <1>1, <1>2, <1>3 DEF Belongs
<1>5. msg.method = "absent" /\ ~NoCall(msg.id) /\ ~msg.error /\ msg.result # << >> =>
       /\ msg.id + 1 \in 1..Len(promises'[e])
       /\ msg.result = promises'[e][msg.id + 1].asked
  BY <1>1, <1>3 DEF Belongs
<1> QED
  BY <1>4, <1>5 DEF Belongs, NoCall

\* What a flush brings to the other end, unless it throws.
LEMMA FlushedSays ==
    ASSUME JsonTypeOK, NEW e \in Sides, NEW msg \in JsonMessages, flushed(e, msg)
    PROVE  /\ buffer' \in [Sides -> Seq(JsonMessages)] /\ wire' \in [Sides -> Seq(JsonMessages)]
           /\ buffer'[Across(e)] = buffer[Across(e)] /\ wire'[e] = wire[e]
           /\ \/ out_closed(e) /\ buffer' = buffer /\ wire' = wire
              \/ /\ ~out_closed(e) /\ ToSet(buffer'[e]) = {}
                 /\ ToSet(wire'[Across(e)]) =
                      IF ~Over(Across(e))
                      THEN ToSet(wire[Across(e)]) \cup ToSet(buffer[e]) \cup {msg}
                      ELSE ToSet(wire[Across(e)])
<1>0. CASE out_closed(e)
  BY <1>0 DEF flushed, JsonTypeOK
<1> SUFFICES ASSUME ~out_closed(e)
             PROVE  /\ buffer' \in [Sides -> Seq(JsonMessages)] /\ wire' \in [Sides -> Seq(JsonMessages)]
                    /\ buffer'[Across(e)] = buffer[Across(e)] /\ wire'[e] = wire[e]
                    /\ ToSet(buffer'[e]) = {}
                    /\ ToSet(wire'[Across(e)]) =
                          IF ~Over(Across(e))
                          THEN ToSet(wire[Across(e)]) \cup ToSet(buffer[e]) \cup {msg}
                          ELSE ToSet(wire[Across(e)])
  BY <1>0
<1> DEFINE o == Across(e)
           added == Append(buffer[e], msg)
           w == wire[o] \o added
<1>1. o \in Sides /\ o # e
  BY TwoSides
<1>2. buffer[e] \in Seq(JsonMessages) /\ wire[o] \in Seq(JsonMessages)
  BY <1>1 DEF JsonTypeOK
<1>3. added \in Seq(JsonMessages) /\ ToSet(added) = ToSet(buffer[e]) \cup {msg}
  BY <1>2, ElementsOfAppend
<1> HIDE DEF added
<1>4. w \in Seq(JsonMessages) /\ ToSet(w) = ToSet(wire[o]) \cup ToSet(added)
  BY <1>2, <1>3, ElementsOfConcat
<1>5. /\ buffer' = [buffer EXCEPT ![e] = << >>]
      /\ wire' = IF ~Over(o) THEN [wire EXCEPT ![o] = w] ELSE wire
  BY DEF flushed, reaches, added
<1> HIDE DEF w, o
<1>6. << >> \in Seq(JsonMessages) /\ ToSet(<< >>) = {}
  BY NoElements, EmptySeq
<1>7. /\ buffer \in [Sides -> Seq(JsonMessages)] /\ wire \in [Sides -> Seq(JsonMessages)]
  BY DEF JsonTypeOK
<1>8. /\ buffer' \in [Sides -> Seq(JsonMessages)]
      /\ buffer'[e] = << >> /\ buffer'[o] = buffer[o]
  BY <1>1, <1>5, <1>6, <1>7
<1>9. /\ wire' \in [Sides -> Seq(JsonMessages)] /\ wire'[e] = wire[e]
      /\ wire'[o] = IF ~Over(o) THEN w ELSE wire[o]
  BY <1>1, <1>4, <1>5, <1>7
<1> QED
  BY <1>3, <1>4, <1>6, <1>8, <1>9 DEF o

\* Calls that are settled or about to be stay so when messages are only added.
LEMMA SettleOn ==
    ASSUME JsonInv, promises' = promises,
           \A e \in Sides : loop'[e] = loop[e] \/ (~Over(e) /\ ~Over(e)'),
           \A e \in Sides : Coming(e) \subseteq Coming(e)'
    PROVE  PromisesSettle'
<1> SUFFICES ASSUME NEW e \in Sides, NEW i \in 1..Len(promises[e]) PROVE PromiseSettles(e, i)'
  BY DEF PromisesSettle
<1>1. PromiseSettles(e, i) /\ Across(e) \in Sides
  BY TwoSides DEF JsonInv, PromisesSettle
<1>2. Settles(e, i - 1) => Settles(e, i - 1)'
  BY <1>1 DEF Settles
<1>3. /\ loop'[e] \in {"ended", "closed"} => loop[e] \in {"ended", "closed"}
      /\ \A a \in Sides : Over(a)' = Over(a)
  BY DEF Over
<1> QED
  BY <1>1, <1>2, <1>3 DEF PromiseSettles

\* The promises after close(exception_ptr): each has an exception.
LEMMA ClosedSays ==
    ASSUME JsonTypeOK, NEW e \in Sides, close_all(e)
    PROVE  /\ promises' \in [Sides -> Seq(JsonPromises)] /\ closed_with' \in [Sides -> Nat]
           /\ promises'[Across(e)] = promises[Across(e)] /\ Len(promises'[e]) = Len(promises[e])
           /\ \A i \in 1..Len(promises[e]) :
                 /\ promises'[e][i].asked = promises[e][i].asked
                 /\ promises'[e][i].ready /\ promises'[e][i].exceptp
<1> DEFINE q == promises[e]
           p == [i \in 1..Len(q) |-> set_exception(q[i])]
<1>1. q \in Seq(JsonPromises) /\ Len(q) \in Nat /\ DOMAIN q = 1..Len(q)
      /\ \A i \in 1..Len(q) : q[i] \in JsonPromises
  BY LenProperties, ElementOfSeq DEF JsonTypeOK
<1>2. promises' = [promises EXCEPT ![e] = p] /\ closed_with' = [closed_with EXCEPT ![e] = @ + 1]
  BY <1>1 DEF close_all, closed_promises, JsonTypeOK
<1> HIDE DEF q
<1>3. \A i \in 1..Len(q) :
        /\ p[i] \in JsonPromises /\ p[i].asked = q[i].asked /\ p[i].ready /\ p[i].exceptp
  BY <1>1 DEF set_exception, JsonPromises
<1>4. p \in Seq(JsonPromises) /\ Len(p) = Len(q)
  BY <1>1, <1>3
<1> HIDE DEF p
<1>5. Across(e) \in Sides /\ Across(e) # e
  BY TwoSides
<1>6. promises'[e] = p /\ promises'[Across(e)] = promises[Across(e)]
  BY <1>2, <1>5 DEF JsonTypeOK
<1>7. promises' \in [Sides -> Seq(JsonPromises)] /\ closed_with' \in [Sides -> Nat]
  BY <1>2, <1>4 DEF JsonTypeOK
<1> QED
  BY <1>3, <1>4, <1>6, <1>7 DEF q

\* The lengths of the lists of promises.
LEMMA PromisesCounted ==
    ASSUME JsonInv, NEW e \in Sides
    PROVE  /\ promises[e] \in Seq(JsonPromises) /\ Len(promises[e]) \in Nat
           /\ DOMAIN promises[e] = 1..Len(promises[e])
           /\ Len(promises[e]) <= MaxRequests
           /\ \A i \in 1..Len(promises[e]) : promises[e][i] \in JsonPromises
<1>1. promises[e] \in Seq(JsonPromises) /\ sent[e] \in Nat
  BY DEF JsonInv, JsonTypeOK
<1>2. Len(promises[e]) \in Nat /\ DOMAIN promises[e] = 1..Len(promises[e])
  BY <1>1, LenProperties
<1>3. Len(promises[e]) <= MaxRequests
  <2>1. Len(promises[e]) <= sent[e] /\ sent[e] <= MaxRequests /\ MaxRequests \in Nat
    BY JsonAssumption DEF JsonInv, CallsCounted
  <2> QED
    BY <1>1, <1>2, <2>1
<1> QED
  BY <1>1, <1>2, <1>3, ElementOfSeq

\* Steps that send nothing and settle nothing: methods, exec, and a message that is read.
LEMMA QuietStep ==
    ASSUME JsonInv, NEW e \in Sides,
           \/ \E name \in AddedNames : \/ add_method(e, name) \/ add_named_param_method(e, name)
                                      \/ remove_method(e, name)
           \/ exec(e) \/ read_loop(e)
    PROVE  JsonInv'
<1>1. UNCHANGED <<promises, buffer, closed_with, sent, foreign>>
  BY DEF add_method, add_named_param_method, remove_method, exec, read_loop
<1>2. \A o \in Sides : loop'[o] = loop[o] \/ (~Over(o) /\ ~Over(o)')
  BY DEF add_method, add_named_param_method, remove_method, exec, read_loop, JsonInv, JsonTypeOK, Over
<1>3. /\ methods' \in [Sides -> [list : SUBSET AddedNames, named : SUBSET AddedNames]]
      /\ loop' \in [Sides -> Loops]
  <2> DEFINE m == methods[e]
  <2>1. m \in [list : SUBSET AddedNames, named : SUBSET AddedNames]
    BY DEF JsonInv, JsonTypeOK
  <2>2. ASSUME NEW name \in AddedNames,
               \/ add_method(e, name) \/ add_named_param_method(e, name) \/ remove_method(e, name)
        PROVE  /\ methods' \in [Sides -> [list : SUBSET AddedNames, named : SUBSET AddedNames]]
               /\ loop' = loop
    <3>1. CASE add_method(e, name)
      BY <2>1, <3>1 DEF add_method, JsonInv, JsonTypeOK
    <3>2. CASE add_named_param_method(e, name)
      BY <2>1, <3>2 DEF add_named_param_method, JsonInv, JsonTypeOK
    <3>3. CASE remove_method(e, name)
      <4>1. /\ methods' = [methods EXCEPT ![e] = [list |-> m.list \ {name}, named |-> m.named \ {name}]]
            /\ loop' = loop
        BY <3>3 DEF remove_method
      <4>2. [list |-> m.list \ {name}, named |-> m.named \ {name}]
               \in [list : SUBSET AddedNames, named : SUBSET AddedNames]
        BY <2>1
      <4> HIDE DEF m
      <4> QED
        BY <4>1, <4>2 DEF JsonInv, JsonTypeOK
    <3> QED
      BY <2>2, <3>1, <3>2, <3>3
  <2>3. CASE exec(e) \/ read_loop(e)
    BY <2>3 DEF exec, read_loop, JsonInv, JsonTypeOK, Loops
  <2> QED
    BY <2>2, <2>3 DEF JsonInv, JsonTypeOK
<1>4. /\ wire' \in [Sides -> Seq(JsonMessages)] /\ handlers' \in [Sides -> Seq(JsonMessages)]
      /\ \A o \in Sides : Coming(o)' = Coming(o)
      /\ newest' \in [Sides -> BOOLEAN] /\ NewestThere'
  <2>1. CASE read_loop(e)
    <3> DEFINE w == wire[e]
               h == handlers[e]
    <3>1. w \in Seq(JsonMessages) /\ w # << >> /\ h \in Seq(JsonMessages)
      BY <2>1 DEF read_loop, JsonInv, JsonTypeOK
    <3>2. /\ handlers' = [handlers EXCEPT ![e] = Append(h, Head(w))] /\ wire' = [wire EXCEPT ![e] = Tail(w)]
          /\ newest' = [newest EXCEPT ![e] = TRUE] /\ loop[e] = "reading" /\ loop' = loop
      BY <2>1 DEF read_loop
    <3> HIDE DEF w, h
    <3>3. /\ Head(w) \in JsonMessages /\ Tail(w) \in Seq(JsonMessages)
          /\ ToSet(w) = {Head(w)} \cup ToSet(Tail(w))
      BY <3>1, ElementsOfTail
    <3>4. /\ Append(h, Head(w)) \in Seq(JsonMessages)
          /\ ToSet(Append(h, Head(w))) = ToSet(h) \cup {Head(w)}
      BY <3>1, <3>3, ElementsOfAppend
    <3>5. /\ wire' \in [Sides -> Seq(JsonMessages)] /\ handlers' \in [Sides -> Seq(JsonMessages)]
          /\ wire'[e] = Tail(w) /\ handlers'[e] = Append(h, Head(w))
          /\ \A o \in Sides \ {e} : wire'[o] = wire[o] /\ handlers'[o] = handlers[o]
      BY <3>2, <3>3, <3>4 DEF JsonInv, JsonTypeOK
    <3>6. Coming(e)' = Coming(e)
      BY <3>3, <3>4, <3>5 DEF Coming, w, h
    <3>7. \A o \in Sides \ {e} : Coming(o)' = Coming(o)
      BY <3>5 DEF Coming
    <3>8. /\ newest' \in [Sides -> BOOLEAN]
          /\ \A o \in Sides \ {e} : newest'[o] = newest[o]
      BY <3>2 DEF JsonInv, JsonTypeOK
    <3>9. NewestThere'
      <4>1. handlers'[e] # << >> /\ loop'[e] # "idle"
        <5>1. Len(Append(h, Head(w))) = Len(h) + 1 /\ Len(h) \in Nat
          BY <3>1, <3>3, AppendProperties, LenProperties
        <5>2. Len(<< >>) = 0
          OBVIOUS
        <5>3. Len(handlers'[e]) = Len(h) + 1
          BY <3>5, <5>1
        <5> QED
          BY <3>2, <5>1, <5>2, <5>3
      <4> QED
        BY <3>2, <3>5, <3>8, <4>1 DEF NewestThere, JsonInv
    <3> QED
      BY <3>5, <3>6, <3>7, <3>8, <3>9
  <2>2. CASE UNCHANGED <<wire, handlers, newest>> /\ (loop' = loop \/ exec(e))
    <3>1. \A o \in Sides : loop'[o] = "idle" => loop[o] = "idle"
      BY <2>2 DEF exec, JsonInv, JsonTypeOK
    <3> QED
      BY <2>2, <3>1 DEF Coming, JsonInv, JsonTypeOK, NewestThere
  <2> QED
    BY <2>1, <2>2 DEF add_method, add_named_param_method, remove_method, exec
<1>5. JsonTypeOK'
  BY <1>1, <1>3, <1>4 DEF JsonTypeOK, JsonInv
<1>6. CallsCounted'
  BY <1>1 DEF CallsCounted, JsonInv
<1>7. PromisesSettle'
  BY <1>1, <1>2, <1>4, SettleOn
<1>8. MessagesBelong'
  <2>1. \A o \in Sides : AllFor(o)' = AllFor(o)
    BY <1>1, <1>4, TwoSides DEF AllFor
  <2> QED
    BY <1>1, <2>1 DEF MessagesBelong, Belongs, NoCall, JsonInv
<1> QED
  BY <1>4, <1>5, <1>6, <1>7, <1>8 DEF JsonInv

\* What Message makes.
LEMMA MessageMade ==
    ASSUME NEW id \in Int, NEW method \in SentNames, NEW params \in SentWays
    PROVE  /\ <<method, params>> \in Results /\ <<method, params>> # << >>
           /\ Message(id, method, params) \in JsonMessages
           /\ Message(id, method, params).id = id /\ Message(id, method, params).method = method
           /\ Message(id, method, params).params = params
<1>1. << >> \in Results
  BY DEF Results
<1>2. <<method, params>> \in Results /\ <<method, params>> # << >>
  BY DEF Results
<1>3. Message(id, method, params) = [id |-> id, method |-> method, params |-> params,
                                     error |-> FALSE, result |-> << >>]
  BY DEF Message
<1> QED
  BY <1>1, <1>2, <1>3 DEF JsonMessages

\* What Reply makes.
LEMMA ReplyMade ==
    ASSUME NEW id \in Int, NEW error \in BOOLEAN, NEW result \in Results
    PROVE  /\ Reply(id, error, result) \in JsonMessages
           /\ Reply(id, error, result).id = id /\ Reply(id, error, result).method = "absent"
           /\ Reply(id, error, result).error = error /\ Reply(id, error, result).result = result
  BY DEF Reply, JsonMessages

\* A message of another program has an id that no call has, or answers nothing.
LEMMA ForeignStep ==
    ASSUME JsonInv, NEW e \in Sides, NEW msg \in Foreign, another_program(e, msg)
    PROVE  JsonInv'
<1>1. /\ UNCHANGED <<methods, promises, buffer, handlers, newest, loop, closed_with, sent>>
      /\ foreign' = foreign + 1 /\ wire' = [wire EXCEPT ![e] = Append(wire[e], msg)]
  BY DEF another_program
<1>2. msg \in JsonMessages /\ (NoCall(msg.id) \/ (msg.method = "absent" /\ msg.result = << >>))
  <2>1. NoId \in Int /\ WrongId \in Int /\ MaxRequests \in Int /\ 0 \in Int
    BY JsonAssumption DEF NoId, WrongId
  <2>2. "m" \in SentNames /\ "number" \in SentWays /\ "list" \in SentWays
    BY DEF Ways, SentNames, SentWays
  <2>3. << >> \in Results /\ <<"m", "list">> \in Results
    BY <2>1, <2>2, MessageMade DEF Results
  <2>4. CASE msg = Message(MaxRequests, "m", "number")
    <3>1. Message(MaxRequests, "m", "number") \in JsonMessages
          /\ Message(MaxRequests, "m", "number").id = MaxRequests
      BY <2>1, <2>2, <2>3 DEF Message, JsonMessages
    <3> QED
      BY <2>4, <3>1 DEF NoCall
  <2>5. CASE msg = Reply(MaxRequests, FALSE, <<"m", "list">>)
    BY <2>1, <2>3, <2>5, ReplyMade DEF NoCall
  <2>6. CASE msg = Reply(0, FALSE, << >>)
    <3>1. /\ Reply(0, FALSE, << >>) \in JsonMessages /\ Reply(0, FALSE, << >>).method = "absent"
          /\ Reply(0, FALSE, << >>).result = << >>
      BY <2>1, <2>3 DEF Reply, JsonMessages
    <3> QED
      BY <2>6, <3>1
  <2>7. CASE msg = Reply(WrongId, FALSE, <<"m", "list">>)
    BY <2>1, <2>3, <2>7, ReplyMade DEF NoCall
  <2>8. CASE msg = Reply(NoId, FALSE, << >>)
    <3>1. /\ Reply(NoId, FALSE, << >>) \in JsonMessages /\ Reply(NoId, FALSE, << >>).method = "absent"
          /\ Reply(NoId, FALSE, << >>).result = << >>
      BY <2>1, <2>3 DEF Reply, JsonMessages
    <3> QED
      BY <2>8, <3>1
  <2> QED
    BY <2>4, <2>5, <2>6, <2>7, <2>8 DEF Foreign
<1>3. wire[e] \in Seq(JsonMessages)
  BY DEF JsonInv, JsonTypeOK
<1>4. /\ Append(wire[e], msg) \in Seq(JsonMessages)
      /\ ToSet(Append(wire[e], msg)) = ToSet(wire[e]) \cup {msg}
  BY <1>2, <1>3, ElementsOfAppend
<1>5. /\ wire' \in [Sides -> Seq(JsonMessages)]
      /\ ToSet(wire'[e]) = ToSet(wire[e]) \cup {msg}
      /\ \A o \in Sides \ {e} : wire'[o] = wire[o]
  BY <1>1, <1>4 DEF JsonInv, JsonTypeOK
<1>6. /\ Coming(e)' = Coming(e) \cup {msg} /\ AllFor(e)' = AllFor(e) \cup {msg}
      /\ \A o \in Sides \ {e} : Coming(o)' = Coming(o) /\ AllFor(o)' = AllFor(o)
  BY <1>1, <1>5, TwoSides DEF Coming, AllFor
<1>7. JsonTypeOK'
  BY <1>1, <1>5 DEF JsonTypeOK, JsonInv
<1>8. CallsCounted'
  BY <1>1 DEF CallsCounted, JsonInv
<1>9. PromisesSettle'
  BY <1>1, <1>6, SettleOn
<1>10. MessagesBelong'
  <2>1. Belongs(e, msg)'
    BY <1>2 DEF Belongs, NoCall
  <2>2. \A o \in Sides : Len(promises[o]) \in Nat
    BY PromisesCounted
  <2> QED
    BY <1>1, <1>6, <2>1, <2>2, BelongsOn
<1> QED
  BY <1>1, <1>7, <1>8, <1>9, <1>10 DEF JsonInv, NewestThere

\* What is written to a buffer.
LEMMA WrittenSays ==
    ASSUME JsonTypeOK, NEW e \in Sides, NEW msg \in JsonMessages, written(e, msg)
    PROVE  /\ buffer' \in [Sides -> Seq(JsonMessages)]
           /\ ToSet(buffer'[e]) \subseteq ToSet(buffer[e]) \cup {msg}
           /\ buffer'[Across(e)] = buffer[Across(e)]
<1>1. buffer[e] \in Seq(JsonMessages) /\ Across(e) \in Sides /\ Across(e) # e
  BY TwoSides DEF JsonTypeOK
<1>2. /\ Append(buffer[e], msg) \in Seq(JsonMessages)
      /\ ToSet(Append(buffer[e], msg)) = ToSet(buffer[e]) \cup {msg}
  BY <1>1, ElementsOfAppend
<1>3. buffer' = buffer \/ buffer' = [buffer EXCEPT ![e] = Append(buffer[e], msg)]
  BY DEF written
<1> QED
  BY <1>1, <1>2, <1>3 DEF JsonTypeOK

\* A notice has no id.
LEMMA NoticeStep ==
    ASSUME JsonInv, NEW e \in Sides, NEW name \in CalledNames, NEW params \in Ways,
           notice(e, name, params)
    PROVE  JsonInv'
<1> DEFINE msg == Message(NoId, name, params)
           o == Across(e)
<1>1. /\ UNCHANGED <<methods, promises, handlers, newest, loop, closed_with, foreign>>
      /\ sent[e] < MaxRequests /\ sent' = [sent EXCEPT ![e] = @ + 1]
      /\ \/ written(e, msg) /\ UNCHANGED wire
         \/ flushed(e, msg)
  BY DEF notice
<1>2. msg \in JsonMessages /\ msg.id = NoId
  <2>1. NoId \in Int /\ params \in SentWays /\ name \in SentNames
    BY DEF NoId, SentNames, SentWays
  <2>2. << >> \in Results
    BY DEF Results
  <2> QED
    BY <2>1, <2>2 DEF Message, JsonMessages
<1>3. o \in Sides /\ o # e /\ Across(o) = e /\ \A a \in Sides : a = e \/ a = o
  BY TwoSides
<1>4. /\ buffer' \in [Sides -> Seq(JsonMessages)] /\ wire' \in [Sides -> Seq(JsonMessages)]
      /\ Coming(e)' = Coming(e) /\ AllFor(e)' = AllFor(e)
      /\ Coming(o) \subseteq Coming(o)' /\ AllFor(o)' \subseteq AllFor(o) \cup {msg}
  <2> HIDE DEF msg, o
  <2>1. CASE written(e, msg) /\ UNCHANGED wire
    <3>1. /\ buffer' \in [Sides -> Seq(JsonMessages)]
          /\ ToSet(buffer'[e]) \subseteq ToSet(buffer[e]) \cup {msg} /\ buffer'[o] = buffer[o]
      BY <1>2, <2>1, WrittenSays DEF JsonInv, o
    <3>2. wire' = wire /\ wire' \in [Sides -> Seq(JsonMessages)]
      BY <2>1 DEF JsonInv, JsonTypeOK
    <3> QED
      BY <1>1, <1>3, <3>1, <3>2 DEF Coming, AllFor, o
  <2>2. CASE flushed(e, msg)
    <3>1. /\ buffer' \in [Sides -> Seq(JsonMessages)] /\ wire' \in [Sides -> Seq(JsonMessages)]
          /\ buffer'[o] = buffer[o] /\ wire'[e] = wire[e]
          /\ \/ buffer' = buffer /\ wire' = wire
             \/ /\ ToSet(buffer'[e]) = {}
                /\ ToSet(wire'[o]) =
                     IF ~Over(o) THEN ToSet(wire[o]) \cup ToSet(buffer[e]) \cup {msg} ELSE ToSet(wire[o])
      BY <1>2, <2>2, FlushedSays DEF JsonInv, o
    <3> QED
      BY <1>1, <1>3, <3>1 DEF Coming, AllFor, o
  <2> QED
    BY <1>1, <2>1, <2>2 DEF msg
<1> HIDE DEF msg, o
<1>5. Belongs(o, msg)'
  BY <1>2 DEF Belongs, NoCall, msg
<1>6. JsonTypeOK'
  <2>1. sent[e] + 1 \in Nat
    BY DEF JsonInv, JsonTypeOK
  <2>2. sent' \in [Sides -> Nat]
    BY <1>1, <2>1 DEF JsonInv, JsonTypeOK
  <2> QED
    BY <1>1, <1>4, <2>2 DEF JsonTypeOK, JsonInv
<1>7. CallsCounted'
  <2>1. sent[e] \in Nat /\ MaxRequests \in Nat /\ Len(promises[e]) \in Nat
    BY JsonAssumption, PromisesCounted DEF JsonInv, JsonTypeOK
  <2>2. sent'[e] = sent[e] + 1 /\ \A a \in Sides \ {e} : sent'[a] = sent[a]
    BY <1>1 DEF JsonInv, JsonTypeOK
  <2>3. Len(promises[e]) <= sent'[e] /\ sent'[e] <= MaxRequests
    BY <1>1, <2>1, <2>2 DEF JsonInv, CallsCounted
  <2> QED
    BY <1>1, <2>2, <2>3 DEF CallsCounted, JsonInv
<1>8. PromisesSettle'
  BY <1>1, <1>3, <1>4, SettleOn
<1>9. MessagesBelong'
  <2>1. \A a \in Sides : Len(promises[a]) \in Nat
    BY PromisesCounted
  <2>2. \A a \in Sides : \A m \in AllFor(a)' : m \in AllFor(a) \/ Belongs(a, m)'
    BY <1>3, <1>4, <1>5
  <2> QED
    BY <1>1, <2>1, <2>2, BelongsOn
<1> QED
  BY <1>1, <1>6, <1>7, <1>8, <1>9 DEF JsonInv, NewestThere

\* A call: its request leaves at once, if there is still somebody at the other end.
LEMMA CallStep ==
    ASSUME JsonInv, NEW e \in Sides, NEW name \in CalledNames, NEW params \in Ways,
           start_call(e, name, params)
    PROVE  JsonInv'
<1> DEFINE q == promises[e]
           o == Across(e)
           p == called(e, <<name, params>>)
<1>0. PICK msg : msg = Message(Len(q), name, params)
  OBVIOUS
<1>1. /\ UNCHANGED <<methods, handlers, newest, loop, closed_with, foreign>>
      /\ sent[e] < MaxRequests /\ sent' = [sent EXCEPT ![e] = @ + 1]
      /\ promises' = [promises EXCEPT ![e] = Append(q, p)]
      /\ flushed(e, msg)
  BY <1>0 DEF start_call
<1>2. q \in Seq(JsonPromises) /\ Len(q) \in Nat /\ Len(q) <= sent[e] /\ sent[e] \in Nat /\ MaxRequests \in Nat
  BY PromisesCounted, JsonAssumption DEF JsonInv, JsonTypeOK, CallsCounted
<1>3. /\ msg \in JsonMessages
      /\ msg.id = Len(q) /\ msg.method = name /\ msg.method # "absent" /\ msg.params = params
  <2>1. Len(q) \in Int /\ params \in SentWays /\ name \in SentNames
    BY <1>2 DEF SentNames, SentWays
  <2>2. << >> \in Results
    BY DEF Results
  <2> HIDE DEF q
  <2> QED
    BY <1>0, <2>1, <2>2, JsonAssumption DEF Message, JsonMessages
<1>4. /\ p \in JsonPromises /\ p.asked = <<name, params>>
      /\ \/ out_closed(e) /\ p.ready /\ p.exceptp
         \/ ~out_closed(e) /\ ~p.ready /\ (loop[e] = "ended" => p.late)
  <2> DEFINE asked == <<name, params>>
             late == loop[e] = "ended"
             n == new_promise(asked, late)
  <2>1. << >> \in Results /\ asked \in Asked /\ late \in BOOLEAN /\ (loop[e] = "ended" => late)
    BY DEF Results, Asked
  <2>2. n = [asked |-> asked, late |-> late, ready |-> FALSE, exceptp |-> FALSE, result |-> << >>]
    BY DEF new_promise
  <2>3. p = IF out_closed(e) THEN set_exception(n) ELSE n
    BY DEF called
  <2> HIDE DEF asked, late
  <2>4. n \in JsonPromises /\ n.asked = asked /\ ~n.ready /\ (loop[e] = "ended" => n.late)
    BY <2>1, <2>2 DEF JsonPromises
  <2> HIDE DEF n, p
  <2>5. /\ set_exception(n) \in JsonPromises /\ set_exception(n).asked = asked
        /\ set_exception(n).ready /\ set_exception(n).exceptp
    BY <2>4 DEF set_exception, JsonPromises
  <2> QED
    BY <2>3, <2>4, <2>5 DEF asked
<1>5. o \in Sides /\ o # e /\ Across(o) = e /\ \A a \in Sides : a = e \/ a = o
  BY TwoSides
<1> HIDE DEF q, o, p
<1>6. /\ Append(q, p) \in Seq(JsonPromises) /\ Len(Append(q, p)) = Len(q) + 1
      /\ \A i \in 1..Len(q) : Append(q, p)[i] = q[i]
      /\ Append(q, p)[Len(q) + 1] = p
  BY <1>2, <1>4, ElementsOfAppend
<1>7. /\ promises' \in [Sides -> Seq(JsonPromises)]
      /\ promises'[e] = Append(q, p) /\ promises'[o] = promises[o]
  BY <1>1, <1>5, <1>6 DEF JsonInv, JsonTypeOK
<1>8. /\ buffer' \in [Sides -> Seq(JsonMessages)] /\ wire' \in [Sides -> Seq(JsonMessages)]
      /\ Coming(e)' = Coming(e) /\ AllFor(e)' = AllFor(e)
      /\ Coming(o) \subseteq Coming(o)' /\ AllFor(o)' \subseteq AllFor(o) \cup {msg}
      /\ ~out_closed(e) /\ ~Over(o) => msg \in Coming(o)'
  <2>1. /\ buffer' \in [Sides -> Seq(JsonMessages)] /\ wire' \in [Sides -> Seq(JsonMessages)]
        /\ buffer'[o] = buffer[o] /\ wire'[e] = wire[e]
        /\ \/ out_closed(e) /\ buffer' = buffer /\ wire' = wire
           \/ /\ ~out_closed(e) /\ ToSet(buffer'[e]) = {}
              /\ ToSet(wire'[o]) =
                   IF ~Over(o) THEN ToSet(wire[o]) \cup ToSet(buffer[e]) \cup {msg} ELSE ToSet(wire[o])
    BY <1>1, <1>3, FlushedSays DEF JsonInv, o
  <2> QED
    BY <1>1, <1>5, <2>1 DEF Coming, AllFor, o
<1>9. JsonTypeOK'
  <2>1. sent[e] + 1 \in Nat
    BY <1>2
  <2>2. sent' \in [Sides -> Nat]
    BY <1>1, <2>1 DEF JsonInv, JsonTypeOK
  <2> QED
    BY <1>1, <1>7, <1>8, <2>2 DEF JsonTypeOK, JsonInv
<1>10. CallsCounted'
  <2>1. sent'[e] = sent[e] + 1 /\ sent'[o] = sent[o]
    BY <1>1, <1>5 DEF JsonInv, JsonTypeOK
  <2>2. Len(promises'[e]) <= sent'[e] /\ sent'[e] <= MaxRequests
    BY <1>1, <1>2, <1>6, <1>7, <2>1
  <2>3. Len(promises'[o]) <= sent'[o] /\ sent'[o] <= MaxRequests
    BY <1>5, <1>7, <2>1 DEF JsonInv, CallsCounted
  <2> QED
    BY <1>5, <2>2, <2>3 DEF CallsCounted
<1>11. \A a \in Sides : \A i \in 1..Len(promises[a]) : promises'[a][i] = promises[a][i]
  BY <1>5, <1>6, <1>7 DEF q
<1>12. MessagesBelong'
  <2>1. \A a \in Sides : Len(promises[a]) \in Nat
    BY PromisesCounted
  <2>2. \A a \in Sides : Len(promises'[a]) \in Nat /\ Len(promises[a]) <= Len(promises'[a])
    <3>1. Len(promises'[e]) \in Nat /\ Len(promises[e]) <= Len(promises'[e])
      <4>1. Len(promises'[e]) = Len(q) + 1 /\ Len(promises[e]) = Len(q)
        BY <1>6, <1>7 DEF q
      <4> QED
        BY <1>2, <4>1
    <3>2. Len(promises'[o]) \in Nat /\ Len(promises[o]) <= Len(promises'[o])
      BY <1>5, <1>7, <2>1
    <3> QED
      BY <1>5, <3>1, <3>2
  <2>3. Belongs(o, msg)'
    <3>1. /\ Len(q) + 1 \in 1..Len(promises'[e])
          /\ promises'[e][Len(q) + 1].asked = <<msg.method, msg.params>>
      BY <1>2, <1>3, <1>4, <1>6, <1>7
    <3> QED
      BY <1>3, <1>5, <3>1 DEF Belongs
  <2>4. \A a \in Sides : \A m \in AllFor(a)' : m \in AllFor(a) \/ Belongs(a, m)'
    BY <1>5, <1>8, <2>3
  <2> QED
    BY <1>11, <2>1, <2>2, <2>4, BelongsOn
<1>13. PromisesSettle'
  <2> SUFFICES ASSUME NEW a \in Sides, NEW i \in 1..Len(promises'[a]) PROVE PromiseSettles(a, i)'
    BY DEF PromisesSettle
  <2>1. CASE i \in 1..Len(promises[a])
    <3>1. promises'[a][i] = promises[a][i] /\ loop' = loop /\ Over(a)' = Over(a)
          /\ Over(Across(a))' = Over(Across(a))
      BY <1>1, <1>11, <2>1 DEF Over
    <3>2. Settles(a, i - 1) => Settles(a, i - 1)'
      <4>1. Coming(a) \subseteq Coming(a)' /\ Coming(Across(a)) \subseteq Coming(Across(a))'
        BY <1>5, <1>8 DEF o
      <4> QED
        BY <4>1 DEF Settles
    <3>3. PromiseSettles(a, i)
      BY <2>1 DEF JsonInv, PromisesSettle
    <3> QED
      BY <3>1, <3>2, <3>3 DEF PromiseSettles
  <2>2. CASE ~(i \in 1..Len(promises[a]))
    <3>1. a = e /\ i = Len(q) + 1
      BY <1>2, <1>5, <1>6, <1>7, <2>2 DEF q
    <3>2. promises'[a][i] = p /\ i - 1 = Len(q)
      BY <1>2, <1>6, <1>7, <3>1
    <3>3. ~out_closed(e) /\ ~Over(o) => Settles(e, i - 1)'
      BY <1>3, <1>8, <3>2 DEF Settles, o
    <3>4. /\ loop' = loop /\ Over(e)' = Over(e) /\ Over(o)' = Over(o) /\ (out_closed(e) => Over(e))
          /\ ~out_closed(e) => loop[e] # "closed"
      BY <1>1 DEF Over, out_closed
    <3> QED
      BY <1>4, <3>1, <3>2, <3>3, <3>4 DEF o, PromiseSettles
  <2> QED
    BY <2>1, <2>2
<1> QED
  BY <1>1, <1>9, <1>10, <1>12, <1>13 DEF JsonInv, NewestThere

\* An end that does not read any more: messages may be lost, and calls of the other end know that
\* there is nobody.  Its own calls have an exception, but for the late ones, or were left waiting
\* when close() canceled the loop.
LEMMA EndStep ==
    ASSUME JsonInv, NEW e \in Sides,
           \/ close_all(e)
           \/ UNCHANGED <<promises, closed_with>> /\ (loop'[e] = loop[e] \/ loop'[e] = "canceled"),
           loop' \in [Sides -> Loops], loop'[Across(e)] = loop[Across(e)], Over(e)',
           UNCHANGED <<methods, sent>>, foreign' \in Nat,
           buffer' \in [Sides -> Seq(JsonMessages)], wire' \in [Sides -> Seq(JsonMessages)],
           handlers' \in [Sides -> Seq(JsonMessages)], newest' \in [Sides -> BOOLEAN], NewestThere',
           \A a \in Sides : AllFor(a)' \subseteq AllFor(a)
    PROVE  JsonInv'
<1> DEFINE o == Across(e)
<1>1. o \in Sides /\ o # e /\ Across(o) = e /\ \A a \in Sides : a = e \/ a = o
  BY TwoSides
<1>2. /\ promises' \in [Sides -> Seq(JsonPromises)] /\ closed_with' \in [Sides -> Nat]
      /\ promises'[o] = promises[o] /\ Len(promises'[e]) = Len(promises[e])
      /\ \A i \in 1..Len(promises[e]) :
            /\ promises'[e][i].asked = promises[e][i].asked
            /\ \/ promises'[e][i].ready /\ promises'[e][i].exceptp
               \/ /\ promises'[e][i] = promises[e][i]
                  /\ loop'[e] = loop[e] \/ loop'[e] = "canceled"
  <2>1. CASE close_all(e)
    BY <2>1, ClosedSays DEF JsonInv
  <2>2. CASE UNCHANGED <<promises, closed_with>> /\ (loop'[e] = loop[e] \/ loop'[e] = "canceled")
    BY <2>2 DEF JsonInv, JsonTypeOK
  <2> QED
    BY <2>1, <2>2
<1> HIDE DEF o
<1>3. \A a \in Sides : Len(promises'[a]) = Len(promises[a])
  BY <1>1, <1>2
<1>4. JsonTypeOK'
  BY <1>2 DEF JsonInv, JsonTypeOK
<1>5. CallsCounted'
  BY <1>3 DEF JsonInv, CallsCounted
<1>6. MessagesBelong'
  <2>1. \A a \in Sides : Len(promises[a]) \in Nat
    BY PromisesCounted
  <2>2. \A a \in Sides : Len(promises'[a]) \in Nat /\ Len(promises[a]) <= Len(promises'[a])
    BY <1>3, <2>1
  <2>3. \A a \in Sides : \A i \in 1..Len(promises[a]) : promises'[a][i].asked = promises[a][i].asked
    BY <1>1, <1>2
  <2> QED
    BY <2>1, <2>2, <2>3, BelongsOn
<1>7. PromisesSettle'
  <2> SUFFICES ASSUME NEW a \in Sides, NEW i \in 1..Len(promises[a]) PROVE PromiseSettles(a, i)'
    BY <1>3 DEF PromisesSettle
  <2>1. PromiseSettles(a, i)
    BY DEF JsonInv, PromisesSettle
  <2>2. CASE a = e
    BY <1>2, <2>1, <2>2 DEF PromiseSettles
  <2>3. CASE a = o
    <3>1. loop'[o] = loop[o] /\ Over(Across(o))'
      BY <1>1 DEF o
    <3> QED
      BY <1>2, <2>1, <2>3, <3>1 DEF PromiseSettles
  <2> QED
    BY <1>1, <2>2, <2>3
<1> QED
  BY <1>4, <1>5, <1>6, <1>7 DEF JsonInv

\* The stream ends, or holds what is not JSON.
LEMMA ReadEndsStep ==
    ASSUME JsonInv, NEW e \in Sides, read_loop_ends(e)
    PROVE  JsonInv'
<1>1. /\ close_all(e) /\ loop' = [loop EXCEPT ![e] = "ended"]
      /\ UNCHANGED <<methods, buffer, handlers, newest, sent>>
      /\ wire' = [wire EXCEPT ![e] = << >>] /\ (foreign' = foreign \/ foreign' = foreign + 1)
  BY DEF read_loop_ends
<1>2. << >> \in Seq(JsonMessages) /\ ToSet(<< >>) = {} /\ Across(e) \in Sides /\ Across(e) # e
  BY NoElements, EmptySeq, TwoSides
<1>3. /\ wire' \in [Sides -> Seq(JsonMessages)] /\ ToSet(wire'[e]) = {}
      /\ \A a \in Sides \ {e} : wire'[a] = wire[a]
  BY <1>1, <1>2 DEF JsonInv, JsonTypeOK
<1>4. /\ foreign' \in Nat /\ buffer' \in [Sides -> Seq(JsonMessages)]
      /\ handlers' \in [Sides -> Seq(JsonMessages)] /\ newest' \in [Sides -> BOOLEAN]
  BY <1>1 DEF JsonInv, JsonTypeOK
<1>5. \A a \in Sides : AllFor(a)' \subseteq AllFor(a)
  BY <1>1, <1>3 DEF AllFor, Coming
<1>6. /\ loop' \in [Sides -> Loops] /\ loop'[Across(e)] = loop[Across(e)] /\ loop'[e] = "ended"
      /\ \A a \in Sides : loop'[a] = "idle" => loop[a] = "idle"
  BY <1>1, <1>2 DEF JsonInv, JsonTypeOK, Loops
<1>7. NewestThere' /\ Over(e)'
  BY <1>1, <1>6 DEF NewestThere, JsonInv, Over
<1> QED
  BY <1>1, <1>3, <1>4, <1>5, <1>6, <1>7, EndStep

\* close() cancels the newest handler, and flushes what is left in the buffer.
LEMMA CloseStep ==
    ASSUME JsonInv, NEW e \in Sides, close(e)
    PROVE  JsonInv'
<1> DEFINE o == Across(e)
           h == IF newest[e] THEN Front(handlers[e]) ELSE handlers[e]
           w == wire[o] \o buffer[e]
<1>1. /\ UNCHANGED <<methods, sent, foreign>>
      /\ handlers' = [handlers EXCEPT ![e] = h] /\ newest' = [newest EXCEPT ![e] = FALSE]
  BY DEF close
<1>2. o \in Sides /\ o # e /\ Across(o) = e /\ \A a \in Sides : a = e \/ a = o
  BY TwoSides
<1>3. << >> \in Seq(JsonMessages) /\ ToSet(<< >>) = {}
  BY NoElements, EmptySeq
<1>4. handlers[e] \in Seq(JsonMessages) /\ wire[o] \in Seq(JsonMessages) /\ buffer[e] \in Seq(JsonMessages)
  BY <1>2 DEF JsonInv, JsonTypeOK
<1>5. h \in Seq(JsonMessages) /\ ToSet(h) \subseteq ToSet(handlers[e])
  <2>1. newest[e] => handlers[e] # << >>
    BY DEF JsonInv, NewestThere
  <2> QED
    BY <1>4, <2>1, ElementsOfFront
<1>6. w \in Seq(JsonMessages) /\ ToSet(w) = ToSet(wire[o]) \cup ToSet(buffer[e])
  BY <1>4, ElementsOfConcat
<1>7. /\ buffer' \in [Sides -> Seq(JsonMessages)] /\ wire' \in [Sides -> Seq(JsonMessages)]
      /\ buffer'[o] = buffer[o] /\ ToSet(buffer'[e]) \subseteq ToSet(buffer[e])
      /\ ToSet(wire'[e]) \subseteq ToSet(wire[e]) /\ (wire'[o] = w \/ wire'[o] = wire[o])
      /\ loop' \in [Sides -> Loops] /\ loop'[o] = loop[o] /\ Over(e)'
      /\ \/ close_all(e)
         \/ UNCHANGED <<promises, closed_with>> /\ (loop'[e] = loop[e] \/ loop'[e] = "canceled")
  <2>1. CASE loop[e] = "reading"
    <3>1. /\ buffer' = [buffer EXCEPT ![e] = << >>]
          /\ wire' = [a \in Sides |-> IF a = e THEN << >>
                                      ELSE IF reaches(e) THEN wire[a] \o buffer[e] ELSE wire[a]]
          /\ \/ loop' = [loop EXCEPT ![e] = "closed"] /\ close_all(e)
             \/ loop' = [loop EXCEPT ![e] = "canceled"] /\ UNCHANGED <<promises, closed_with>>
      BY <2>1 DEF close
    <3>2. wire'[e] = << >> /\ (wire'[o] = w \/ wire'[o] = wire[o])
      BY <1>2, <3>1
    <3> HIDE DEF o, h, w
    <3>3. wire' \in [Sides -> Seq(JsonMessages)]
      <4>1. wire'[e] \in Seq(JsonMessages) /\ wire'[o] \in Seq(JsonMessages)
        BY <1>3, <1>4, <1>6, <3>2
      <4>2. \A a \in Sides : wire'[a] \in Seq(JsonMessages)
        BY <1>2, <4>1
      <4>3. wire' = [a \in Sides |-> wire'[a]]
        BY <3>1
      <4> QED
        BY <4>2, <4>3
    <3>4. /\ buffer' \in [Sides -> Seq(JsonMessages)] /\ ToSet(buffer'[e]) = {} /\ buffer'[o] = buffer[o]
      BY <1>2, <1>3, <3>1 DEF JsonInv, JsonTypeOK
    <3>5. /\ loop' \in [Sides -> Loops] /\ loop'[o] = loop[o]
          /\ \/ loop'[e] = "closed" /\ close_all(e)
             \/ loop'[e] = "canceled" /\ UNCHANGED <<promises, closed_with>>
      BY <1>2, <3>1 DEF JsonInv, JsonTypeOK, Loops
    <3>6. Over(e)' /\ ToSet(wire'[e]) = {}
      BY <1>3, <3>2, <3>5 DEF Over
    <3> QED
      BY <3>2, <3>3, <3>4, <3>5, <3>6
  <2>2. CASE loop[e] # "reading"
    <3>1. UNCHANGED <<promises, buffer, wire, loop, closed_with>> /\ newest[e]
      BY <2>2 DEF close
    <3>2. loop[e] \in Loops /\ loop[e] # "idle"
      BY <3>1 DEF JsonInv, JsonTypeOK, NewestThere
    <3>3. Over(e)'
      BY <2>2, <3>1, <3>2 DEF Over, Loops
    <3> HIDE DEF o, h, w
    <3> QED
      BY <1>2, <3>1, <3>3 DEF JsonInv, JsonTypeOK
  <2> QED
    BY <2>1, <2>2
<1> HIDE DEF o, h, w
<1>8. /\ handlers' \in [Sides -> Seq(JsonMessages)] /\ newest' \in [Sides -> BOOLEAN]
      /\ handlers'[e] = h /\ handlers'[o] = handlers[o] /\ newest'[e] = FALSE /\ newest'[o] = newest[o]
  BY <1>1, <1>2, <1>5 DEF JsonInv, JsonTypeOK
<1>9. NewestThere'
  BY <1>2, <1>7, <1>8 DEF NewestThere, JsonInv
<1>10. AllFor(e)' \subseteq AllFor(e)
  BY <1>2, <1>5, <1>7, <1>8 DEF AllFor, Coming, o
<1>11. AllFor(o)' \subseteq AllFor(o)
  BY <1>2, <1>6, <1>7, <1>8 DEF AllFor, Coming
<1>12. foreign' \in Nat
  BY <1>1 DEF JsonInv, JsonTypeOK
<1>13. \A a \in Sides : AllFor(a)' \subseteq AllFor(a)
  BY <1>2, <1>10, <1>11
<1> QED
  BY <1>1, <1>7, <1>8, <1>9, <1>12, <1>13, EndStep DEF o

\* A handler ends: its message goes, and what is still coming was coming.
LEMMA HandledSays ==
    ASSUME JsonInv, NEW e \in Sides, NEW i \in 1..Len(handlers[e]), handle_message(e, i)
    PROVE  \E msg \in ToSet(handlers[e]) :
             /\ msg \in JsonMessages /\ Belongs(e, msg)
             /\ handlers' \in [Sides -> Seq(JsonMessages)]
             /\ newest' \in [Sides -> BOOLEAN] /\ NewestThere'
             /\ ToSet(handlers'[e]) \subseteq ToSet(handlers[e])
             /\ ToSet(handlers[e]) \subseteq ToSet(handlers'[e]) \cup {msg}
             /\ handlers'[Across(e)] = handlers[Across(e)]
             /\ \/ msg.method # "absent" /\ handle_request_of(e, msg)
                \/ msg.method = "absent" /\ handle_answer(e, msg)
<1> DEFINE h == handlers[e]
           r == RemoveAt(h, i)
           o == Across(e)
<1>1. /\ h \in Seq(JsonMessages) /\ handlers' = [handlers EXCEPT ![e] = r]
      /\ newest' = [newest EXCEPT ![e] = newest[e] /\ i # Len(h)] /\ loop' = loop
  BY DEF handle_message, JsonInv, JsonTypeOK
<1>2. o \in Sides /\ o # e /\ \A a \in Sides : a = e \/ a = o
  BY TwoSides
<1>3. \/ h[i].method # "absent" /\ handle_request_of(e, h[i])
      \/ h[i].method = "absent" /\ handle_answer(e, h[i])
  BY DEF handle_message
<1>4. /\ h[i] \in JsonMessages /\ h[i] \in ToSet(h) /\ r \in Seq(JsonMessages) /\ Len(r) = Len(h) - 1
      /\ ToSet(r) \subseteq ToSet(h) /\ ToSet(h) \subseteq ToSet(r) \cup {h[i]}
  BY <1>1, ElementsOfRemoveAt
<1>5. Belongs(e, h[i])
  <2>1. h[i] \in AllFor(e)
    BY <1>4 DEF AllFor, Coming
  <2> QED
    BY <2>1 DEF JsonInv, MessagesBelong
<1>6. i \in 1..Len(h) /\ Len(h) \in Nat
  BY <1>1, LenProperties
<1> HIDE DEF r, o
<1>7. /\ handlers' \in [Sides -> Seq(JsonMessages)] /\ handlers'[e] = r /\ handlers'[o] = handlers[o]
  BY <1>1, <1>2, <1>4 DEF JsonInv, JsonTypeOK
<1>8. /\ newest' \in [Sides -> BOOLEAN] /\ newest'[o] = newest[o]
      /\ newest'[e] => newest[e] /\ i # Len(h)
  BY <1>1, <1>2 DEF JsonInv, JsonTypeOK
<1> HIDE DEF h
<1>9. newest'[e] => r # << >>
  <2>1. Len(<< >>) = 0
    OBVIOUS
  <2>2. i # Len(h) => Len(r) # 0
    BY <1>4, <1>6
  <2> QED
    BY <1>8, <2>1, <2>2
<1>10. NewestThere'
  BY <1>1, <1>2, <1>7, <1>8, <1>9 DEF NewestThere, JsonInv
<1> QED
  BY <1>3, <1>4, <1>5, <1>7, <1>8, <1>10 DEF h, o

\* A request runs and is answered: a call that waited for it now waits for the answer.
LEMMA RequestStep ==
    ASSUME JsonInv, NEW e \in Sides, NEW msg \in JsonMessages, Belongs(e, msg),
           handlers' \in [Sides -> Seq(JsonMessages)], newest' \in [Sides -> BOOLEAN], NewestThere',
           ToSet(handlers'[e]) \subseteq ToSet(handlers[e]),
           ToSet(handlers[e]) \subseteq ToSet(handlers'[e]) \cup {msg},
           handlers'[Across(e)] = handlers[Across(e)],
           msg.method # "absent", handle_request_of(e, msg),
           UNCHANGED <<methods, loop, sent, foreign>>
    PROVE  JsonInv'
<1> DEFINE o == Across(e)
<1>1. o \in Sides /\ o # e /\ Across(o) = e /\ \A a \in Sides : a = e \/ a = o
  BY TwoSides
<1>0. CASE msg.id # NoId /\ out_closed(e)
  <2>1. close_all(e) /\ UNCHANGED <<buffer, wire>>
    BY <1>0 DEF handle_request_of
  <2>2. \A a \in Sides : AllFor(a)' \subseteq AllFor(a)
    BY <1>1, <2>1 DEF AllFor, Coming
  <2>3. Over(e)'
    BY <1>0 DEF Over, out_closed
  <2>4. /\ loop' \in [Sides -> Loops] /\ loop'[Across(e)] = loop[Across(e)] /\ foreign' \in Nat
        /\ buffer' \in [Sides -> Seq(JsonMessages)] /\ wire' \in [Sides -> Seq(JsonMessages)]
    BY <2>1 DEF JsonInv, JsonTypeOK
  <2> QED
    BY <2>1, <2>2, <2>3, <2>4, EndStep
<1> SUFFICES ASSUME msg.id = NoId \/ ~out_closed(e) PROVE JsonInv'
  BY <1>0
<1>2. UNCHANGED <<promises, closed_with>>
  BY DEF handle_request_of
<1>3. msg.id \in Int /\ msg.method \in SentNames /\ msg.params \in SentWays \cup {"absent"} /\ NoId \in Int
  BY DEF JsonMessages, NoId
<1>4. /\ buffer' \in [Sides -> Seq(JsonMessages)] /\ wire' \in [Sides -> Seq(JsonMessages)]
      /\ AllFor(e)' \subseteq AllFor(e) /\ Coming(e) \subseteq Coming(e)' \cup {msg}
      /\ Coming(o) \subseteq Coming(o)'
      /\ \A m \in AllFor(o)' : m \in AllFor(o) \/ Belongs(o, m)'
      /\ msg.id # NoId /\ ~Over(o) =>
           \E m \in Coming(o)' : m.id = msg.id /\ m.method = "absent" /\ (m.error \/ m.result # << >>)
  <2>1. CASE msg.id = NoId
    <3>1. UNCHANGED <<buffer, wire>>
      BY <2>1 DEF handle_request_of
    <3> QED
      BY <1>1, <2>1, <3>1 DEF Coming, AllFor, JsonInv, JsonTypeOK
  <2>2. CASE msg.id # NoId
    <3>1. PICK reply :
             reply = IF answers(e, msg) THEN Reply(msg.id, FALSE, <<msg.method, msg.params>>)
                     ELSE Reply(msg.id, TRUE, << >>)
      OBVIOUS
    <3>2. flushed(e, reply)
      BY <2>2, <3>1 DEF handle_request_of
    <3>3. /\ reply \in JsonMessages /\ reply.id = msg.id /\ reply.method = "absent"
          /\ (reply.error \/ reply.result = <<msg.method, msg.params>>)
      <4>1. answers(e, msg) => msg.params \in SentWays
        BY DEF answers, SentWays, Ways
      <4>2. CASE answers(e, msg)
        <5> DEFINE r == <<msg.method, msg.params>>
        <5>1. r \in Results
          BY <1>3, <4>1, <4>2 DEF Results
        <5>2. reply = Reply(msg.id, FALSE, r)
          BY <3>1, <4>2
        <5> HIDE DEF r
        <5>3. reply \in JsonMessages /\ reply.id = msg.id /\ reply.method = "absent" /\ reply.result = r
          BY <1>3, <5>1, <5>2 DEF Reply, JsonMessages
        <5> QED
          BY <5>3 DEF r
      <4>3. CASE ~answers(e, msg)
        <5>1. << >> \in Results
          BY DEF Results
        <5>2. reply = Reply(msg.id, TRUE, << >>)
          BY <3>1, <4>3
        <5> QED
          BY <1>3, <5>1, <5>2 DEF Reply, JsonMessages
      <4> QED
        BY <4>2, <4>3
    <3>4. /\ buffer' \in [Sides -> Seq(JsonMessages)] /\ wire' \in [Sides -> Seq(JsonMessages)]
          /\ ToSet(buffer'[e]) = {} /\ buffer'[o] = buffer[o]
          /\ wire'[e] = wire[e]
          /\ ToSet(wire'[o]) = IF ~Over(o)
                               THEN ToSet(wire[o]) \cup ToSet(buffer[e]) \cup {reply} ELSE ToSet(wire[o])
      BY <2>2, <3>2, <3>3, FlushedSays DEF JsonInv
    <3>5. Belongs(o, reply)'
      <4>1. Belongs(o, reply)
        BY <1>1, <3>3 DEF Belongs, o
      <4> QED
        BY <1>2, <4>1 DEF Belongs, NoCall
    <3>6. AllFor(e)' \subseteq AllFor(e) /\ Coming(e) \subseteq Coming(e)' \cup {msg}
      BY <1>1, <3>4 DEF Coming, AllFor
    <3>7. /\ Coming(o) \subseteq Coming(o)' /\ AllFor(o)' \subseteq AllFor(o) \cup {reply}
          /\ ~Over(o) => reply \in Coming(o)'
      BY <1>1, <3>4 DEF Coming, AllFor
    <3>8. reply.error \/ reply.result # << >>
      <4>1. <<msg.method, msg.params>> # << >>
        OBVIOUS
      <4> QED
        BY <3>3, <4>1
    <3> HIDE DEF o
    <3> QED
      BY <3>3, <3>4, <3>5, <3>6, <3>7, <3>8
  <2> QED
    BY <2>1, <2>2
<1> HIDE DEF o
<1>5. JsonTypeOK'
  BY <1>2, <1>4 DEF JsonTypeOK, JsonInv
<1>6. CallsCounted'
  BY <1>2 DEF CallsCounted, JsonInv
<1>7. MessagesBelong'
  <2>1. \A a \in Sides : Len(promises[a]) \in Nat
    BY PromisesCounted
  <2>2. \A a \in Sides : \A m \in AllFor(a)' : m \in AllFor(a) \/ Belongs(a, m)'
    BY <1>1, <1>4
  <2> QED
    BY <1>2, <2>1, <2>2, BelongsOn
<1>8. PromisesSettle'
  <2> SUFFICES ASSUME NEW a \in Sides, NEW i \in 1..Len(promises[a]) PROVE PromiseSettles(a, i)'
    BY <1>2 DEF PromisesSettle
  <2>1. PromiseSettles(a, i) /\ loop' = loop /\ Over(a)' = Over(a) /\ Over(Across(a))' = Over(Across(a))
    BY DEF JsonInv, PromisesSettle, Over
  <2>2. CASE a = e
    <3>1. Settles(e, i - 1) => Settles(e, i - 1)'
      BY <1>4 DEF Settles, o
    <3> QED
      BY <1>2, <2>1, <2>2, <3>1 DEF PromiseSettles
  <2>3. CASE a = o
    <3>1. i - 1 \in Int /\ i - 1 # NoId
      <4>1. Len(promises[a]) \in Nat
        BY PromisesCounted
      <4> QED
        BY <4>1 DEF NoId
    <3>2. ~Over(o) /\ Settles(o, i - 1) => Settles(o, i - 1)'
      BY <1>1, <1>4, <3>1 DEF Settles
    <3> QED
      BY <1>1, <1>2, <2>1, <2>3, <3>2 DEF PromiseSettles
  <2> QED
    BY <1>1, <2>2, <2>3
<1> QED
  BY <1>5, <1>6, <1>7, <1>8 DEF JsonInv

\* An answer settles the call that has its id; a wrong id ends every call of this end.
LEMMA AnswerStep ==
    ASSUME JsonInv, NEW e \in Sides, NEW msg \in JsonMessages, Belongs(e, msg),
           handlers' \in [Sides -> Seq(JsonMessages)], newest' \in [Sides -> BOOLEAN], NewestThere',
           ToSet(handlers'[e]) \subseteq ToSet(handlers[e]),
           ToSet(handlers[e]) \subseteq ToSet(handlers'[e]) \cup {msg},
           handlers'[Across(e)] = handlers[Across(e)],
           msg.method = "absent", handle_answer(e, msg),
           UNCHANGED <<methods, loop, sent, foreign>>
    PROVE  JsonInv'
<1> DEFINE o == Across(e)
           q == promises[e]
           k == msg.id + 1
<1>1. o \in Sides /\ o # e /\ Across(o) = e /\ \A a \in Sides : a = e \/ a = o
  BY TwoSides
<1>2. UNCHANGED <<buffer, wire>>
  BY DEF handle_answer
<1>3. /\ q \in Seq(JsonPromises) /\ Len(q) \in Nat /\ DOMAIN q = 1..Len(q)
      /\ Len(q) <= MaxRequests /\ MaxRequests \in Nat
      /\ \A i \in 1..Len(q) : q[i] \in JsonPromises
  BY PromisesCounted, JsonAssumption
<1>4. msg.id \in Int /\ msg.error \in BOOLEAN /\ msg.result \in Results /\ k \in Int
  BY DEF JsonMessages
<1>5. /\ AllFor(e)' \subseteq AllFor(e) /\ AllFor(o)' = AllFor(o) /\ Coming(o)' = Coming(o)
      /\ Coming(e) \subseteq Coming(e)' \cup {msg}
  BY <1>1, <1>2 DEF Coming, AllFor
<1> HIDE DEF o, q, k
<1>6. /\ promises' \in [Sides -> Seq(JsonPromises)] /\ closed_with' \in [Sides -> Nat]
      /\ promises'[o] = promises[o] /\ Len(promises'[e]) = Len(q)
      /\ \A i \in 1..Len(q) :
            /\ promises'[e][i].asked = q[i].asked
            /\ \/ promises'[e][i].ready /\ promises'[e][i].exceptp
               \/ promises'[e][i] = q[i]
                  /\ ~(i = k /\ (msg.error \/ msg.result # << >>))
               \/ i = k /\ promises'[e][i].ready /\ promises'[e][i].result = q[i].asked
  <2>1. CASE msg.id = WrongId
    <3>1. close_all(e)
      BY <2>1 DEF handle_answer
    <3> QED
      BY <3>1, ClosedSays DEF JsonInv, o, q
  <2>2. CASE msg.id # WrongId /\ k \notin 1..Len(q)
    <3>1. promises' = promises /\ closed_with' = closed_with
      BY <1>3, <2>2 DEF handle_answer, k, q
    <3> QED
      BY <1>3, <2>2, <3>1 DEF JsonInv, JsonTypeOK, q
  <2>3. CASE msg.id # WrongId /\ k \in 1..Len(q)
    <3> DEFINE r == IF msg.error THEN set_exception(q[k])
                    ELSE IF msg.result = << >> THEN q[k]
                    ELSE set_value(q[k], msg.result)
    <3>1. promises' = [promises EXCEPT ![e] = [q EXCEPT ![k] = r]] /\ closed_with' = closed_with
      BY <1>3, <2>3 DEF handle_answer, k, q
    <3>2. ~NoCall(msg.id)
      BY <1>3, <1>4, <2>3 DEF NoCall, NoId, k
    <3>3. ~msg.error /\ msg.result # << >> => msg.result = q[k].asked
      BY <3>2 DEF Belongs, k, q
    <3>4. /\ r \in JsonPromises /\ r.asked = q[k].asked
          /\ msg.error => r.ready /\ r.exceptp
          /\ ~msg.error /\ msg.result # << >> => r.ready /\ r.result = q[k].asked
          /\ ~msg.error /\ msg.result = << >> => r = q[k]
      <4>1. q[k] \in JsonPromises
        BY <1>3, <2>3
      <4>2. CASE msg.error
        BY <4>1, <4>2 DEF set_exception, JsonPromises
      <4>3. CASE ~msg.error /\ msg.result = << >>
        BY <4>1, <4>3
      <4>4. CASE ~msg.error /\ msg.result # << >>
        <5>1. r = [q[k] EXCEPT !.result = msg.result, !.ready = TRUE]
          BY <4>4 DEF set_value
        <5> QED
          BY <1>4, <3>3, <4>1, <4>4, <5>1 DEF JsonPromises
      <4> QED
        BY <4>2, <4>3, <4>4
    <3> HIDE DEF r
    <3> DEFINE p == [q EXCEPT ![k] = r]
    <3>5. /\ p \in Seq(JsonPromises) /\ Len(p) = Len(q) /\ p[k] = r
          /\ \A i \in 1..Len(q) : i # k => p[i] = q[i]
      BY <1>3, <2>3, <3>4, ExceptSeq
    <3> HIDE DEF p
    <3>6. promises' \in [Sides -> Seq(JsonPromises)] /\ promises'[e] = p /\ promises'[o] = promises[o]
      BY <1>1, <3>1, <3>5 DEF JsonInv, JsonTypeOK, p
    <3>7. closed_with' \in [Sides -> Nat]
      BY <3>1 DEF JsonInv, JsonTypeOK
    <3>8. ASSUME NEW i \in 1..Len(q)
          PROVE  /\ p[i].asked = q[i].asked
                 /\ \/ p[i].ready /\ p[i].exceptp
                    \/ p[i] = q[i] /\ ~(i = k /\ (msg.error \/ msg.result # << >>))
                    \/ i = k /\ p[i].ready /\ p[i].result = q[i].asked
      <4>1. CASE i = k
        BY <3>4, <3>5, <4>1
      <4>2. CASE i # k
        BY <3>5, <4>2
      <4> QED
        BY <4>1, <4>2
    <3> QED
      BY <3>5, <3>6, <3>7, <3>8
  <2> QED
    BY <2>1, <2>2, <2>3
<1>7. JsonTypeOK'
  BY <1>2, <1>6 DEF JsonTypeOK, JsonInv
<1>8. \A a \in Sides : Len(promises'[a]) = Len(promises[a]) /\ Len(promises[a]) \in Nat
  BY <1>1, <1>6, PromisesCounted DEF q
<1>9. CallsCounted'
  BY <1>8 DEF CallsCounted, JsonInv
<1>10. MessagesBelong'
  <2>1. \A a \in Sides : Len(promises'[a]) \in Nat /\ Len(promises[a]) <= Len(promises'[a])
    BY <1>8
  <2>2. \A a \in Sides : \A i \in 1..Len(promises[a]) : promises'[a][i].asked = promises[a][i].asked
    BY <1>1, <1>6 DEF q
  <2>3. \A a \in Sides : \A m \in AllFor(a)' : m \in AllFor(a) \/ Belongs(a, m)'
    BY <1>1, <1>5
  <2> QED
    BY <1>8, <2>1, <2>2, <2>3, BelongsOn
<1>11. PromisesSettle'
  <2> SUFFICES ASSUME NEW a \in Sides, NEW i \in 1..Len(promises[a]) PROVE PromiseSettles(a, i)'
    BY <1>8 DEF PromisesSettle
  <2>1. PromiseSettles(a, i) /\ loop' = loop /\ Over(a)' = Over(a) /\ Over(Across(a))' = Over(Across(a))
    BY DEF JsonInv, PromisesSettle, Over
  <2>2. CASE a = e
    <3>1. CASE promises'[e][i] = q[i] /\ ~(i = k /\ (msg.error \/ msg.result # << >>))
      <4>1. msg.id = i - 1 => i = k
        BY <1>4, <1>8 DEF k
      <4>2. Settles(e, i - 1) => Settles(e, i - 1)'
        BY <1>5, <3>1, <4>1 DEF Settles, o
      <4> QED
        BY <2>1, <2>2, <3>1, <4>2 DEF PromiseSettles, q
    <3> QED
      BY <1>6, <2>2, <3>1 DEF PromiseSettles, q
  <2>3. CASE a = o
    <3>1. Settles(o, i - 1) => Settles(o, i - 1)'
      BY <1>1, <1>5 DEF Settles
    <3> QED
      BY <1>1, <1>6, <2>1, <2>3, <3>1 DEF PromiseSettles
  <2> QED
    BY <1>1, <2>2, <2>3
<1> QED
  BY <1>7, <1>9, <1>10, <1>11 DEF JsonInv

\* The invariant holds in every state of a pair of json_connections: messages belong to the calls
\* whose ids they have, and calls that wait have something that settles them.
THEOREM JsonInvariance ==
    JsonSpec => []JsonInv
<1>1. JsonInit => JsonInv
  <2> SUFFICES ASSUME JsonInit PROVE JsonInv
    OBVIOUS
  <2>1. \A S : << >> \in Seq(S)
    BY EmptySeq
  <2>2. [list |-> {}, named |-> {}] \in [list : SUBSET AddedNames, named : SUBSET AddedNames]
    OBVIOUS
  <2>3. JsonTypeOK
    BY <2>1, <2>2 DEF JsonInit, JsonTypeOK, Loops
  <2>4. Len(<< >>) = 0
    OBVIOUS
  <2>5. CallsCounted
    BY <2>4, JsonAssumption DEF JsonInit, CallsCounted
  <2>6. \A e \in Sides : AllFor(e) = {}
    BY NoElements, TwoSides DEF JsonInit, AllFor, Coming
  <2>7. \A e \in Sides : 1..Len(promises[e]) = {}
    BY <2>4 DEF JsonInit
  <2> QED
    BY <2>3, <2>5, <2>6, <2>7 DEF JsonInv, MessagesBelong, PromisesSettle, NewestThere, JsonInit
<1>2. JsonInv /\ [JsonNext]_json_vars => JsonInv'
  <2> SUFFICES ASSUME JsonInv, [JsonNext]_json_vars PROVE JsonInv'
    OBVIOUS
  <2>1. ASSUME NEW e \in Servers, NEW name \in AddedNames,
               add_method(e, name) \/ add_named_param_method(e, name) \/ remove_method(e, name)
        PROVE  JsonInv'
    BY <2>1, QuietStep, JsonAssumption
  <2>2. ASSUME NEW e \in Sides, exec(e) \/ read_loop(e) PROVE JsonInv'
    BY <2>2, QuietStep
  <2>3. ASSUME NEW e \in Sides, read_loop_ends(e) PROVE JsonInv'
    BY <2>3, ReadEndsStep
  <2>4. ASSUME NEW e \in Sides, NEW i \in 1..Len(handlers[e]), handle_message(e, i) PROVE JsonInv'
    <3>1. UNCHANGED <<methods, loop, sent, foreign>>
      BY <2>4 DEF handle_message
    <3>2. PICK msg \in ToSet(handlers[e]) :
             /\ msg \in JsonMessages /\ Belongs(e, msg)
             /\ handlers' \in [Sides -> Seq(JsonMessages)]
             /\ newest' \in [Sides -> BOOLEAN] /\ NewestThere'
             /\ ToSet(handlers'[e]) \subseteq ToSet(handlers[e])
             /\ ToSet(handlers[e]) \subseteq ToSet(handlers'[e]) \cup {msg}
             /\ handlers'[Across(e)] = handlers[Across(e)]
             /\ \/ msg.method # "absent" /\ handle_request_of(e, msg)
                \/ msg.method = "absent" /\ handle_answer(e, msg)
      BY <2>4, HandledSays
    <3>3. CASE msg.method # "absent" /\ handle_request_of(e, msg)
      BY <3>1, <3>2, <3>3, RequestStep
    <3>4. CASE msg.method = "absent" /\ handle_answer(e, msg)
      BY <3>1, <3>2, <3>4, AnswerStep
    <3> QED
      BY <3>2, <3>3, <3>4
  <2>5. ASSUME NEW e \in Sides, close(e) PROVE JsonInv'
    BY <2>5, CloseStep
  <2>6. ASSUME NEW e \in Sides, NEW msg \in Foreign, another_program(e, msg) PROVE JsonInv'
    BY <2>6, ForeignStep
  <2>7. ASSUME NEW e \in Callers, NEW name \in CalledNames,
               async_call(e, name) \/ async_call_named(e, name) \/ async_call_bare(e, name)
        PROVE  JsonInv'
    <3>1. PICK params \in Ways : start_call(e, name, params)
      BY <2>7 DEF async_call, async_call_named, async_call_bare, Ways
    <3> QED
      BY <3>1, CallStep, JsonAssumption
  <2>8. ASSUME NEW e \in Callers, NEW name \in CalledNames, NEW params \in {"none", "list", "named"},
               notice(e, name, params)
        PROVE  JsonInv'
    BY <2>8, NoticeStep, JsonAssumption DEF Ways
  <2>9. ASSUME UNCHANGED json_vars PROVE JsonInv'
    BY <2>9 DEF json_vars, JsonInv, JsonTypeOK, CallsCounted, MessagesBelong, AllFor, Coming, Belongs,
                NoCall, PromisesSettle, PromiseSettles, Settles, Over, NewestThere
  <2> QED
    BY <2>1, <2>2, <2>3, <2>4, <2>5, <2>6, <2>7, <2>8, <2>9 DEF JsonNext
<1> QED
  BY <1>1, <1>2, PTL DEF JsonSpec

\* What is pending in two sequences, by their elements.
LEMMA PendingIn ==
    ASSUME NEW s \in Seq(JsonMessages), NEW t \in Seq(JsonMessages), NEW id, NEW request \in BOOLEAN,
           NEW msg \in ToSet(s) \cup ToSet(t), msg.id = id, (msg.method # "absent") = request,
           request \/ msg.error \/ msg.result # << >>
    PROVE  Pending(s \o t, id, request)
<1> DEFINE u == s \o t
<1>1. u \in Seq(JsonMessages) /\ ToSet(u) = ToSet(s) \cup ToSet(t)
  BY ElementsOfConcat
<1> HIDE DEF u
<1>2. DOMAIN u = 1..Len(u)
  BY <1>1, LenProperties
<1>3. PICK i \in 1..Len(u) : msg = u[i]
  BY <1>1, ElementsOf
<1>4. Pending(u, id, request)
  BY <1>2, <1>3 DEF Pending
<1> QED
  BY <1>4 DEF u

\* A call over a json_connection that returns gives the result of its own method with its own kind
\* of arguments, one that waits while both ends may still read has its request or its answer beyond
\* the writer's buffer, and once an exception has ended the read loop only those wait that were
\* made after it.
THEOREM JsonCalls ==
    JsonSpec => []JsonCallsAnswered
<1>1. JsonInv => JsonCallsAnswered
  <2> SUFFICES ASSUME JsonInv, NEW e \in Sides, NEW i \in DOMAIN promises[e]
               PROVE  LET p == promises[e][i]
                      IN /\ call(p)[1] = "returns" => call(p)[2] = p.asked
                         /\ waited(p) = "waits" /\ ~Over(e) /\ reaches(e) =>
                              \/ Pending(wire[Across(e)] \o handlers[Across(e)], i - 1, TRUE)
                              \/ Pending(wire[e] \o handlers[e], i - 1, FALSE)
                         /\ waited(p) = "waits" /\ loop[e] \in {"ended", "closed"} => p.late
    BY DEF JsonCallsAnswered
  <2> DEFINE p == promises[e][i]
  <2>1. i \in 1..Len(promises[e])
    BY PromisesCounted
  <2>2. PromiseSettles(e, i)
    BY <2>1 DEF JsonInv, PromisesSettle
  <2>3. waited(p) = "waits" <=> ~p.ready
    BY DEF waited
  <2>4. waited(p) = "returns" => p.ready /\ ~p.exceptp
    BY DEF waited
  <2>5. call(p)[1] = "returns" => waited(p) = "returns" /\ call(p)[2] = p.result
    BY DEF call
  <2>6. ASSUME Settles(e, i - 1)
        PROVE  \/ Pending(wire[Across(e)] \o handlers[Across(e)], i - 1, TRUE)
               \/ Pending(wire[e] \o handlers[e], i - 1, FALSE)
    <3>1. Across(e) \in Sides
      BY TwoSides
    <3>2. \A a \in Sides : wire[a] \in Seq(JsonMessages) /\ handlers[a] \in Seq(JsonMessages)
      BY DEF JsonInv, JsonTypeOK
    <3>3. CASE \E msg \in Coming(Across(e)) : msg.id = i - 1 /\ msg.method # "absent"
      BY <3>1, <3>2, <3>3, PendingIn DEF Coming
    <3>4. CASE \E msg \in Coming(e) : /\ msg.id = i - 1 /\ msg.method = "absent"
                                      /\ (msg.error \/ msg.result # << >>)
      BY <3>2, <3>4, PendingIn DEF Coming
    <3> QED
      BY <2>6, <3>3, <3>4 DEF Settles
  <2> QED
    BY <2>2, <2>3, <2>4, <2>5, <2>6 DEF PromiseSettles, reaches
<1> QED
  BY <1>1, JsonInvariance, PTL

-----------------------------------------------------------------------------
(***************************************************************************)
(* Rpc.  The near end calls and hands callbacks over, the far end has the  *)
(* apis and uses the callbacks.                                            *)
(***************************************************************************)
\* What the model's apis and arguments are called.
Handles == {"root", "login", "database", "history", "x", "y"}

AskedArgs == {<< >>} \cup {<<t>> : t \in Handles \cup {"nothing"}}

\* What a call has: what a method returns, an error, or nothing yet.
Answers ==
  {Null, Failed, Waiting} \cup {Number(n) : n \in Nat}
  \cup {Echoed(h, t) : h \in Handles \cup {"ghost", "callback"}, t \in Handles \cup {"nothing"}}

\* What was asked: which object, which method, with what.
Askings ==
  [handle : Handles \cup {"ghost", "callback"},
   method : {"open", "watch", "echo", "callback"}, args : AskedArgs]

ApiCalls == [asked : Askings, outcome : Answers]

\* A callback that an api holds, with the call it came in.
Functors == [callback_id : Nat, call : Nat]

Uses == Nat \X {"x", "y"}

\* The requests: of an api by its number or its name, of api 0, and of a callback.
ByNumber(id, n, method, args) == Request(id, "call", <<[id |-> n], method, args>>)

ByName(id, name) == Request(id, "call", <<[name |-> name], "echo", <<"x">>>>)

Plainly(id, args) == Request(id, "open", args)

Use(id, method, k, x) == Request(id, method, <<[id |-> k], <<x>>>>)

\* The requests that hand a callback over.
Watches == {ByNumber(id, n, "watch", <<k>>) : id \in Nat, n \in Nat, k \in Nat}

\* All that a websocket can carry.
RpcMessages ==
  Strays \cup {Response(id, r) : id \in Nat, r \in Answers}
  \cup {ByNumber(id, n, m, a) : id \in Nat, n \in Nat, m \in {"open", "echo"}, a \in AskedArgs}
  \cup Watches
  \cup {ByName(id, name) : id \in Nat, name \in {"database", "ghost"}}
  \cup {Plainly(id, a) : id \in Nat, a \in AskedArgs}
  \cup {Use(id, m, k, x) : id \in Nat, m \in {"callback", "notice"}, k \in Nat, x \in {"x", "y"}}

\* The state of an api connection.
RpcTypeOK ==
  /\ local_apis \in [Ends -> Seq(Handles)]
  /\ callbacks \in [Ends -> Seq(Nat)]
  /\ calls \in [Ends -> Seq(ApiCalls)]
  /\ awaiting \in [Ends -> SUBSET Nat]
  /\ held \in [Ends -> Seq(Functors)]
  /\ told \in [Ends -> Seq(Uses)]
  /\ heard \in [Ends -> Seq(Uses)]
  /\ net \in [Ends -> Seq(RpcMessages)]
  /\ open \in BOOLEAN
  /\ alive \in [Ends -> BOOLEAN]
  /\ strays \in Nat

\* The api objects of the far end: each has one number.
ApisSound(apis) ==
  /\ apis \in Seq(Handles) /\ Len(apis) >= 2 /\ apis[1] = "root" /\ apis[2] = "login"
  /\ \A i, j \in 1..Len(apis) : apis[i] = apis[j] => i = j

\* What was there stays as it is: numbers of apis and of callbacks, uses of callbacks.
Grown(s, t) == Len(s) <= Len(t) /\ \A i \in 1..Len(s) : t[i] = s[i]

\* What calls asked.
Carried(cs, ds) == Len(cs) <= Len(ds) /\ \A i \in 1..Len(cs) : ds[i].asked = cs[i].asked

\* Meant, for the objects of the end that answers.
MeantBy(apis, asked) ==
  IF asked.method = "callback" THEN {Null}
  ELSE IF asked.handle = "ghost" \/ asked.method \notin interface(asked.handle)
          \/ (asked.method # "watch" /\ Len(asked.args) < arity[asked.method])
  THEN {Failed}
  ELSE CASE asked.method = "echo"  -> {Echoed(asked.handle, asked.args[1])}
         [] asked.method = "watch" -> {Null}
         [] asked.method = "open" /\ asked.args[1] = "nothing" -> {Null}
         [] OTHER -> {Number(i - 1) : i \in {j \in DOMAIN apis : apis[j] = asked.args[1]}}

\* A request that asks what the call with this id asked, a callback in it being the call's own.
AsksFor(msg, id, asked, apis, cbs) ==
  \/ \E n \in Nat :
       /\ n + 1 \in 1..Len(apis) /\ apis[n + 1] = asked.handle
       /\ \/ asked.method \in {"open", "echo"} /\ msg = ByNumber(id, n, asked.method, asked.args)
          \/ /\ asked.method = "watch"
             /\ \E k \in Nat : /\ k + 1 \in 1..Len(cbs) /\ cbs[k + 1] = id
                               /\ msg = ByNumber(id, n, "watch", <<k>>)
  \/ \E name \in {"database", "ghost"} :
       msg = ByName(id, name) /\ asked = asking(name, "echo", <<"x">>)
  \/ msg = Plainly(id, asked.args) /\ asked.method = "open" /\ asked.handle = "root"

\* A response with an answer that is meant, and one to a message of another program.
AnswerFor(msg, cs, apis) ==
  \E id \in 1..Len(cs) : \E r \in MeantBy(apis, cs[id].asked) : msg = Response(id, r)

\* A message of another program, or the refusal of one.
FromElsewhere(msg) == msg \in Strays \/ msg = Response(MaxCalls + 1, Failed)

\* The near end has no apis.
NoApis == << >>

\* What may be under way to the far end and to the near one.
ToFar(msg, ncs, fcs, apis, cbs) ==
  \/ FromElsewhere(msg)
  \/ AnswerFor(msg, fcs, NoApis)
  \/ \E id \in 1..Len(ncs) : AsksFor(msg, id, ncs[id].asked, apis, cbs)

\* What is on the way to the near end.
ToNear(msg, ncs, fcs, apis, cbs) ==
  \/ FromElsewhere(msg)
  \/ AnswerFor(msg, ncs, apis)
  \/ \E id \in 0..Len(fcs), m \in {"callback", "notice"}, k \in Nat, x \in {"x", "y"} :
       msg = Use(id, m, k, x) /\ k + 1 \in 1..Len(cbs)

\* OnTheWay, by the messages out and in.
Way(i, out, in) ==
  \/ \E msg \in out : msg.is = "request" /\ msg.id = i
  \/ \E msg \in in : msg.is = "response" /\ msg.id = i

\* A call has the answer that is meant, or waits for something that is under way.
CallFine(c, i, apis, opened, waits, out, in) ==
  \/ c.outcome \in MeantBy(apis, c.asked)
  \/ ~opened /\ c.outcome \in {Waiting, Failed}
  \/ c.outcome = Waiting /\ i \in waits /\ Way(i, out, in)

\* All calls of an end, with the apis of the other one.
CallsFine(cs, apis, opened, waits, out, in) ==
  /\ Len(cs) <= MaxCalls /\ waits \subseteq 1..Len(cs)
  /\ \A i \in 1..Len(cs) : CallFine(cs[i], i, apis, opened, waits, out, in)

\* The functors of the far end lead to the callbacks they came with.
FunctorsSound(fns, cbs) ==
  \A i \in 1..Len(fns) : /\ fns[i].callback_id + 1 \in 1..Len(cbs)
                         /\ cbs[fns[i].callback_id + 1] = fns[i].call

\* The messages that make a callback run.
IsUse(msg) == msg.method \in {"callback", "notice"} /\ Len(msg.params) = 2

\* The callback that it runs, and with what.
Runs(msg, u, cbs) ==
  \E id \in Nat, m \in {"callback", "notice"}, k \in Nat, x \in {"x", "y"} :
    msg = Use(id, m, k, x) /\ k + 1 \in 1..Len(cbs) /\ u = <<cbs[k + 1], x>>

\* The uses that were told are those that were heard and then those under way, in their order:
\* up to the message j there are pos[j] uses.
Follows(ms, ts, hs, cbs) ==
  \E pos \in [0..Len(ms) -> Nat] :
    /\ pos[0] = Len(hs) /\ pos[Len(ms)] = Len(ts)
    /\ \A j \in 1..Len(ms) :
         /\ pos[j] = (IF IsUse(ms[j]) THEN pos[j - 1] + 1 ELSE pos[j - 1]) /\ pos[j] <= Len(ts)
         /\ IsUse(ms[j]) => Runs(ms[j], ts[pos[j]], cbs)

\* The parts of a connection that belong together: the apis and functors of the far end, the
\* callbacks of the near one, calls and promises of both, uses told and heard, and the messages.
Connected(apis, ncs, fcs, cbs, nws, fws, fns, ts, hs, nms, fms, opened) ==
  /\ /\ ncs \in Seq(ApiCalls) /\ fcs \in Seq(ApiCalls) /\ cbs \in Seq(Nat)
     /\ fns \in Seq(Functors) /\ ts \in Seq(Uses) /\ hs \in Seq(Uses)
     /\ nms \in Seq(RpcMessages) /\ fms \in Seq(RpcMessages) /\ opened \in BOOLEAN
  /\ ApisSound(apis)
  /\ \A i \in 1..Len(fcs) : fcs[i].asked.method = "callback"
  /\ \A msg \in ToSet(fms) : ToFar(msg, ncs, fcs, apis, cbs)
  /\ \A msg \in ToSet(nms) : ToNear(msg, ncs, fcs, apis, cbs)
  /\ CallsFine(ncs, apis, opened, nws, ToSet(fms), ToSet(nms))
  /\ CallsFine(fcs, NoApis, opened, fws, ToSet(nms), ToSet(fms))
  /\ FunctorsSound(fns, cbs)
  /\ Grown(hs, ts)
  /\ opened => Follows(nms, ts, hs, cbs)

\* The inductive invariant.
RpcInv ==
  /\ RpcTypeOK
  /\ local_apis["near"] = NoApis /\ heard["far"] = << >> /\ told["near"] = << >>
  /\ Connected(local_apis["far"], calls["near"], calls["far"], callbacks["near"],
               awaiting["near"], awaiting["far"], held["far"], told["far"], heard["near"],
               net["near"], net["far"], open)

-----------------------------------------------------------------------------
\* The two ends.
LEMMA TwoEnds ==
    /\ Ends = {"near", "far"} /\ "near" # "far"
    /\ Other("near") = "far" /\ Other("far") = "near"
  BY DEF Ends, Other

\* The requests are messages.
LEMMA RequestsAre ==
    ASSUME NEW id \in Nat, NEW n \in Nat
    PROVE  /\ \A m \in {"open", "echo"}, a \in AskedArgs : ByNumber(id, n, m, a) \in RpcMessages
           /\ \A k \in Nat : ByNumber(id, n, "watch", <<k>>) \in RpcMessages
           /\ \A m \in {"callback", "notice"}, x \in {"x", "y"} : Use(id, m, n, x) \in RpcMessages
<1>1. \A m \in {"open", "echo"}, a \in AskedArgs : ByNumber(id, n, m, a) \in RpcMessages
  BY DEF RpcMessages
<1>2. \A k \in Nat : ByNumber(id, n, "watch", <<k>>) \in RpcMessages
  <2>1. \A k \in Nat : ByNumber(id, n, "watch", <<k>>) \in Watches
    BY DEF Watches
  <2>2. Watches \subseteq RpcMessages
    BY DEF RpcMessages
  <2> QED
    BY <2>1, <2>2
<1>3. \A m \in {"callback", "notice"}, x \in {"x", "y"} : Use(id, m, n, x) \in RpcMessages
  BY DEF RpcMessages
<1> QED
  BY <1>1, <1>2, <1>3

\* What is meant stays meant when the other end has more apis.
LEMMA MeantGrows ==
    ASSUME NEW s \in Seq(Handles), NEW t \in Seq(Handles), Grown(s, t), NEW asked
    PROVE  MeantBy(s, asked) \subseteq MeantBy(t, asked)
<1>1. DOMAIN s = 1..Len(s) /\ DOMAIN t = 1..Len(t) /\ Len(s) \in Nat /\ Len(t) \in Nat
  BY LenProperties
<1>2. \A i \in DOMAIN s : i \in DOMAIN t /\ t[i] = s[i]
  BY <1>1 DEF Grown
<1> QED
  BY <1>2 DEF MeantBy

\* Nothing that an expected message is about is lost.
LEMMA ExpectedGrows ==
    ASSUME NEW apis \in Seq(Handles), NEW bpis \in Seq(Handles), Grown(apis, bpis),
           NEW ncs \in Seq(ApiCalls), NEW mcs \in Seq(ApiCalls), Carried(ncs, mcs),
           NEW fcs \in Seq(ApiCalls), NEW gcs \in Seq(ApiCalls), Carried(fcs, gcs),
           NEW cbs \in Seq(Nat), NEW dbs \in Seq(Nat), Grown(cbs, dbs), NEW msg
    PROVE  /\ ToFar(msg, ncs, fcs, apis, cbs) => ToFar(msg, mcs, gcs, bpis, dbs)
           /\ ToNear(msg, ncs, fcs, apis, cbs) => ToNear(msg, mcs, gcs, bpis, dbs)
<1>1. /\ Len(apis) \in Nat /\ Len(bpis) \in Nat /\ Len(ncs) \in Nat /\ Len(mcs) \in Nat
      /\ Len(fcs) \in Nat /\ Len(gcs) \in Nat /\ Len(cbs) \in Nat /\ Len(dbs) \in Nat
  BY LenProperties
<1>2. AnswerFor(msg, ncs, apis) => AnswerFor(msg, mcs, bpis)
  <2> SUFFICES ASSUME NEW id \in 1..Len(ncs), NEW r \in MeantBy(apis, ncs[id].asked), msg = Response(id, r)
               PROVE  AnswerFor(msg, mcs, bpis)
    BY DEF AnswerFor
  <2>1. id \in 1..Len(mcs) /\ mcs[id].asked = ncs[id].asked
    BY <1>1 DEF Carried
  <2>2. r \in MeantBy(bpis, mcs[id].asked)
    BY <2>1, MeantGrows
  <2> QED
    BY <2>1, <2>2 DEF AnswerFor
<1>3. AnswerFor(msg, fcs, NoApis) => AnswerFor(msg, gcs, NoApis)
  <2> SUFFICES ASSUME NEW id \in 1..Len(fcs), NEW r \in MeantBy(NoApis, fcs[id].asked), msg = Response(id, r)
               PROVE  AnswerFor(msg, gcs, NoApis)
    BY DEF AnswerFor
  <2>1. id \in 1..Len(gcs) /\ gcs[id].asked = fcs[id].asked
    BY <1>1 DEF Carried
  <2> QED
    BY <2>1 DEF AnswerFor
<1>4. ASSUME NEW id \in 1..Len(ncs), AsksFor(msg, id, ncs[id].asked, apis, cbs)
      PROVE  id \in 1..Len(mcs) /\ AsksFor(msg, id, mcs[id].asked, bpis, dbs)
  <2>1. id \in 1..Len(mcs) /\ mcs[id].asked = ncs[id].asked
    BY <1>1 DEF Carried
  <2>2. \A n \in Nat : n + 1 \in 1..Len(apis) => n + 1 \in 1..Len(bpis) /\ bpis[n + 1] = apis[n + 1]
    BY <1>1 DEF Grown
  <2>3. \A k \in Nat : k + 1 \in 1..Len(cbs) => k + 1 \in 1..Len(dbs) /\ dbs[k + 1] = cbs[k + 1]
    BY <1>1 DEF Grown
  <2>4. AsksFor(msg, id, ncs[id].asked, bpis, dbs)
    BY <1>4, <2>2, <2>3 DEF AsksFor
  <2> QED
    BY <2>1, <2>4
<1>5. ToFar(msg, ncs, fcs, apis, cbs) => ToFar(msg, mcs, gcs, bpis, dbs)
  BY <1>3, <1>4 DEF ToFar
<1>6. ToNear(msg, ncs, fcs, apis, cbs) => ToNear(msg, mcs, gcs, bpis, dbs)
  <2>1. 0..Len(fcs) \subseteq 0..Len(gcs)
    BY <1>1 DEF Carried
  <2>2. \A k \in Nat : k + 1 \in 1..Len(cbs) => k + 1 \in 1..Len(dbs)
    BY <1>1 DEF Grown
  <2> QED
    BY <1>2, <2>1, <2>2 DEF ToNear
<1> QED
  BY <1>5, <1>6

\* The calls of an end when more is under way and the other end has more apis.
LEMMA CallsFineGrow ==
    ASSUME NEW s \in Seq(Handles), NEW t \in Seq(Handles), Grown(s, t), NEW cs \in Seq(ApiCalls),
           NEW opened \in BOOLEAN, NEW waits, NEW out, NEW in, NEW out2, NEW in2,
           out \subseteq out2, in \subseteq in2, CallsFine(cs, s, opened, waits, out, in)
    PROVE  CallsFine(cs, t, opened, waits, out2, in2)
<1>1. \A i : Way(i, out, in) => Way(i, out2, in2)
  BY DEF Way
<1>2. \A i \in 1..Len(cs) : MeantBy(s, cs[i].asked) \subseteq MeantBy(t, cs[i].asked)
  BY MeantGrows
<1> QED
  BY <1>1, <1>2 DEF CallsFine, CallFine

\* They close with the websocket, and what was awaited may be forgotten.
LEMMA CallsFineClose ==
    ASSUME NEW s, NEW cs \in Seq(ApiCalls), NEW opened \in BOOLEAN, NEW waits, NEW some, some \subseteq waits,
           NEW out, NEW in, NEW out2, NEW in2, CallsFine(cs, s, opened, waits, out, in)
    PROVE  CallsFine(cs, s, FALSE, some, out2, in2)
  BY DEF CallsFine, CallFine

\* One more call, with its request.
LEMMA CallsFineCall ==
    ASSUME NEW s, NEW cs \in Seq(ApiCalls), NEW opened \in BOOLEAN, NEW waits, NEW out, NEW in, NEW out2,
           out \subseteq out2, CallsFine(cs, s, opened, waits, out, in),
           NEW c \in ApiCalls, c.outcome = IF opened THEN Waiting ELSE Failed,
           Len(cs) < MaxCalls,
           opened => \E msg \in out2 : msg.is = "request" /\ msg.id = Len(cs) + 1
    PROVE  CallsFine(Append(cs, c), s, opened, waits \cup {Len(cs) + 1}, out2, in)
<1>1. /\ Len(Append(cs, c)) = Len(cs) + 1 /\ Len(cs) \in Nat
      /\ \A i \in 1..Len(cs) : Append(cs, c)[i] = cs[i]
      /\ Append(cs, c)[Len(cs) + 1] = c
  BY ElementsOfAppend, LenProperties
<1>2. Len(Append(cs, c)) <= MaxCalls /\ waits \cup {Len(cs) + 1} \subseteq 1..Len(Append(cs, c))
  <2>1. Len(cs) + 1 <= MaxCalls
    BY <1>1, RpcAssumption
  <2>2. waits \subseteq 1..Len(cs) /\ 1..Len(cs) \subseteq 1..Len(cs) + 1 /\ Len(cs) + 1 \in 1..Len(cs) + 1
    BY <1>1 DEF CallsFine
  <2> QED
    BY <1>1, <2>1, <2>2
<1>3. ASSUME NEW i \in 1..Len(cs)
      PROVE  CallFine(Append(cs, c)[i], i, s, opened, waits \cup {Len(cs) + 1}, out2, in)
  BY <1>1, <1>3 DEF CallsFine, CallFine, Way
<1>4. CallFine(c, Len(cs) + 1, s, opened, waits \cup {Len(cs) + 1}, out2, in)
  BY DEF CallFine, Way
<1>5. \A i \in 1..Len(cs) + 1 : i \in 1..Len(cs) \/ i = Len(cs) + 1
  BY <1>1
<1> QED
  BY <1>1, <1>2, <1>3, <1>4, <1>5 DEF CallsFine

\* A message that is no response to a call comes out of the network.
LEMMA CallsFineIn ==
    ASSUME NEW s, NEW cs \in Seq(ApiCalls), NEW opened \in BOOLEAN, NEW waits, NEW out, NEW in, NEW in2,
           NEW msg, in = {msg} \cup in2, CallsFine(cs, s, opened, waits, out, in),
           msg.is # "response" \/ msg.id \notin waits
    PROVE  CallsFine(cs, s, opened, waits, out, in2)
  BY DEF CallsFine, CallFine, Way

\* A request of it that is answered, or no request of it.
LEMMA CallsFineOut ==
    ASSUME NEW s, NEW cs \in Seq(ApiCalls), NEW opened \in BOOLEAN, NEW waits, NEW out, NEW in, NEW out2, NEW in2,
           NEW msg, out = {msg} \cup out2, in \subseteq in2, CallsFine(cs, s, opened, waits, out, in),
           \/ msg.is # "request" \/ msg.id \notin 1..Len(cs)
           \/ \E r \in in2 : r.is = "response" /\ r.id = msg.id
    PROVE  CallsFine(cs, s, opened, waits, out2, in2)
  BY DEF CallsFine, CallFine, Way

\* The calls once the reply has come.
WithReply(cs, msg) == [cs EXCEPT ![msg.id].outcome = msg.result]

\* The response that a call waits for.
LEMMA CallsFineReply ==
    ASSUME NEW s, NEW cs \in Seq(ApiCalls), NEW opened \in BOOLEAN, NEW waits, NEW out, NEW in, NEW in2,
           NEW msg, in = {msg} \cup in2, CallsFine(cs, s, opened, waits, out, in),
           msg.id \in waits, msg.result \in Answers, msg.result \in MeantBy(s, cs[msg.id].asked)
    PROVE  /\ CallsFine(WithReply(cs, msg), s, opened, waits \ {msg.id}, out, in2)
           /\ WithReply(cs, msg) \in Seq(ApiCalls) /\ Carried(cs, WithReply(cs, msg))
           /\ Len(WithReply(cs, msg)) = Len(cs)
<1> DEFINE es == [cs EXCEPT ![msg.id].outcome = msg.result]
<1>1. Len(cs) \in Nat /\ DOMAIN cs = 1..Len(cs) /\ cs \in [1..Len(cs) -> ApiCalls] /\ msg.id \in 1..Len(cs)
  BY LenProperties DEF CallsFine
<1>2. es \in Seq(ApiCalls) /\ Len(es) = Len(cs) /\ DOMAIN es = 1..Len(cs)
  <2>1. es \in [1..Len(cs) -> ApiCalls]
    BY <1>1 DEF ApiCalls
  <2> HIDE DEF es
  <2> QED
    BY <1>1, <2>1, SeqDef, LenProperties
<1>3. \A i \in 1..Len(cs) : i # msg.id => es[i] = cs[i]
  BY <1>1
<1>4. es[msg.id].outcome = msg.result /\ es[msg.id].asked = cs[msg.id].asked
  BY <1>1 DEF ApiCalls
<1> HIDE DEF es
<1>5. \A i \in 1..Len(cs) : CallFine(es[i], i, s, opened, waits \ {msg.id}, out, in2)
  <2> SUFFICES ASSUME NEW i \in 1..Len(cs)
               PROVE  CallFine(es[i], i, s, opened, waits \ {msg.id}, out, in2)
    OBVIOUS
  <2>1. CASE i = msg.id
    BY <1>4, <2>1 DEF CallFine
  <2>2. CASE i # msg.id
    BY <1>3, <2>2 DEF CallsFine, CallFine, Way
  <2> QED
    BY <2>1, <2>2
<1>6. CallsFine(es, s, opened, waits \ {msg.id}, out, in2)
  BY <1>2, <1>5 DEF CallsFine
<1>7. Carried(cs, es)
  BY <1>1, <1>2, <1>3, <1>4 DEF Carried
<1> QED
  BY <1>2, <1>6, <1>7 DEF es, WithReply

-----------------------------------------------------------------------------
\* Appending to a sequence keeps what it has.
LEMMA GrownByAppend ==
    ASSUME NEW S, NEW s \in Seq(S), NEW e \in S
    PROVE  Grown(s, Append(s, e)) /\ Grown(s, s)
  BY ElementsOfAppend, LenProperties DEF Grown

\* register_api gives the object one number and leaves the others.
LEMMA Registered ==
    ASSUME NEW apis, ApisSound(apis), NEW h \in Handles
    PROVE  /\ ApisSound(register_api(apis, h)) /\ Grown(apis, register_api(apis, h))
           /\ api_id(register_api(apis, h), h) \in Nat
           /\ api_id(register_api(apis, h), h) + 1 \in 1..Len(register_api(apis, h))
           /\ register_api(apis, h)[api_id(register_api(apis, h), h) + 1] = h
<1> DEFINE t == register_api(apis, h)
<1>1. apis \in Seq(Handles) /\ Len(apis) \in Nat /\ Len(apis) >= 2
  BY LenProperties DEF ApisSound
<1>2. ApisSound(t) /\ Grown(apis, t) /\ \E i \in 1..Len(t) : t[i] = h
  <2>1. CASE \E i \in 1..Len(apis) : apis[i] = h
    <3>1. t = apis
      BY <2>1 DEF register_api, Contains
    <3> QED
      BY <1>1, <2>1, <3>1 DEF Grown
  <2>2. CASE ~\E i \in 1..Len(apis) : apis[i] = h
    <3>1. t = Append(apis, h)
      BY <2>2 DEF register_api, Contains
    <3>2. /\ t \in Seq(Handles) /\ Len(t) = Len(apis) + 1
          /\ \A i \in 1..Len(apis) : t[i] = apis[i]
          /\ t[Len(apis) + 1] = h
      BY <1>1, <3>1, ElementsOfAppend
    <3> HIDE DEF t
    <3>3. \A i \in 1..Len(t) : i \in 1..Len(apis) \/ i = Len(apis) + 1
      BY <1>1, <3>2
    <3>4. ApisSound(t)
      <4>1. 1 \in 1..Len(apis) /\ 2 \in 1..Len(apis) /\ Len(t) >= 2
        BY <1>1, <3>2
      <4>2. \A i, j \in 1..Len(t) : t[i] = t[j] => i = j
        BY <2>2, <3>2, <3>3 DEF ApisSound
      <4> QED
        BY <3>2, <4>1, <4>2 DEF ApisSound
    <3>5. Len(apis) + 1 \in 1..Len(t) /\ Len(apis) <= Len(t)
      BY <1>1, <3>2
    <3> QED
      BY <3>2, <3>4, <3>5 DEF Grown
  <2> QED
    BY <2>1, <2>2
<1> HIDE DEF t
<1>3. DOMAIN t = 1..Len(t) /\ Len(t) \in Nat
  BY <1>2, LenProperties DEF ApisSound
<1>4. PICK i \in 1..Len(t) : t[i] = h /\ api_id(t, h) = i - 1
  BY <1>2, <1>3 DEF api_id
<1>5. i - 1 \in Nat /\ i - 1 + 1 = i
  BY <1>3
<1>6. /\ api_id(t, h) \in Nat /\ api_id(t, h) + 1 \in 1..Len(t) /\ t[api_id(t, h) + 1] = h
  BY <1>4, <1>5
<1> QED
  BY <1>2, <1>6 DEF t

\* What end_of says of an end.
AnEnd(apis, fns, cbs, hs, r) ==
  [apis |-> apis, functors |-> fns, callbacks |-> cbs, heard |-> hs, result |-> r]

\* Arguments and their numbers.
LEMMA ArgsHaveOne ==
    ASSUME NEW a \in AskedArgs
    PROVE  \/ a = << >> /\ Len(a) = 0
           \/ Len(a) = 1 /\ a[1] \in Handles \cup {"nothing"}
  BY DEF AskedArgs

\* Each method takes what its caller passes.
LEMMA Arities ==
    arity["open"] = 1 /\ arity["watch"] = 1 /\ arity["echo"] = 1 /\ arity["database"] = 0
  BY DEF arity

\* A request is done: what asked was meant to have comes out, the apis grow, and the functors
\* lead to callbacks of the other end.
CallDone(got, apis, cbs, own, hs, asked) ==
  \E bpis, gns, res :
    /\ got = AnEnd(bpis, gns, own, hs, res)
    /\ ApisSound(bpis) /\ Grown(apis, bpis)
    /\ gns \in Seq(Functors) /\ FunctorsSound(gns, cbs)
    /\ res \in MeantBy(bpis, asked) /\ res \in Answers

\* receive_call of a method that was meant for this object.
LEMMA ReceivedCall ==
    ASSUME NEW apis, ApisSound(apis), NEW fns \in Seq(Functors), NEW cbs, FunctorsSound(fns, cbs),
           NEW own, NEW hs, NEW r, NEW n \in Nat, NEW c, n + 1 \in 1..Len(apis),
           NEW asked \in Askings, apis[n + 1] = asked.handle, asked.method \in {"open", "echo"}
    PROVE  CallDone(receive_call(AnEnd(apis, fns, own, hs, r), n, asked.method, asked.args, c),
                    apis, cbs, own, hs, asked)
<1> DEFINE m == asked.method
           a == asked.args
           h == asked.handle
           got == receive_call(AnEnd(apis, fns, own, hs, r), n, m, a, c)
<1>1. /\ Len(apis) \in Nat /\ Len(apis) > n /\ Grown(apis, apis)
      /\ h \in Handles /\ h # "ghost" /\ a \in AskedArgs
  BY LenProperties DEF ApisSound, Grown, Handles, Askings
<1>2. callable(apis, n, m, a) <=> m \in interface(h) /\ Len(a) >= 1
  BY <1>1, Arities DEF callable
<1>3. Len(a) \in {0, 1} /\ (Len(a) = 1 => a[1] \in Handles \cup {"nothing"})
  BY <1>1, ArgsHaveOne
<1>4. CASE ~callable(apis, n, m, a)
  <2>1. got = AnEnd(apis, fns, own, hs, Failed)
    BY <1>4 DEF receive_call, AnEnd
  <2>2. Failed \in MeantBy(apis, asked)
    BY <1>1, <1>2, <1>3, <1>4, Arities DEF MeantBy
  <2> QED
    BY <1>1, <2>1, <2>2 DEF Answers, CallDone
<1>5. CASE callable(apis, n, m, a) /\ m = "echo"
  <2>1. got = AnEnd(apis, fns, own, hs, Echoed(h, a[1]))
    BY <1>5 DEF receive_call, AnEnd, registered, returned
  <2>2. Echoed(h, a[1]) \in MeantBy(apis, asked)
    BY <1>1, <1>2, <1>3, <1>5, Arities DEF MeantBy
  <2>3. Echoed(h, a[1]) \in Answers
    BY <1>1, <1>2, <1>3, <1>5 DEF Answers
  <2> QED
    BY <1>1, <2>1, <2>2, <2>3 DEF CallDone
<1>6. CASE callable(apis, n, m, a) /\ m = "open" /\ a[1] = "nothing"
  <2>1. got = AnEnd(apis, fns, own, hs, Null)
    BY <1>6 DEF receive_call, AnEnd, registered, returned
  <2>2. Null \in MeantBy(apis, asked)
    BY <1>1, <1>2, <1>3, <1>6, Arities DEF MeantBy
  <2> QED
    BY <1>1, <2>1, <2>2 DEF Answers, CallDone
<1>7. CASE callable(apis, n, m, a) /\ m = "open" /\ a[1] # "nothing"
  <2> DEFINE t == register_api(apis, a[1])
             k == api_id(t, a[1])
  <2>1. a[1] \in Handles
    BY <1>2, <1>3, <1>7
  <2>2. ApisSound(t) /\ Grown(apis, t) /\ k \in Nat /\ k + 1 \in 1..Len(t) /\ t[k + 1] = a[1]
    BY <2>1, Registered
  <2>3. got = AnEnd(t, fns, own, hs, Number(k))
    BY <1>7 DEF receive_call, AnEnd, registered, returned
  <2> HIDE DEF t, k
  <2>4. Number(k) \in MeantBy(t, asked)
    <3>1. MeantBy(t, asked) = {Number(i - 1) : i \in {j \in DOMAIN t : t[j] = a[1]}}
      BY <1>1, <1>2, <1>3, <1>7, Arities DEF MeantBy
    <3>2. k + 1 \in DOMAIN t /\ k = k + 1 - 1
      BY <2>2, LenProperties DEF ApisSound
    <3> QED
      BY <2>2, <3>1, <3>2
  <2> QED
    BY <2>2, <2>3, <2>4 DEF Answers, CallDone
<1> QED
  BY <1>4, <1>5, <1>6, <1>7

\* And of a method that takes a callback.
LEMMA ReceivedWatch ==
    ASSUME NEW apis, ApisSound(apis), NEW fns \in Seq(Functors), NEW cbs, FunctorsSound(fns, cbs),
           NEW own, NEW hs, NEW r, NEW n \in Nat, NEW c \in Nat, n + 1 \in 1..Len(apis),
           NEW asked \in Askings, apis[n + 1] = asked.handle, asked.method = "watch",
           NEW k \in Nat, k + 1 \in 1..Len(cbs), cbs[k + 1] = c
    PROVE  CallDone(receive_call(AnEnd(apis, fns, own, hs, r), n, "watch", <<k>>, c),
                    apis, cbs, own, hs, asked)
<1> DEFINE h == asked.handle
           got == receive_call(AnEnd(apis, fns, own, hs, r), n, "watch", <<k>>, c)
<1>1. Grown(apis, apis) /\ Len(apis) \in Nat /\ Len(apis) > n /\ h \in Handles /\ h # "ghost"
  BY LenProperties DEF ApisSound, Handles, Askings, Grown
<1>2. callable(apis, n, "watch", <<k>>) <=> "watch" \in interface(h)
  BY <1>1, Arities DEF callable
<1>3. CASE ~callable(apis, n, "watch", <<k>>)
  <2>1. got = AnEnd(apis, fns, own, hs, Failed)
    BY <1>3 DEF receive_call, AnEnd
  <2>2. Failed \in MeantBy(apis, asked)
    BY <1>1, <1>2, <1>3 DEF MeantBy
  <2> QED
    BY <1>1, <2>1, <2>2 DEF Answers, CallDone
<1>4. CASE callable(apis, n, "watch", <<k>>)
  <2> DEFINE f == [callback_id |-> k, call |-> c]
             gns == Append(fns, f)
  <2>1. got = AnEnd(apis, gns, own, hs, Null)
    BY <1>4 DEF receive_call, AnEnd, registered, returned
  <2>2. Null \in MeantBy(apis, asked)
    BY <1>1, <1>2, <1>4 DEF MeantBy
  <2>3. f \in Functors /\ f.callback_id = k /\ f.call = c
    BY DEF Functors
  <2> HIDE DEF f
  <2>4. /\ gns \in Seq(Functors) /\ Len(gns) = Len(fns) + 1 /\ Len(fns) \in Nat
        /\ \A i \in 1..Len(fns) : gns[i] = fns[i]
        /\ gns[Len(fns) + 1] = f
    BY <2>3, ElementsOfAppend, LenProperties
  <2> HIDE DEF gns
  <2>5. FunctorsSound(gns, cbs)
    <3>1. \A i \in 1..Len(gns) : i \in 1..Len(fns) \/ i = Len(fns) + 1
      BY <2>4
    <3> QED
      BY <2>3, <2>4, <3>1 DEF FunctorsSound
  <2> QED
    BY <1>1, <2>1, <2>2, <2>4, <2>5 DEF Answers, CallDone
<1> QED
  BY <1>3, <1>4

\* The parts of the messages.
LEMMA RequestParts ==
    ASSUME NEW id, NEW method, NEW params
    PROVE  /\ Request(id, method, params).is = "request" /\ Request(id, method, params).id = id
           /\ Request(id, method, params).method = method
           /\ Request(id, method, params).params = params
  BY DEF Request

\* The fields of a reply.
LEMMA ResponseParts ==
    ASSUME NEW id, NEW r
    PROVE  /\ Response(id, r).is = "response" /\ Response(id, r).id = id
           /\ Response(id, r).method = "none" /\ Response(id, r).result = r
  BY DEF Response

\* The far end does what a request of the near one asks.
LEMMA Served ==
    ASSUME NEW apis, ApisSound(apis), NEW fns \in Seq(Functors), NEW cbs \in Seq(Nat), NEW own, NEW hs,
           NEW id \in Nat, NEW asked \in Askings, NEW msg, AsksFor(msg, id, asked, apis, cbs),
           FunctorsSound(fns, cbs)
    PROVE  /\ msg.is = "request" /\ msg.id = id
           /\ CallDone(local_call(AnEnd(apis, fns, own, hs, Null), msg.method, msg.params, msg.id),
                       apis, cbs, own, hs, asked)
<1> DEFINE end == AnEnd(apis, fns, own, hs, Null)
<1>1. Len(apis) \in Nat /\ Len(apis) >= 2 /\ apis \in Seq(Handles) /\ Grown(apis, apis)
  BY LenProperties DEF ApisSound, Grown
<1>2. ASSUME NEW n \in Nat, n + 1 \in 1..Len(apis), apis[n + 1] = asked.handle, NEW a,
             msg = ByNumber(id, n, asked.method, a)
      PROVE  /\ msg.is = "request" /\ msg.id = id
             /\ local_call(end, msg.method, msg.params, msg.id)
                  = receive_call(AnEnd(apis, fns, own, hs, Number(n)), n, asked.method, a, id)
  <2> DEFINE ps == <<[id |-> n], asked.method, a>>
  <2>1. msg.is = "request" /\ msg.id = id /\ msg.method = "call" /\ msg.params = ps
    BY <1>2, RequestParts DEF ByNumber
  <2>2. Len(ps) = 3 /\ ps[1] = [id |-> n] /\ ps[2] = asked.method /\ ps[3] = a
    OBVIOUS
  <2>3. "name" \notin DOMAIN [id |-> n] /\ [id |-> n].id = n
    OBVIOUS
  <2> HIDE DEF ps
  <2>4. named(end, ps) = AnEnd(apis, fns, own, hs, Number(n))
    BY <2>2, <2>3 DEF named, AnEnd
  <2>5. /\ AnEnd(apis, fns, own, hs, Number(n)).result.is = "api"
        /\ AnEnd(apis, fns, own, hs, Number(n)).result.of[1] = n
    BY DEF AnEnd, Number
  <2>6. call_method(end, ps, id) = receive_call(AnEnd(apis, fns, own, hs, Number(n)), n, asked.method, a, id)
    BY <2>2, <2>4, <2>5 DEF call_method
  <2> QED
    BY <2>1, <2>6 DEF local_call
<1>3. ASSUME NEW n \in Nat, n + 1 \in 1..Len(apis), apis[n + 1] = asked.handle,
             asked.method \in {"open", "echo"}, msg = ByNumber(id, n, asked.method, asked.args)
      PROVE  /\ msg.is = "request" /\ msg.id = id
             /\ CallDone(local_call(end, msg.method, msg.params, msg.id), apis, cbs, own, hs, asked)
  <2>1. /\ msg.is = "request" /\ msg.id = id
        /\ local_call(end, msg.method, msg.params, msg.id)
             = receive_call(AnEnd(apis, fns, own, hs, Number(n)), n, asked.method, asked.args, id)
    BY <1>2, <1>3
  <2>2. CallDone(receive_call(AnEnd(apis, fns, own, hs, Number(n)), n, asked.method, asked.args, id),
                 apis, cbs, own, hs, asked)
    BY <1>3, ReceivedCall
  <2> QED
    BY <2>1, <2>2
<1>4. ASSUME NEW n \in Nat, n + 1 \in 1..Len(apis), apis[n + 1] = asked.handle,
             asked.method = "watch", NEW k \in Nat, msg = ByNumber(id, n, "watch", <<k>>),
             k + 1 \in 1..Len(cbs), cbs[k + 1] = id
      PROVE  /\ msg.is = "request" /\ msg.id = id
             /\ CallDone(local_call(end, msg.method, msg.params, msg.id), apis, cbs, own, hs, asked)
  <2>1. msg = ByNumber(id, n, asked.method, <<k>>)
    BY <1>4
  <2>2. /\ msg.is = "request" /\ msg.id = id
        /\ local_call(end, msg.method, msg.params, msg.id)
             = receive_call(AnEnd(apis, fns, own, hs, Number(n)), n, "watch", <<k>>, id)
    BY <1>2, <1>4, <2>1
  <2>3. CallDone(receive_call(AnEnd(apis, fns, own, hs, Number(n)), n, "watch", <<k>>, id),
                 apis, cbs, own, hs, asked)
    BY <1>4, ReceivedWatch
  <2> QED
    BY <2>2, <2>3
<1>5. ASSUME NEW name \in {"database", "ghost"}, msg = ByName(id, name), asked = asking(name, "echo", <<"x">>)
      PROVE  /\ msg.is = "request" /\ msg.id = id
             /\ CallDone(local_call(end, msg.method, msg.params, msg.id), apis, cbs, own, hs, asked)
  <2> DEFINE ps == <<[name |-> name], "echo", <<"x">>>>
  <2>1. msg.is = "request" /\ msg.id = id /\ msg.method = "call" /\ msg.params = ps
    BY <1>5, RequestParts DEF ByName
  <2>2. Len(ps) = 3 /\ ps[1] = [name |-> name] /\ ps[2] = "echo" /\ ps[3] = <<"x">>
    OBVIOUS
  <2>3. "name" \in DOMAIN [name |-> name] /\ [name |-> name].name = name
    OBVIOUS
  <2> HIDE DEF ps
  <2>4. named(end, ps) = receive_call(end, 1, name, << >>, 0)
    BY <2>2, <2>3 DEF named
  <2>5. asked.method = "echo" /\ asked.handle = name /\ asked.args = <<"x">>
    BY <1>5 DEF asking
  <2>6. CASE name = "ghost"
    <3>1. ~callable(apis, 1, name, << >>)
      BY <1>1, <2>6 DEF callable, interface, ApisSound
    <3>2. named(end, ps) = AnEnd(apis, fns, own, hs, Failed)
      BY <2>4, <3>1 DEF receive_call, AnEnd
    <3>3. AnEnd(apis, fns, own, hs, Failed).result.is # "api"
      BY DEF AnEnd, Failed
    <3>4. local_call(end, msg.method, msg.params, msg.id) = AnEnd(apis, fns, own, hs, Failed)
      BY <2>1, <2>2, <3>2, <3>3 DEF local_call, call_method
    <3>5. Failed \in MeantBy(apis, asked)
      BY <2>5, <2>6 DEF MeantBy
    <3> QED
      BY <1>1, <2>1, <3>4, <3>5 DEF Answers, CallDone
  <2>7. CASE name = "database"
    <3> DEFINE t == register_api(apis, "database")
               n == api_id(t, "database")
    <3>1. callable(apis, 1, name, << >>)
      BY <1>1, <2>7, Arities DEF callable, interface, ApisSound
    <3>2. "database" \in Handles
      BY DEF Handles
    <3>3. ApisSound(t) /\ Grown(apis, t) /\ n \in Nat /\ n + 1 \in 1..Len(t) /\ t[n + 1] = "database"
      BY <3>2, Registered
    <3>4. named(end, ps) = AnEnd(t, fns, own, hs, Number(n))
      BY <2>4, <2>7, <3>1 DEF receive_call, AnEnd, registered, returned
    <3> HIDE DEF t, n
    <3>5. /\ AnEnd(t, fns, own, hs, Number(n)).result.is = "api"
          /\ AnEnd(t, fns, own, hs, Number(n)).result.of[1] = n
      BY DEF AnEnd, Number
    <3>6. call_method(end, ps, id) = receive_call(AnEnd(t, fns, own, hs, Number(n)), n, "echo", <<"x">>, id)
      BY <2>2, <3>4, <3>5 DEF call_method
    <3>7. n + 1 \in 1..Len(t) /\ t[n + 1] = asked.handle /\ asked.method \in {"open", "echo"}
      BY <2>5, <2>7, <3>3
    <3>8. CallDone(receive_call(AnEnd(t, fns, own, hs, Number(n)), n, asked.method, asked.args, id),
                   t, cbs, own, hs, asked)
      BY <3>3, <3>7, ReceivedCall
    <3>9. CallDone(receive_call(AnEnd(t, fns, own, hs, Number(n)), n, asked.method, asked.args, id),
                   apis, cbs, own, hs, asked)
      <4>1. Len(t) \in Nat
        BY <3>3, LenProperties DEF ApisSound
      <4>2. \A bpis : ApisSound(bpis) /\ Grown(t, bpis) => Grown(apis, bpis)
        <5> SUFFICES ASSUME NEW bpis, ApisSound(bpis), Grown(t, bpis) PROVE Grown(apis, bpis)
          OBVIOUS
        <5>1. Len(bpis) \in Nat
          BY LenProperties DEF ApisSound
        <5> QED
          BY <1>1, <3>3, <4>1, <5>1 DEF Grown
      <4> QED
        BY <3>8, <4>2 DEF CallDone
    <3>10. local_call(end, msg.method, msg.params, msg.id)
             = receive_call(AnEnd(t, fns, own, hs, Number(n)), n, asked.method, asked.args, id)
      BY <2>1, <2>5, <3>6 DEF local_call
    <3> QED
      BY <2>1, <3>9, <3>10
  <2> QED
    BY <2>6, <2>7
<1>6. ASSUME msg = Plainly(id, asked.args), asked.method = "open", asked.handle = "root"
      PROVE  /\ msg.is = "request" /\ msg.id = id
             /\ CallDone(local_call(end, msg.method, msg.params, msg.id), apis, cbs, own, hs, asked)
  <2>1. msg.is = "request" /\ msg.id = id /\ msg.method = "open" /\ msg.params = asked.args
    BY <1>6, RequestParts DEF Plainly
  <2>2. local_call(end, msg.method, msg.params, msg.id) = receive_call(end, 0, asked.method, asked.args, id)
    BY <1>6, <2>1 DEF local_call
  <2>3. 0 + 1 \in 1..Len(apis) /\ apis[0 + 1] = asked.handle /\ 0 \in Nat
    BY <1>1, <1>6 DEF ApisSound
  <2> QED
    BY <1>6, <2>1, <2>2, <2>3, ReceivedCall
<1>7. CASE \E n \in Nat :
             /\ n + 1 \in 1..Len(apis) /\ apis[n + 1] = asked.handle
             /\ asked.method \in {"open", "echo"} /\ msg = ByNumber(id, n, asked.method, asked.args)
  BY <1>3, <1>7
<1>8. CASE \E n \in Nat :
             /\ n + 1 \in 1..Len(apis) /\ apis[n + 1] = asked.handle
             /\ asked.method = "watch"
             /\ \E k \in Nat : /\ k + 1 \in 1..Len(cbs) /\ cbs[k + 1] = id
                               /\ msg = ByNumber(id, n, "watch", <<k>>)
  BY <1>1, <1>4, <1>8
<1>9. CASE \E name \in {"database", "ghost"} : msg = ByName(id, name) /\ asked = asking(name, "echo", <<"x">>)
  BY <1>5, <1>9
<1>10. CASE msg = Plainly(id, asked.args) /\ asked.method = "open" /\ asked.handle = "root"
  BY <1>6, <1>10
<1> QED
  BY <1>7, <1>8, <1>9, <1>10 DEF AsksFor

-----------------------------------------------------------------------------
\* A use of a callback, and what is none.
LEMMA UsesAre ==
    /\ \A id, k, x : \A m \in {"callback", "notice"} : IsUse(Use(id, m, k, x))
    /\ \A id, r : ~IsUse(Response(id, r))
    /\ \A msg : FromElsewhere(msg) => ~IsUse(msg)
<1>1. \A id, k, x : \A m \in {"callback", "notice"} : IsUse(Use(id, m, k, x))
  BY DEF IsUse, Use, Request
<1>2. \A id, r : ~IsUse(Response(id, r))
  BY DEF IsUse, Response
<1>3. ASSUME NEW msg, FromElsewhere(msg) PROVE ~IsUse(msg)
  <2>1. CASE msg = Garbage
    BY <2>1 DEF IsUse, Garbage
  <2>2. CASE \E id, r : msg = Response(id, r)
    BY <1>2, <2>2
  <2>3. CASE msg = Request(MaxCalls + 1, "call", << >>)
    BY <2>3 DEF IsUse, Request
  <2>4. CASE msg = Request(0, "callback", <<[id |-> 0]>>)
    <3>1. msg.params = <<[id |-> 0]>> /\ Len(<<[id |-> 0]>>) = 1
      BY <2>4 DEF Request
    <3> QED
      BY <3>1 DEF IsUse
  <2> QED
    BY <1>3, <2>1, <2>2, <2>3, <2>4 DEF FromElsewhere, Strays
<1> QED
  BY <1>1, <1>2, <1>3

\* A message that runs no callback is sent.
LEMMA FollowsOther ==
    ASSUME NEW ms \in Seq(RpcMessages), NEW ts \in Seq(Uses), NEW hs \in Seq(Uses), NEW cbs,
           Follows(ms, ts, hs, cbs), NEW msg \in RpcMessages, ~IsUse(msg)
    PROVE  Follows(Append(ms, msg), ts, hs, cbs)
<1> DEFINE ns == Append(ms, msg)
<1>1. /\ Len(ns) = Len(ms) + 1 /\ Len(ms) \in Nat /\ Len(ts) \in Nat
      /\ \A j \in 1..Len(ms) : ns[j] = ms[j]
      /\ ns[Len(ms) + 1] = msg
  BY ElementsOfAppend, LenProperties
<1> HIDE DEF ns
<1>2. PICK pos \in [0..Len(ms) -> Nat] :
         /\ pos[0] = Len(hs) /\ pos[Len(ms)] = Len(ts)
         /\ \A j \in 1..Len(ms) :
              /\ pos[j] = (IF IsUse(ms[j]) THEN pos[j - 1] + 1 ELSE pos[j - 1]) /\ pos[j] <= Len(ts)
              /\ IsUse(ms[j]) => Runs(ms[j], ts[pos[j]], cbs)
  BY DEF Follows
<1> DEFINE qos == [j \in 0..Len(ns) |-> IF j <= Len(ms) THEN pos[j] ELSE Len(ts)]
<1>3. qos \in [0..Len(ns) -> Nat]
  BY <1>1
<1>4. qos[0] = Len(hs) /\ qos[Len(ns)] = Len(ts)
  BY <1>1, <1>2
<1>5. \A j \in 0..Len(ms) : qos[j] = pos[j]
  BY <1>1
<1> HIDE DEF qos
<1>6. ASSUME NEW j \in 1..Len(ns)
      PROVE  /\ qos[j] = (IF IsUse(ns[j]) THEN qos[j - 1] + 1 ELSE qos[j - 1]) /\ qos[j] <= Len(ts)
             /\ IsUse(ns[j]) => Runs(ns[j], ts[qos[j]], cbs)
  <2>1. CASE j \in 1..Len(ms)
    <3>1. j \in 0..Len(ms) /\ j - 1 \in 0..Len(ms)
      BY <1>1, <2>1
    <3>2. qos[j] = pos[j] /\ qos[j - 1] = pos[j - 1] /\ ns[j] = ms[j]
      BY <1>1, <1>5, <2>1, <3>1
    <3> QED
      BY <1>2, <2>1, <3>2
  <2>2. CASE j = Len(ms) + 1
    <3>1. Len(ms) \in 0..Len(ms) /\ j - 1 = Len(ms)
      BY <1>1, <2>2
    <3>2. qos[j] = Len(ts) /\ qos[j - 1] = Len(ts) /\ ns[j] = msg
      BY <1>1, <1>2, <1>4, <1>5, <2>2, <3>1
    <3> QED
      BY <1>1, <3>2
  <2> QED
    BY <1>1, <2>1, <2>2
<1> QED
  BY <1>3, <1>4, <1>6 DEF Follows, ns

\* A use is sent.
LEMMA FollowsUse ==
    ASSUME NEW ms \in Seq(RpcMessages), NEW ts \in Seq(Uses), NEW hs \in Seq(Uses), NEW cbs,
           Follows(ms, ts, hs, cbs), NEW msg \in RpcMessages, NEW u \in Uses, IsUse(msg), Runs(msg, u, cbs)
    PROVE  Follows(Append(ms, msg), Append(ts, u), hs, cbs)
<1> DEFINE ns == Append(ms, msg)
           us == Append(ts, u)
<1>1. /\ Len(ns) = Len(ms) + 1 /\ Len(ms) \in Nat
      /\ \A j \in 1..Len(ms) : ns[j] = ms[j]
      /\ ns[Len(ms) + 1] = msg
  BY ElementsOfAppend, LenProperties
<1>2. /\ Len(us) = Len(ts) + 1 /\ Len(ts) \in Nat
      /\ \A j \in 1..Len(ts) : us[j] = ts[j]
      /\ us[Len(ts) + 1] = u
  BY ElementsOfAppend, LenProperties
<1> HIDE DEF ns, us
<1>3. PICK pos \in [0..Len(ms) -> Nat] :
         /\ pos[0] = Len(hs) /\ pos[Len(ms)] = Len(ts)
         /\ \A j \in 1..Len(ms) :
              /\ pos[j] = (IF IsUse(ms[j]) THEN pos[j - 1] + 1 ELSE pos[j - 1]) /\ pos[j] <= Len(ts)
              /\ IsUse(ms[j]) => Runs(ms[j], ts[pos[j]], cbs)
  BY DEF Follows
<1> DEFINE qos == [j \in 0..Len(ns) |-> IF j <= Len(ms) THEN pos[j] ELSE Len(us)]
<1>4. qos \in [0..Len(ns) -> Nat]
  BY <1>1, <1>2
<1>5. qos[0] = Len(hs) /\ qos[Len(ns)] = Len(us)
  BY <1>1, <1>3
<1>6. \A j \in 0..Len(ms) : qos[j] = pos[j]
  BY <1>1
<1> HIDE DEF qos
<1>7. ASSUME NEW j \in 1..Len(ns)
      PROVE  /\ qos[j] = (IF IsUse(ns[j]) THEN qos[j - 1] + 1 ELSE qos[j - 1]) /\ qos[j] <= Len(us)
             /\ IsUse(ns[j]) => Runs(ns[j], us[qos[j]], cbs)
  <2>1. CASE j \in 1..Len(ms)
    <3>1. j \in 0..Len(ms) /\ j - 1 \in 0..Len(ms)
      BY <1>1, <2>1
    <3>2. qos[j] = pos[j] /\ qos[j - 1] = pos[j - 1] /\ ns[j] = ms[j] /\ pos[j] \in Nat /\ pos[j - 1] \in Nat
      BY <1>1, <1>6, <2>1, <3>1
    <3>3. IsUse(ms[j]) => us[pos[j]] = ts[pos[j]]
      <4>1. IsUse(ms[j]) => pos[j] \in 1..Len(ts)
        BY <1>2, <1>3, <2>1, <3>2
      <4> QED
        BY <1>2, <4>1
    <3> QED
      BY <1>2, <1>3, <2>1, <3>2, <3>3
  <2>2. CASE j = Len(ms) + 1
    <3>1. Len(ms) \in 0..Len(ms) /\ j - 1 = Len(ms)
      BY <1>1, <2>2
    <3>2. qos[j] = Len(us) /\ qos[j - 1] = Len(ts) /\ ns[j] = msg
      BY <1>1, <1>3, <1>5, <1>6, <2>2, <3>1
    <3> QED
      BY <1>2, <3>2
  <2> QED
    BY <1>1, <2>1, <2>2
<1> QED
  BY <1>4, <1>5, <1>7 DEF Follows, ns, us

\* The first message is taken, and its callback runs if it has one.
LEMMA FollowsTail ==
    ASSUME NEW ms \in Seq(RpcMessages), ms # << >>, NEW ts \in Seq(Uses), NEW hs \in Seq(Uses), NEW cbs,
           Follows(ms, ts, hs, cbs)
    PROVE  /\ ~IsUse(Head(ms)) => Follows(Tail(ms), ts, hs, cbs)
           /\ IsUse(Head(ms)) => /\ Len(hs) + 1 <= Len(ts)
                                 /\ Runs(Head(ms), ts[Len(hs) + 1], cbs)
                                 /\ Follows(Tail(ms), ts, Append(hs, ts[Len(hs) + 1]), cbs)
<1> DEFINE ns == Tail(ms)
<1>1. /\ Head(ms) = ms[1] /\ Len(ms) \in Nat \ {0} /\ Len(ns) = Len(ms) - 1
      /\ \A i \in 1..Len(ms) - 1 : ns[i] = ms[i + 1]
  BY ElementsOfTail
<1>2. Len(ts) \in Nat /\ Len(hs) \in Nat
  BY LenProperties
<1> HIDE DEF ns
<1>3. PICK pos \in [0..Len(ms) -> Nat] :
         /\ pos[0] = Len(hs) /\ pos[Len(ms)] = Len(ts)
         /\ \A j \in 1..Len(ms) :
              /\ pos[j] = (IF IsUse(ms[j]) THEN pos[j - 1] + 1 ELSE pos[j - 1]) /\ pos[j] <= Len(ts)
              /\ IsUse(ms[j]) => Runs(ms[j], ts[pos[j]], cbs)
  BY DEF Follows
<1>4. 1 \in 1..Len(ms) /\ pos[1] = (IF IsUse(ms[1]) THEN Len(hs) + 1 ELSE Len(hs))
  BY <1>1, <1>3
<1> DEFINE qos == [j \in 0..Len(ns) |-> pos[j + 1]]
<1>5. qos \in [0..Len(ns) -> Nat] /\ qos[Len(ns)] = Len(ts) /\ qos[0] = pos[1]
  BY <1>1, <1>3
<1>6. \A j \in 0..Len(ns) : qos[j] = pos[j + 1]
  OBVIOUS
<1> HIDE DEF qos
<1>7. ASSUME NEW j \in 1..Len(ns)
      PROVE  /\ qos[j] = (IF IsUse(ns[j]) THEN qos[j - 1] + 1 ELSE qos[j - 1]) /\ qos[j] <= Len(ts)
             /\ IsUse(ns[j]) => Runs(ns[j], ts[qos[j]], cbs)
  <2>1. j + 1 \in 1..Len(ms) /\ j + 1 - 1 = j /\ j \in 0..Len(ns) /\ j - 1 \in 0..Len(ns) /\ j - 1 + 1 = j
    BY <1>1
  <2>2. qos[j] = pos[j + 1] /\ qos[j - 1] = pos[j] /\ ns[j] = ms[j + 1]
    BY <1>1, <1>6, <2>1
  <2> QED
    BY <1>3, <2>1, <2>2
<1>8. ASSUME NEW gs, qos[0] = Len(gs) PROVE Follows(ns, ts, gs, cbs)
  BY <1>5, <1>7, <1>8 DEF Follows
<1>9. ~IsUse(ms[1]) => Follows(ns, ts, hs, cbs)
  BY <1>4, <1>5, <1>8
<1>10. ASSUME IsUse(ms[1])
       PROVE  /\ Len(hs) + 1 <= Len(ts) /\ Runs(ms[1], ts[Len(hs) + 1], cbs)
              /\ Follows(ns, ts, Append(hs, ts[Len(hs) + 1]), cbs)
  <2>1. pos[1] = Len(hs) + 1 /\ pos[1] <= Len(ts) /\ Runs(ms[1], ts[pos[1]], cbs)
    BY <1>3, <1>4, <1>10
  <2>2. ts[Len(hs) + 1] \in Uses
    <3>1. Len(hs) + 1 \in 1..Len(ts)
      BY <1>2, <2>1
    <3> QED
      BY <3>1, ElementOfSeq
  <2>3. Len(Append(hs, ts[Len(hs) + 1])) = Len(hs) + 1
    BY <2>2, AppendProperties
  <2> QED
    BY <1>5, <1>8, <2>1, <2>3
<1> QED
  BY <1>1, <1>9, <1>10 DEF ns

\* More callbacks are handed over.
LEMMA FollowsGrow ==
    ASSUME NEW ms \in Seq(RpcMessages), NEW ts \in Seq(Uses), NEW hs \in Seq(Uses),
           NEW cbs \in Seq(Nat), NEW dbs \in Seq(Nat), Grown(cbs, dbs), Follows(ms, ts, hs, cbs)
    PROVE  Follows(ms, ts, hs, dbs)
<1>1. Len(cbs) \in Nat /\ Len(dbs) \in Nat
  BY LenProperties
<1>2. \A k \in Nat : k + 1 \in 1..Len(cbs) => k + 1 \in 1..Len(dbs) /\ dbs[k + 1] = cbs[k + 1]
  BY <1>1 DEF Grown
<1>3. \A msg, u : Runs(msg, u, cbs) => Runs(msg, u, dbs)
  BY <1>2 DEF Runs
<1> QED
  BY <1>3 DEF Follows

-----------------------------------------------------------------------------
\* What calls asked stays when one more is made.
LEMMA CarriedByAppend ==
    ASSUME NEW cs \in Seq(ApiCalls), NEW c \in ApiCalls
    PROVE  Carried(cs, Append(cs, c)) /\ Carried(cs, cs)
  BY ElementsOfAppend, LenProperties DEF Carried

\* An answer that is meant is an answer.
LEMMA MeantAreAnswers ==
    ASSUME NEW apis \in Seq(Handles), NEW asked \in Askings
    PROVE  MeantBy(apis, asked) \subseteq Answers
<1>1. DOMAIN apis = 1..Len(apis) /\ Len(apis) \in Nat
  BY LenProperties
<1>2. \A i \in 1..Len(apis) : i - 1 \in Nat
  BY <1>1
<1>3. asked.args \in AskedArgs /\ asked.method \in {"open", "watch", "echo", "callback"}
  BY DEF Askings
<1>4. asked.handle \in Handles \cup {"ghost", "callback"}
  BY DEF Askings
<1>5. CASE asked.method = "callback"
  BY <1>5 DEF MeantBy, Answers
<1>6. CASE asked.method # "callback" /\ (\/ asked.handle = "ghost" \/ asked.method \notin interface(asked.handle)
                                         \/ (asked.method # "watch" /\ Len(asked.args) < arity[asked.method]))
  BY <1>6 DEF MeantBy, Answers
<1>7. CASE /\ asked.method # "callback" /\ asked.handle # "ghost" /\ asked.method \in interface(asked.handle)
           /\ ~(asked.method # "watch" /\ Len(asked.args) < arity[asked.method])
  <2>1. CASE asked.method = "watch"
    BY <1>7, <2>1 DEF MeantBy, Answers
  <2>2. CASE asked.method = "open"
    <3>1. MeantBy(apis, asked) \subseteq {Null} \cup {Number(i - 1) : i \in DOMAIN apis}
      BY <1>7, <2>2 DEF MeantBy
    <3> QED
      BY <1>1, <1>2, <3>1 DEF Answers
  <2>3. CASE asked.method = "echo"
    <3>1. MeantBy(apis, asked) = {Echoed(asked.handle, asked.args[1])}
      BY <1>7, <2>3 DEF MeantBy
    <3>2. asked.args[1] \in Handles \cup {"nothing"}
      BY <1>3, <1>7, <2>3, Arities, ArgsHaveOne
    <3> QED
      <4> DEFINE t == asked.args[1]
                 h == asked.handle
      <4>1. h \in Handles \cup {"ghost", "callback"} /\ t \in Handles \cup {"nothing"}
        BY <1>4, <3>2
      <4> HIDE DEF t, h
      <4>2. Echoed(h, t) \in Answers
        BY <4>1 DEF Answers
      <4> QED
        BY <3>1, <4>2 DEF t, h
  <2> QED
    BY <1>3, <1>7, <2>1, <2>2, <2>3
<1> QED
  BY <1>5, <1>6, <1>7

\* What another program sends.
LEMMA ForeignIs ==
    ASSUME NEW msg, FromElsewhere(msg)
    PROVE  /\ msg \in RpcMessages /\ msg.id \in {0, MaxCalls + 1}
           /\ msg.is = "response" => msg.id = MaxCalls + 1
           /\ msg.is = "request" =>
                \A a, f, b, h : local_call(AnEnd(a, f, b, h, Null), msg.method, msg.params, msg.id)
                                  = AnEnd(a, f, b, h, Failed)
<1>1. CASE msg = Garbage
  BY <1>1 DEF Garbage, RpcMessages, Strays
<1>2. CASE msg = Response(MaxCalls + 1, Null) \/ msg = Response(MaxCalls + 1, Failed)
  <2>1. Null \in Answers /\ Failed \in Answers /\ MaxCalls + 1 \in Nat
    BY RpcAssumption DEF Answers
  <2>2. msg \in RpcMessages
    BY <1>2, <2>1 DEF RpcMessages
  <2> QED
    BY <1>2, <2>2, ResponseParts
<1>3. CASE msg = Request(MaxCalls + 1, "call", << >>)
  <2>1. msg.is = "request" /\ msg.id = MaxCalls + 1 /\ msg.method = "call" /\ msg.params = << >>
    BY <1>3, RequestParts
  <2>2. \A a, f, b, h : local_call(AnEnd(a, f, b, h, Null), "call", << >>, msg.id) = AnEnd(a, f, b, h, Failed)
    BY DEF local_call, call_method, AnEnd
  <2>3. msg \in RpcMessages
    BY <1>3 DEF RpcMessages, Strays
  <2> QED
    BY <2>1, <2>2, <2>3
<1>4. CASE msg = Request(0, "callback", <<[id |-> 0]>>)
  <2> DEFINE ps == <<[id |-> 0]>>
  <2>1. msg.is = "request" /\ msg.id = 0 /\ msg.method = "callback" /\ msg.params = ps
    BY <1>4, RequestParts
  <2>2. Len(ps) = 1
    OBVIOUS
  <2> HIDE DEF ps
  <2>3. \A a, f, b, h : local_call(AnEnd(a, f, b, h, Null), "callback", ps, msg.id) = AnEnd(a, f, b, h, Failed)
    BY <2>2 DEF local_call, callback_method, AnEnd
  <2>4. msg \in RpcMessages
    BY <1>4 DEF RpcMessages, Strays
  <2> QED
    BY <2>1, <2>3, <2>4
<1> QED
  BY <1>1, <1>2, <1>3, <1>4 DEF FromElsewhere, Strays

\* What has been heard once callback k has run with x.
HeardToo(hs, cbs, k, x) == Append(hs, <<cbs[k + 1], x>>)

\* The near end runs a callback.
LEMMA UseRuns ==
    ASSUME NEW msg, NEW id \in Nat, NEW m \in {"callback", "notice"}, NEW k \in Nat,
           NEW x \in {"x", "y"}, msg = Use(id, m, k, x), NEW a, NEW f, NEW cbs \in Seq(Nat), NEW hs, NEW gs, k + 1 \in 1..Len(cbs),
           gs = HeardToo(hs, cbs, k, x)
    PROVE  /\ msg.is = "request" /\ msg.id = id
           /\ local_call(AnEnd(a, f, cbs, hs, Null), msg.method, msg.params, msg.id) = AnEnd(a, f, cbs, gs, Null)
<1> DEFINE ps == <<[id |-> k], <<x>>>>
           end == AnEnd(a, f, cbs, hs, Null)
<1>1. msg.is = "request" /\ msg.id = id /\ msg.method = m /\ msg.params = ps
  BY RequestParts DEF Use
<1>2. Len(ps) = 2 /\ ps[1].id = k /\ ps[2] = <<x>> /\ <<x>>[1] = x /\ <<x>> # << >>
  OBVIOUS
<1> HIDE DEF ps
<1>3. Len(cbs) > k
  BY LenProperties
<1>4. local_call(end, m, ps, id) = receive_callback(end, k, <<x>>)
  BY <1>2 DEF local_call, callback_method
<1>5. receive_callback(end, k, <<x>>) = AnEnd(a, f, cbs, gs, Null)
  BY <1>2, <1>3 DEF receive_callback, AnEnd, HeardToo
<1> QED
  BY <1>1, <1>4, <1>5

\* The message says which callback and with what.
LEMMA UseInjective ==
    ASSUME NEW id, NEW m, NEW k, NEW x, NEW jd, NEW n, NEW j, NEW y, Use(id, m, k, x) = Use(jd, n, j, y)
    PROVE  k = j /\ x = y
<1> DEFINE ps == <<[id |-> k], <<x>>>>
           qs == <<[id |-> j], <<y>>>>
<1>1. ps = qs
  BY RequestParts DEF Use
<1>2. ps[1].id = k /\ qs[1].id = j /\ ps[2][1] = x /\ qs[2][1] = y
  OBVIOUS
<1> HIDE DEF ps, qs
<1> QED
  BY <1>1, <1>2

-----------------------------------------------------------------------------
\* A message is sent: what is under way then.
LEMMA Sent ==
    ASSUME NEW ms \in Seq(RpcMessages), NEW msg \in RpcMessages, NEW o \in BOOLEAN
    PROVE  LET ns == IF o THEN Append(ms, msg) ELSE ms
           IN  ns \in Seq(RpcMessages) /\ ToSet(ms) \subseteq ToSet(ns)
               /\ ToSet(ns) \subseteq ToSet(ms) \cup {msg} /\ (o => msg \in ToSet(ns))
  BY ElementsOfAppend

\* The near end calls.
LEMMA NearCalls ==
    ASSUME NEW apis, NEW ncs, NEW fcs, NEW cbs, NEW nws, NEW fws, NEW fns, NEW ts, NEW hs, NEW nms, NEW fms, NEW o,
           Connected(apis, ncs, fcs, cbs, nws, fws, fns, ts, hs, nms, fms, o),
           NEW dbs \in Seq(Nat), Grown(cbs, dbs), NEW c \in ApiCalls, NEW msg \in RpcMessages,
           c.outcome = IF o THEN Waiting ELSE Failed, Len(ncs) < MaxCalls,
           msg.is = "request", msg.id = Len(ncs) + 1, AsksFor(msg, Len(ncs) + 1, c.asked, apis, dbs)
    PROVE  Connected(apis, Append(ncs, c), fcs, dbs, nws \cup {Len(ncs) + 1}, fws, fns, ts, hs, nms,
                     IF o THEN Append(fms, msg) ELSE fms, o)
<1> DEFINE mcs == Append(ncs, c)
           gms == IF o THEN Append(fms, msg) ELSE fms
<1>1. /\ apis \in Seq(Handles) /\ ncs \in Seq(ApiCalls) /\ fcs \in Seq(ApiCalls) /\ cbs \in Seq(Nat)
      /\ fns \in Seq(Functors) /\ ts \in Seq(Uses) /\ hs \in Seq(Uses)
      /\ nms \in Seq(RpcMessages) /\ fms \in Seq(RpcMessages) /\ o \in BOOLEAN
      /\ Len(ncs) \in Nat /\ NoApis \in Seq(Handles)
  BY LenProperties DEF Connected, ApisSound, NoApis
<1>2. /\ gms \in Seq(RpcMessages) /\ ToSet(fms) \subseteq ToSet(gms)
      /\ ToSet(gms) \subseteq ToSet(fms) \cup {msg} /\ (o => msg \in ToSet(gms))
  BY <1>1, Sent
<1>3. /\ mcs \in Seq(ApiCalls) /\ Len(mcs) = Len(ncs) + 1 /\ mcs[Len(ncs) + 1] = c
      /\ Carried(ncs, mcs) /\ Carried(fcs, fcs) /\ Grown(apis, apis) /\ Grown(NoApis, NoApis)
  BY <1>1, ElementsOfAppend, CarriedByAppend DEF Grown, NoApis
<1>4. CallsFine(mcs, apis, o, nws \cup {Len(ncs) + 1}, ToSet(gms), ToSet(nms))
  BY <1>1, <1>2, CallsFineCall DEF Connected
<1> HIDE DEF mcs, gms
<1>5. CallsFine(fcs, NoApis, o, fws, ToSet(nms), ToSet(gms))
  BY <1>1, <1>2, <1>3, CallsFineGrow DEF Connected
<1>6. \A m \in ToSet(gms) : ToFar(m, mcs, fcs, apis, dbs)
  <2>1. \A m \in ToSet(fms) : ToFar(m, mcs, fcs, apis, dbs)
    BY <1>1, <1>3, ExpectedGrows DEF Connected
  <2>2. Len(ncs) + 1 \in 1..Len(mcs)
    BY <1>1, <1>3
  <2>3. ToFar(msg, mcs, fcs, apis, dbs)
    BY <1>3, <2>2 DEF ToFar
  <2> QED
    BY <1>2, <2>1, <2>3
<1>7. \A m \in ToSet(nms) : ToNear(m, mcs, fcs, apis, dbs)
  BY <1>1, <1>3, ExpectedGrows DEF Connected
<1>8. FunctorsSound(fns, dbs)
  <2>1. Len(cbs) \in Nat /\ Len(dbs) \in Nat
    BY <1>1, LenProperties
  <2>2. \A i \in 1..Len(fns) : fns[i].callback_id \in Nat
    <3>1. \A i \in 1..Len(fns) : fns[i] \in Functors
      BY <1>1, ElementOfSeq
    <3> QED
      BY <3>1 DEF Functors
  <2> QED
    <3>1. FunctorsSound(fns, cbs)
      BY DEF Connected
    <3>2. \A n \in Nat : n + 1 \in 1..Len(cbs) => n + 1 \in 1..Len(dbs) /\ dbs[n + 1] = cbs[n + 1]
      BY <2>1 DEF Grown
    <3> QED
      BY <2>2, <3>1, <3>2 DEF FunctorsSound
<1>9. o => Follows(nms, ts, hs, dbs)
  BY <1>1, FollowsGrow DEF Connected
<1>10. Connected(apis, mcs, fcs, dbs, nws \cup {Len(ncs) + 1}, fws, fns, ts, hs, nms, gms, o)
  BY <1>1, <1>2, <1>3, <1>4, <1>5, <1>6, <1>7, <1>8, <1>9 DEF Connected
<1> QED
  BY <1>10 DEF mcs, gms

\* The far end uses a callback, and waits for its result or not.
LEMMA FarUses ==
    ASSUME NEW apis, NEW ncs, NEW fcs, NEW cbs, NEW nws, NEW fws, NEW fns, NEW ts, NEW hs, NEW nms, NEW fms,
           NEW o \in BOOLEAN, o,
           Connected(apis, ncs, fcs, cbs, nws, fws, fns, ts, hs, nms, fms, o),
           NEW gcs \in Seq(ApiCalls), Carried(fcs, gcs), NEW gws,
           \A i \in 1..Len(gcs) : gcs[i].asked.method = "callback",
           NEW u \in Uses, NEW msg \in RpcMessages, IsUse(msg), Runs(msg, u, cbs),
           ToNear(msg, ncs, gcs, apis, cbs),
           CallsFine(gcs, NoApis, o, gws, ToSet(Append(nms, msg)), ToSet(fms))
    PROVE  Connected(apis, ncs, gcs, cbs, nws, gws, fns, Append(ts, u), hs, Append(nms, msg), fms, o)
<1> DEFINE oms == Append(nms, msg)
           us == Append(ts, u)
<1>1. /\ apis \in Seq(Handles) /\ ncs \in Seq(ApiCalls) /\ fcs \in Seq(ApiCalls) /\ cbs \in Seq(Nat)
      /\ fns \in Seq(Functors) /\ ts \in Seq(Uses) /\ hs \in Seq(Uses)
      /\ nms \in Seq(RpcMessages) /\ fms \in Seq(RpcMessages) /\ Len(gcs) \in Nat
  BY LenProperties DEF Connected, ApisSound, NoApis
<1>2. oms \in Seq(RpcMessages) /\ ToSet(oms) = ToSet(nms) \cup {msg}
  BY <1>1, ElementsOfAppend
<1>3. Carried(ncs, ncs) /\ Grown(apis, apis) /\ Grown(cbs, cbs)
  BY <1>1, LenProperties DEF Carried, Grown
<1>4. us \in Seq(Uses) /\ Grown(hs, us)
  <2>1. /\ us \in Seq(Uses) /\ Len(us) = Len(ts) + 1 /\ Len(ts) \in Nat /\ Len(hs) \in Nat
        /\ \A i \in 1..Len(ts) : us[i] = ts[i]
    BY <1>1, ElementsOfAppend, LenProperties
  <2>2. Len(hs) <= Len(ts) /\ \A i \in 1..Len(hs) : ts[i] = hs[i]
    BY DEF Connected, Grown
  <2> HIDE DEF us
  <2>3. 1..Len(hs) \subseteq 1..Len(ts) /\ Len(hs) <= Len(us)
    BY <2>1, <2>2
  <2> QED
    BY <2>1, <2>2, <2>3 DEF Grown
<1>5. Follows(oms, us, hs, cbs)
  BY <1>1, FollowsUse DEF Connected
<1> HIDE DEF oms, us
<1>6. \A n \in ToSet(oms) : ToNear(n, ncs, gcs, apis, cbs)
  BY <1>1, <1>2, <1>3, ExpectedGrows DEF Connected
<1>7. \A n \in ToSet(fms) : ToFar(n, ncs, gcs, apis, cbs)
  BY <1>1, <1>3, ExpectedGrows DEF Connected
<1>8. o \in BOOLEAN /\ CallsFine(ncs, apis, o, nws, ToSet(fms), ToSet(nms))
  BY DEF Connected
<1>9. CallsFine(ncs, apis, o, nws, ToSet(fms), ToSet(oms))
  BY <1>1, <1>2, <1>3, <1>8, CallsFineGrow
<1>10. CallsFine(gcs, NoApis, o, gws, ToSet(oms), ToSet(fms))
  BY DEF oms
<1>11. Connected(apis, ncs, gcs, cbs, nws, gws, fns, us, hs, oms, fms, o)
  BY <1>1, <1>2, <1>4, <1>5, <1>6, <1>7, <1>9, <1>10 DEF Connected
<1> QED
  BY <1>11 DEF oms, us

\* What no connection of fc sends comes to one of them.
LEMMA StrayComes ==
    ASSUME NEW apis, NEW ncs, NEW fcs, NEW cbs, NEW nws, NEW fws, NEW fns, NEW ts, NEW hs, NEW nms, NEW fms,
           NEW o, Connected(apis, ncs, fcs, cbs, nws, fws, fns, ts, hs, nms, fms, o), NEW msg, FromElsewhere(msg)
    PROVE  /\ Connected(apis, ncs, fcs, cbs, nws, fws, fns, ts, hs, Append(nms, msg), fms, o)
           /\ Connected(apis, ncs, fcs, cbs, nws, fws, fns, ts, hs, nms, Append(fms, msg), o)
<1> DEFINE oms == Append(nms, msg)
           gms == Append(fms, msg)
<1>1. /\ apis \in Seq(Handles) /\ ncs \in Seq(ApiCalls) /\ fcs \in Seq(ApiCalls)
      /\ ts \in Seq(Uses) /\ hs \in Seq(Uses)
      /\ nms \in Seq(RpcMessages) /\ fms \in Seq(RpcMessages) /\ o \in BOOLEAN /\ NoApis \in Seq(Handles)
      /\ Grown(apis, apis) /\ Grown(NoApis, NoApis)
  BY LenProperties DEF Connected, ApisSound, Grown, NoApis
<1>2. msg \in RpcMessages /\ ~IsUse(msg)
  BY ForeignIs, UsesAre
<1>3. /\ oms \in Seq(RpcMessages) /\ ToSet(oms) = ToSet(nms) \cup {msg}
      /\ gms \in Seq(RpcMessages) /\ ToSet(gms) = ToSet(fms) \cup {msg}
  BY <1>1, <1>2, ElementsOfAppend
<1>4. o => Follows(oms, ts, hs, cbs)
  BY <1>1, <1>2, FollowsOther DEF Connected
<1> HIDE DEF oms, gms
<1>5. ToFar(msg, ncs, fcs, apis, cbs) /\ ToNear(msg, ncs, fcs, apis, cbs)
  BY DEF ToFar, ToNear
<1>6. /\ CallsFine(ncs, apis, o, nws, ToSet(fms), ToSet(oms))
      /\ CallsFine(fcs, NoApis, o, fws, ToSet(oms), ToSet(fms))
      /\ CallsFine(ncs, apis, o, nws, ToSet(gms), ToSet(nms))
      /\ CallsFine(fcs, NoApis, o, fws, ToSet(nms), ToSet(gms))
  BY <1>1, <1>3, CallsFineGrow DEF Connected
<1>7. Connected(apis, ncs, fcs, cbs, nws, fws, fns, ts, hs, oms, fms, o)
  BY <1>3, <1>4, <1>5, <1>6 DEF Connected
<1>8. Connected(apis, ncs, fcs, cbs, nws, fws, fns, ts, hs, nms, gms, o)
  BY <1>3, <1>5, <1>6 DEF Connected
<1> QED
  BY <1>7, <1>8 DEF oms, gms

-----------------------------------------------------------------------------
\* The near end takes what another program sent, or the far end does; a request is answered by an error.
LEMMA NearTakesForeign ==
    ASSUME NEW apis, NEW ncs, NEW fcs, NEW cbs, NEW nws, NEW fws, NEW fns, NEW ts, NEW hs, NEW nms, NEW fms, NEW o,
           Connected(apis, ncs, fcs, cbs, nws, fws, fns, ts, hs, nms, fms, o), nms # << >>, FromElsewhere(Head(nms))
    PROVE  /\ Connected(apis, ncs, fcs, cbs, nws, fws, fns, ts, hs, Tail(nms), fms, o)
           /\ Head(nms).is = "response" => Head(nms).id \notin nws
<1> DEFINE msg == Head(nms)
           oms == Tail(nms)
<1>1. /\ ncs \in Seq(ApiCalls) /\ fcs \in Seq(ApiCalls) /\ nms \in Seq(RpcMessages)
      /\ ts \in Seq(Uses) /\ hs \in Seq(Uses) /\ o \in BOOLEAN
      /\ Len(ncs) \in Nat /\ Len(fcs) \in Nat
  BY LenProperties DEF Connected
<1>2. oms \in Seq(RpcMessages) /\ ToSet(nms) = {msg} \cup ToSet(oms)
  BY <1>1, ElementsOfTail
<1>3. msg.id \in {0, MaxCalls + 1} /\ (msg.is = "response" => msg.id = MaxCalls + 1) /\ ~IsUse(msg)
  BY ForeignIs, UsesAre
<1>4. /\ nws \subseteq 1..Len(ncs) /\ Len(ncs) <= MaxCalls /\ Len(fcs) <= MaxCalls
  BY DEF Connected, CallsFine
<1>5. msg.id \notin 1..Len(ncs) /\ msg.id \notin 1..Len(fcs)
  BY <1>1, <1>3, <1>4, RpcAssumption
<1>6. o => Follows(oms, ts, hs, cbs)
  BY <1>1, <1>3, FollowsTail DEF Connected
<1> HIDE DEF msg, oms
<1>7. CallsFine(ncs, apis, o, nws, ToSet(fms), ToSet(oms))
  BY <1>1, <1>2, <1>4, <1>5, CallsFineIn DEF Connected
<1>8. CallsFine(fcs, NoApis, o, fws, ToSet(oms), ToSet(fms))
  BY <1>1, <1>2, <1>5, CallsFineOut DEF Connected
<1>9. Connected(apis, ncs, fcs, cbs, nws, fws, fns, ts, hs, oms, fms, o)
  BY <1>2, <1>6, <1>7, <1>8 DEF Connected
<1> QED
  BY <1>4, <1>5, <1>9 DEF oms, msg

\* A message from elsewhere that the far end takes changes nothing for the calls.
LEMMA FarTakesForeign ==
    ASSUME NEW apis, NEW ncs, NEW fcs, NEW cbs, NEW nws, NEW fws, NEW fns, NEW ts, NEW hs, NEW nms, NEW fms, NEW o,
           Connected(apis, ncs, fcs, cbs, nws, fws, fns, ts, hs, nms, fms, o), fms # << >>, FromElsewhere(Head(fms))
    PROVE  /\ Connected(apis, ncs, fcs, cbs, nws, fws, fns, ts, hs, nms, Tail(fms), o)
           /\ Head(fms).is = "response" => Head(fms).id \notin fws
<1> DEFINE msg == Head(fms)
           gms == Tail(fms)
<1>1. /\ ncs \in Seq(ApiCalls) /\ fcs \in Seq(ApiCalls) /\ fms \in Seq(RpcMessages) /\ o \in BOOLEAN
      /\ Len(ncs) \in Nat /\ Len(fcs) \in Nat
  BY LenProperties DEF Connected
<1>2. gms \in Seq(RpcMessages) /\ ToSet(fms) = {msg} \cup ToSet(gms)
  BY <1>1, ElementsOfTail
<1>3. msg.id \in {0, MaxCalls + 1} /\ (msg.is = "response" => msg.id = MaxCalls + 1)
  BY ForeignIs
<1>4. /\ fws \subseteq 1..Len(fcs) /\ Len(ncs) <= MaxCalls /\ Len(fcs) <= MaxCalls
  BY DEF Connected, CallsFine
<1>5. msg.id \notin 1..Len(ncs) /\ msg.id \notin 1..Len(fcs)
  BY <1>1, <1>3, <1>4, RpcAssumption
<1> HIDE DEF msg, gms
<1>6. CallsFine(fcs, NoApis, o, fws, ToSet(nms), ToSet(gms))
  BY <1>1, <1>2, <1>4, <1>5, CallsFineIn DEF Connected
<1>7. CallsFine(ncs, apis, o, nws, ToSet(gms), ToSet(nms))
  BY <1>1, <1>2, <1>5, CallsFineOut DEF Connected
<1>8. Connected(apis, ncs, fcs, cbs, nws, fws, fns, ts, hs, nms, gms, o)
  BY <1>2, <1>6, <1>7 DEF Connected
<1> QED
  BY <1>4, <1>5, <1>8 DEF gms, msg

\* An end takes an answer to a call of its own.
LEMMA NearTakesAnswer ==
    ASSUME NEW apis, NEW ncs, NEW fcs, NEW cbs, NEW nws, NEW fws, NEW fns, NEW ts, NEW hs, NEW nms, NEW fms, NEW o,
           Connected(apis, ncs, fcs, cbs, nws, fws, fns, ts, hs, nms, fms, o), nms # << >>,
           AnswerFor(Head(nms), ncs, apis)
    PROVE  LET msg == Head(nms)
               mcs == IF msg.id \in nws THEN [ncs EXCEPT ![msg.id].outcome = msg.result] ELSE ncs
           IN  /\ msg.is = "response"
               /\ Connected(apis, mcs, fcs, cbs, nws \ {msg.id}, fws, fns, ts, hs, Tail(nms), fms, o)
<1> DEFINE msg == Head(nms)
           oms == Tail(nms)
           mcs == IF msg.id \in nws THEN [ncs EXCEPT ![msg.id].outcome = msg.result] ELSE ncs
<1>1. /\ ncs \in Seq(ApiCalls) /\ fcs \in Seq(ApiCalls) /\ nms \in Seq(RpcMessages)
      /\ ts \in Seq(Uses) /\ hs \in Seq(Uses) /\ o \in BOOLEAN /\ apis \in Seq(Handles) /\ cbs \in Seq(Nat)
      /\ Grown(apis, apis) /\ Grown(cbs, cbs) /\ Carried(fcs, fcs) /\ Carried(ncs, ncs)
  BY LenProperties DEF Connected, Grown, ApisSound, Carried, NoApis
<1>2. oms \in Seq(RpcMessages) /\ ToSet(nms) = {msg} \cup ToSet(oms)
  BY <1>1, ElementsOfTail
<1>3. PICK id \in 1..Len(ncs) : \E r : r \in MeantBy(apis, ncs[id].asked) /\ msg = Response(id, r)
  BY DEF AnswerFor
<1>4. PICK r : r \in MeantBy(apis, ncs[id].asked) /\ msg = Response(id, r)
  BY <1>3
<1>5. ~IsUse(msg) /\ msg.is = "response" /\ msg.id = id /\ msg.result = r
  BY <1>4, UsesAre, ResponseParts
<1>6. o => Follows(oms, ts, hs, cbs)
  BY <1>1, <1>5, FollowsTail DEF Connected
<1>7. r \in Answers
  <2>1. ncs[id] \in ApiCalls
    BY <1>1, ElementOfSeq
  <2>2. ncs[id].asked \in Askings
    BY <2>1 DEF ApiCalls
  <2> QED
    BY <1>1, <1>4, <2>2, MeantAreAnswers
<1> HIDE DEF msg, oms
<1>8. /\ CallsFine(mcs, apis, o, nws \ {msg.id}, ToSet(fms), ToSet(oms))
      /\ mcs \in Seq(ApiCalls) /\ Carried(ncs, mcs)
  <2>1. CallsFine(ncs, apis, o, nws, ToSet(fms), ToSet(nms))
    BY DEF Connected
  <2>2. CASE msg.id \in nws
    <3>1. mcs = WithReply(ncs, msg)
      BY <2>2 DEF WithReply
    <3>2. msg.result \in Answers /\ msg.result \in MeantBy(apis, ncs[msg.id].asked)
      BY <1>4, <1>5, <1>7
    <3> HIDE DEF mcs
    <3> QED
      BY <1>1, <1>2, <2>1, <2>2, <3>1, <3>2, CallsFineReply
  <2>3. CASE msg.id \notin nws
    <3>1. nws \ {msg.id} = nws /\ mcs = ncs
      BY <2>3
    <3> HIDE DEF mcs
    <3>2. CallsFine(ncs, apis, o, nws, ToSet(fms), ToSet(oms))
      BY <1>1, <1>2, <2>1, <2>3, CallsFineIn
    <3> QED
      BY <1>1, <3>1, <3>2
  <2> QED
    BY <2>2, <2>3
<1> HIDE DEF mcs
<1>9. CallsFine(fcs, NoApis, o, fws, ToSet(oms), ToSet(fms))
  BY <1>1, <1>2, <1>5, CallsFineOut DEF Connected
<1>10. /\ \A m \in ToSet(fms) : ToFar(m, mcs, fcs, apis, cbs)
      /\ \A m \in ToSet(oms) : ToNear(m, mcs, fcs, apis, cbs)
  BY <1>1, <1>2, <1>8, ExpectedGrows DEF Connected
<1>11. Connected(apis, mcs, fcs, cbs, nws \ {msg.id}, fws, fns, ts, hs, oms, fms, o)
  BY <1>2, <1>6, <1>8, <1>9, <1>10 DEF Connected
<1> QED
  BY <1>5, <1>11 DEF oms, msg, mcs

\* The far end takes the answer to a callback.
LEMMA FarTakesAnswer ==
    ASSUME NEW apis, NEW ncs, NEW fcs, NEW cbs, NEW nws, NEW fws, NEW fns, NEW ts, NEW hs, NEW nms, NEW fms, NEW o,
           Connected(apis, ncs, fcs, cbs, nws, fws, fns, ts, hs, nms, fms, o), fms # << >>,
           AnswerFor(Head(fms), fcs, NoApis)
    PROVE  LET msg == Head(fms)
               gcs == IF msg.id \in fws THEN [fcs EXCEPT ![msg.id].outcome = msg.result] ELSE fcs
           IN  /\ msg.is = "response"
               /\ Connected(apis, ncs, gcs, cbs, nws, fws \ {msg.id}, fns, ts, hs, nms, Tail(fms), o)
<1> DEFINE msg == Head(fms)
           gms == Tail(fms)
           gcs == IF msg.id \in fws THEN [fcs EXCEPT ![msg.id].outcome = msg.result] ELSE fcs
<1>1. /\ ncs \in Seq(ApiCalls) /\ fcs \in Seq(ApiCalls) /\ fms \in Seq(RpcMessages)
      /\ o \in BOOLEAN /\ apis \in Seq(Handles) /\ cbs \in Seq(Nat) /\ NoApis \in Seq(Handles)
      /\ Grown(apis, apis) /\ Grown(cbs, cbs) /\ Carried(fcs, fcs) /\ Carried(ncs, ncs) /\ Len(fcs) \in Nat
  BY LenProperties DEF Connected, Grown, ApisSound, Carried, NoApis
<1>2. gms \in Seq(RpcMessages) /\ ToSet(fms) = {msg} \cup ToSet(gms)
  BY <1>1, ElementsOfTail
<1>3. PICK id \in 1..Len(fcs) : \E r : r \in MeantBy(NoApis, fcs[id].asked) /\ msg = Response(id, r)
  BY DEF AnswerFor
<1>4. PICK r : r \in MeantBy(NoApis, fcs[id].asked) /\ msg = Response(id, r)
  BY <1>3
<1>5. msg.is = "response" /\ msg.id = id /\ msg.result = r
  BY <1>4, ResponseParts
<1>6. r \in Answers
  <2>1. fcs[id] \in ApiCalls
    BY <1>1, ElementOfSeq
  <2>2. fcs[id].asked \in Askings
    BY <2>1 DEF ApiCalls
  <2> QED
    BY <1>1, <1>4, <2>2, MeantAreAnswers
<1> HIDE DEF msg, gms
<1>7. /\ CallsFine(gcs, NoApis, o, fws \ {msg.id}, ToSet(nms), ToSet(gms))
      /\ gcs \in Seq(ApiCalls) /\ Carried(fcs, gcs) /\ Len(gcs) = Len(fcs)
  <2>1. CallsFine(fcs, NoApis, o, fws, ToSet(nms), ToSet(fms))
    BY DEF Connected
  <2>2. CASE msg.id \in fws
    <3>1. gcs = WithReply(fcs, msg)
      BY <2>2 DEF WithReply
    <3>2. msg.result \in Answers /\ msg.result \in MeantBy(NoApis, fcs[msg.id].asked)
      BY <1>4, <1>5, <1>6
    <3> HIDE DEF gcs
    <3> DEFINE none == NoApis
    <3>3. /\ CallsFine(fcs, none, o, fws, ToSet(nms), ToSet(fms))
          /\ msg.result \in MeantBy(none, fcs[msg.id].asked)
      BY <2>1, <3>2
    <3> HIDE DEF none
    <3>4. fcs \in Seq(ApiCalls) /\ o \in BOOLEAN /\ ToSet(fms) = {msg} \cup ToSet(gms) /\ msg.result \in Answers
      BY <1>1, <1>2, <3>2
    <3>5. /\ CallsFine(gcs, none, o, fws \ {msg.id}, ToSet(nms), ToSet(gms))
          /\ gcs \in Seq(ApiCalls) /\ Carried(fcs, gcs)
      BY <1>1, <1>2, <2>2, <3>1, <3>2, <3>3, CallsFineReply
    <3>6. Len(gcs) = Len(fcs)
      <4>1. DOMAIN gcs = DOMAIN fcs
        BY <3>1 DEF WithReply
      <4> QED
        BY <1>1, <3>5, <4>1, LenProperties
    <3> QED
      BY <3>5, <3>6 DEF none
  <2>3. CASE msg.id \notin fws
    <3>1. fws \ {msg.id} = fws /\ gcs = fcs
      BY <2>3
    <3> HIDE DEF gcs
    <3>2. CallsFine(fcs, NoApis, o, fws, ToSet(nms), ToSet(gms))
      BY <1>1, <1>2, <2>1, <2>3, CallsFineIn
    <3> QED
      BY <1>1, <3>1, <3>2
  <2> QED
    BY <2>2, <2>3
<1> HIDE DEF gcs
<1>8. CallsFine(ncs, apis, o, nws, ToSet(gms), ToSet(nms))
  BY <1>1, <1>2, <1>5, CallsFineOut DEF Connected
<1>9. /\ \A m \in ToSet(gms) : ToFar(m, ncs, gcs, apis, cbs)
      /\ \A m \in ToSet(nms) : ToNear(m, ncs, gcs, apis, cbs)
  BY <1>1, <1>2, <1>7, ExpectedGrows DEF Connected
<1>10. \A i \in 1..Len(gcs) : gcs[i].asked.method = "callback"
  BY <1>7 DEF Connected, Carried
<1>11. Connected(apis, ncs, gcs, cbs, nws, fws \ {msg.id}, fns, ts, hs, nms, gms, o)
  BY <1>2, <1>7, <1>8, <1>9, <1>10 DEF Connected
<1> QED
  BY <1>5, <1>11 DEF gms, msg, gcs

\* The answer to a message of another program goes back.
LEMMA RefusalComes ==
    FromElsewhere(Response(MaxCalls + 1, Failed))
  BY DEF FromElsewhere

\* The near end runs the callback that is meant and says so to who waits for it.
LEMMA NearTakesUse ==
    ASSUME NEW apis, NEW ncs, NEW fcs, NEW cbs, NEW nws, NEW fws, NEW fns, NEW ts, NEW hs, NEW nms, NEW fms,
           NEW o \in BOOLEAN, o,
           Connected(apis, ncs, fcs, cbs, nws, fws, fns, ts, hs, nms, fms, o), nms # << >>,
           NEW id \in 0..Len(fcs), Head(nms).is = "request", Head(nms).id = id, IsUse(Head(nms)),
           NEW u \in Uses, \A v : Runs(Head(nms), v, cbs) => v = u
    PROVE  Connected(apis, ncs, fcs, cbs, nws, fws, fns, ts, Append(hs, u), Tail(nms),
                     IF id = 0 THEN fms ELSE Append(fms, Response(id, Null)), o)
<1> DEFINE msg == Head(nms)
           oms == Tail(nms)
           gs == Append(hs, u)
           reply == Response(id, Null)
           gms == IF id = 0 THEN fms ELSE Append(fms, reply)
<1>1. /\ apis \in Seq(Handles) /\ ncs \in Seq(ApiCalls) /\ fcs \in Seq(ApiCalls) /\ cbs \in Seq(Nat)
      /\ ts \in Seq(Uses) /\ hs \in Seq(Uses) /\ nms \in Seq(RpcMessages) /\ fms \in Seq(RpcMessages)
      /\ NoApis \in Seq(Handles) /\ Grown(apis, apis) /\ Grown(NoApis, NoApis)
      /\ Len(fcs) \in Nat /\ Len(ts) \in Nat /\ Len(hs) \in Nat
  BY LenProperties DEF Connected, ApisSound, Grown, NoApis
<1>2. oms \in Seq(RpcMessages) /\ ToSet(nms) = {msg} \cup ToSet(oms)
  BY <1>1, ElementsOfTail
<1>3. msg.is = "request" /\ msg.id = id /\ IsUse(msg)
  OBVIOUS
<1>4. /\ Len(hs) + 1 <= Len(ts) /\ Runs(msg, ts[Len(hs) + 1], cbs)
      /\ Follows(oms, ts, Append(hs, ts[Len(hs) + 1]), cbs)
  BY <1>1, <1>3, FollowsTail DEF Connected
<1>5. ts[Len(hs) + 1] = u
  BY <1>4
<1>6. Follows(oms, ts, gs, cbs)
  BY <1>4, <1>5
<1>7. gs \in Seq(Uses) /\ Grown(gs, ts)
  <2>1. /\ gs \in Seq(Uses) /\ Len(gs) = Len(hs) + 1 /\ gs[Len(hs) + 1] = u
        /\ \A i \in 1..Len(hs) : gs[i] = hs[i]
    BY <1>1, ElementsOfAppend
  <2>2. \A i \in 1..Len(hs) : ts[i] = hs[i]
    BY DEF Connected, Grown
  <2> HIDE DEF gs
  <2>3. \A i \in 1..Len(gs) : i \in 1..Len(hs) \/ i = Len(hs) + 1
    BY <1>1, <2>1
  <2>4. Len(gs) <= Len(ts)
    BY <1>4, <2>1
  <2> QED
    BY <1>5, <2>1, <2>2, <2>3, <2>4 DEF Grown
<1>8. id # 0 => /\ AnswerFor(reply, fcs, NoApis) /\ reply \in RpcMessages
                /\ reply.is = "response" /\ reply.id = id
  <2> SUFFICES ASSUME id # 0
               PROVE  /\ AnswerFor(reply, fcs, NoApis) /\ reply \in RpcMessages
                      /\ reply.is = "response" /\ reply.id = id
    OBVIOUS
  <2>1. id \in 1..Len(fcs) /\ id \in Nat
    BY <1>1
  <2>2. Null \in MeantBy(NoApis, fcs[id].asked)
    BY <2>1 DEF Connected, MeantBy
  <2>3. Null \in Answers
    BY DEF Answers
  <2> QED
    BY <2>1, <2>2, <2>3, ResponseParts DEF AnswerFor, RpcMessages
<1> HIDE DEF msg, oms, gs, reply
<1>9. /\ gms \in Seq(RpcMessages) /\ ToSet(fms) \subseteq ToSet(gms)
       /\ (id = 0 => gms = fms)
       /\ (id # 0 => ToSet(gms) = ToSet(fms) \cup {reply})
  BY <1>1, <1>8, ElementsOfAppend
<1> HIDE DEF gms
<1>10. \A n \in ToSet(gms) : ToFar(n, ncs, fcs, apis, cbs)
  <2>1. \A n \in ToSet(fms) : ToFar(n, ncs, fcs, apis, cbs)
    BY DEF Connected
  <2>2. id # 0 => ToFar(reply, ncs, fcs, apis, cbs)
    BY <1>8 DEF ToFar
  <2> QED
    BY <1>9, <2>1, <2>2
<1>11. /\ o \in BOOLEAN /\ CallsFine(ncs, apis, o, nws, ToSet(fms), ToSet(nms))
       /\ CallsFine(fcs, NoApis, o, fws, ToSet(nms), ToSet(fms))
  BY DEF Connected
<1>12. CallsFine(ncs, apis, o, nws, ToSet(gms), ToSet(oms))
  <2>1. CallsFine(ncs, apis, o, nws, ToSet(fms), ToSet(oms))
    BY <1>1, <1>2, <1>3, <1>11, CallsFineIn
  <2> QED
    BY <1>1, <1>9, <1>11, <2>1, CallsFineGrow
<1>13. CallsFine(fcs, NoApis, o, fws, ToSet(oms), ToSet(gms))
  <2> DEFINE none == NoApis
  <2>1. /\ CallsFine(fcs, none, o, fws, ToSet(nms), ToSet(fms)) /\ o \in BOOLEAN
        /\ fcs \in Seq(ApiCalls) /\ ToSet(nms) = {msg} \cup ToSet(oms) /\ ToSet(fms) \subseteq ToSet(gms)
    BY <1>1, <1>2, <1>9, <1>11
  <2> HIDE DEF none
  <2>2. ASSUME id = 0 PROVE CallsFine(fcs, none, o, fws, ToSet(oms), ToSet(gms))
    <3>1. msg.id \notin 1..Len(fcs)
      BY <1>1, <1>3, <2>2
    <3> QED
      BY <2>1, <3>1, CallsFineOut
  <2>3. ASSUME id # 0 PROVE CallsFine(fcs, none, o, fws, ToSet(oms), ToSet(gms))
    <3>1. \E r \in ToSet(gms) : r.is = "response" /\ r.id = msg.id
      BY <1>3, <1>8, <1>9, <2>3
    <3> QED
      BY <2>1, <3>1, CallsFineOut
  <2>4. CallsFine(fcs, none, o, fws, ToSet(oms), ToSet(gms))
    BY <2>2, <2>3
  <2> QED
    BY <2>4 DEF none
<1>14. Connected(apis, ncs, fcs, cbs, nws, fws, fns, ts, gs, oms, gms, o)
  BY <1>2, <1>6, <1>7, <1>9, <1>10, <1>12, <1>13 DEF Connected
<1> QED
  BY <1>14 DEF oms, gs, gms, reply

\* The far end does what is asked and answers.
LEMMA FarTakesAsk ==
    ASSUME NEW apis, NEW ncs, NEW fcs, NEW cbs, NEW nws, NEW fws, NEW fns, NEW ts, NEW hs, NEW nms, NEW fms, NEW o,
           Connected(apis, ncs, fcs, cbs, nws, fws, fns, ts, hs, nms, fms, o), fms # << >>,
           NEW id \in 1..Len(ncs), Head(fms).is = "request", Head(fms).id = id,
           NEW bpis, ApisSound(bpis), Grown(apis, bpis), NEW gns \in Seq(Functors), FunctorsSound(gns, cbs),
           NEW r \in Answers, r \in MeantBy(bpis, ncs[id].asked)
    PROVE  Connected(bpis, ncs, fcs, cbs, nws, fws, gns, ts, hs, Append(nms, Response(id, r)), Tail(fms), o)
<1> DEFINE msg == Head(fms)
           gms == Tail(fms)
           reply == Response(id, r)
           oms == Append(nms, reply)
<1>1. /\ apis \in Seq(Handles) /\ bpis \in Seq(Handles)
      /\ ncs \in Seq(ApiCalls) /\ fcs \in Seq(ApiCalls) /\ cbs \in Seq(Nat)
      /\ ts \in Seq(Uses) /\ hs \in Seq(Uses) /\ nms \in Seq(RpcMessages) /\ fms \in Seq(RpcMessages)
      /\ o \in BOOLEAN /\ NoApis \in Seq(Handles) /\ Grown(NoApis, NoApis) /\ Grown(bpis, bpis) /\ Grown(cbs, cbs)
      /\ Carried(ncs, ncs) /\ Carried(fcs, fcs) /\ Len(ncs) \in Nat
  BY LenProperties DEF Connected, ApisSound, Grown, Carried, NoApis
<1>2. gms \in Seq(RpcMessages) /\ ToSet(fms) = {msg} \cup ToSet(gms)
  BY <1>1, ElementsOfTail
<1>3. /\ reply \in RpcMessages /\ ~IsUse(reply) /\ reply.is = "response" /\ reply.id = id
      /\ AnswerFor(reply, ncs, bpis)
  <2>1. id \in Nat
    BY <1>1
  <2> QED
    BY <2>1, UsesAre, ResponseParts DEF RpcMessages, AnswerFor
<1> HIDE DEF msg, gms, reply
<1>4. oms \in Seq(RpcMessages) /\ ToSet(oms) = ToSet(nms) \cup {reply}
  BY <1>1, <1>3, ElementsOfAppend
<1>5. o => Follows(oms, ts, hs, cbs)
  BY <1>1, <1>3, FollowsOther DEF Connected
<1> HIDE DEF oms
<1>6. /\ \A m \in ToSet(gms) : ToFar(m, ncs, fcs, bpis, cbs)
      /\ \A m \in ToSet(nms) : ToNear(m, ncs, fcs, bpis, cbs)
  BY <1>1, <1>2, ExpectedGrows DEF Connected
<1>7. \A m \in ToSet(oms) : ToNear(m, ncs, fcs, bpis, cbs)
  BY <1>3, <1>4, <1>6 DEF ToNear
<1>8. CallsFine(ncs, bpis, o, nws, ToSet(gms), ToSet(oms))
  <2>1. CallsFine(ncs, bpis, o, nws, ToSet(fms), ToSet(oms))
    BY <1>1, <1>4, CallsFineGrow DEF Connected
  <2>2. \E a \in ToSet(oms) : a.is = "response" /\ a.id = msg.id
    BY <1>3, <1>4 DEF msg
  <2> QED
    BY <1>1, <1>2, <2>1, <2>2, CallsFineOut
<1>9. CallsFine(fcs, NoApis, o, fws, ToSet(oms), ToSet(gms))
  <2>1. CallsFine(fcs, NoApis, o, fws, ToSet(nms), ToSet(gms))
    <3>1. msg.is # "response"
      BY DEF msg
    <3> QED
      BY <1>1, <1>2, <3>1, CallsFineIn DEF Connected
  <2> QED
    BY <1>1, <1>4, <2>1, CallsFineGrow
<1>10. Connected(bpis, ncs, fcs, cbs, nws, fws, gns, ts, hs, oms, gms, o)
  BY <1>2, <1>4, <1>5, <1>6, <1>7, <1>8, <1>9 DEF Connected
<1> QED
  BY <1>10 DEF oms, gms, reply

\* The websocket closes, and an end whose calls have all ended is destroyed.
LEMMA ConnectionCloses ==
    ASSUME NEW apis, NEW ncs, NEW fcs, NEW cbs, NEW nws, NEW fws, NEW fns, NEW ts, NEW hs, NEW nms, NEW fms, NEW o,
           Connected(apis, ncs, fcs, cbs, nws, fws, fns, ts, hs, nms, fms, o),
           NEW mws, mws \subseteq nws, NEW gws, gws \subseteq fws,
           NEW oms \in {nms, << >>}, NEW gms \in {fms, << >>}
    PROVE  Connected(apis, ncs, fcs, cbs, mws, gws, fns, ts, hs, oms, gms, FALSE)
<1>1. /\ ncs \in Seq(ApiCalls) /\ fcs \in Seq(ApiCalls) /\ o \in BOOLEAN
      /\ nms \in Seq(RpcMessages) /\ fms \in Seq(RpcMessages) /\ << >> \in Seq(RpcMessages)
  BY DEF Connected
<1>2. /\ CallsFine(ncs, apis, FALSE, mws, ToSet(gms), ToSet(oms))
      /\ CallsFine(fcs, NoApis, FALSE, gws, ToSet(oms), ToSet(gms))
  BY <1>1, CallsFineClose DEF Connected
<1>3. oms \in Seq(RpcMessages) /\ gms \in Seq(RpcMessages)
  BY <1>1
<1>4. ToSet(oms) \subseteq ToSet(nms) /\ ToSet(gms) \subseteq ToSet(fms)
  BY NoElements
<1> QED
  BY <1>2, <1>3, <1>4 DEF Connected

-----------------------------------------------------------------------------
\* One end changes.
LEMMA OneEnd ==
    ASSUME NEW S, NEW f \in [Ends -> S], NEW x \in S
    PROVE  /\ [f EXCEPT !["near"] = x] \in [Ends -> S]
           /\ [f EXCEPT !["near"] = x]["near"] = x /\ [f EXCEPT !["near"] = x]["far"] = f["far"]
           /\ [f EXCEPT !["far"] = x] \in [Ends -> S]
           /\ [f EXCEPT !["far"] = x]["far"] = x /\ [f EXCEPT !["far"] = x]["near"] = f["near"]
  BY TwoEnds

\* The near end's remote apis have the numbers that the far end gave them.
LEMMA RemotesSound ==
    ASSUME RpcInv, NEW r \in Remotes("near")
    PROVE  /\ r.id \in Nat /\ r.id + 1 \in 1..Len(local_apis["far"])
           /\ local_apis["far"][r.id + 1] = r.handle /\ r.handle \in Handles
<1> DEFINE apis == local_apis["far"]
           ncs == calls["near"]
<1>1. /\ apis \in Seq(Handles) /\ Len(apis) \in Nat /\ Len(apis) >= 2 /\ apis[1] = "root"
      /\ DOMAIN apis = 1..Len(apis) /\ ncs \in Seq(ApiCalls) /\ DOMAIN ncs = 1..Len(ncs)
  BY LenProperties DEF RpcInv, Connected, ApisSound
<1>2. CASE r = [id |-> 0, handle |-> "root"]
  <2>1. r.id = 0 /\ r.handle = "root" /\ "root" \in Handles
    BY <1>2 DEF Handles
  <2> QED
    BY <1>1, <2>1
<1>3. CASE \E i \in DOMAIN ncs : /\ ncs[i].outcome.is = "api" /\ ncs[i].asked.method = "open"
                                 /\ r = [id |-> ncs[i].outcome.of[1], handle |-> ncs[i].asked.args[1]]
  <2>1. PICK i \in 1..Len(ncs) : /\ ncs[i].outcome.is = "api" /\ ncs[i].asked.method = "open"
                                 /\ r = [id |-> ncs[i].outcome.of[1], handle |-> ncs[i].asked.args[1]]
    BY <1>1, <1>3
  <2> DEFINE asked == ncs[i].asked
             got == ncs[i].outcome
  <2>2. CallFine(ncs[i], i, apis, open, awaiting["near"], ToSet(net["far"]), ToSet(net["near"]))
    BY DEF RpcInv, Connected, CallsFine
  <2>3. Null.is # "api" /\ Failed.is # "api" /\ Waiting.is # "api"
    BY DEF Null, Failed, Waiting
  <2>4. got \in MeantBy(apis, asked)
    BY <2>1, <2>2, <2>3 DEF CallFine
  <2>5. \E j \in DOMAIN apis : apis[j] = asked.args[1] /\ got = Number(j - 1)
    <3>1. MeantBy(apis, asked) \subseteq
            {Null, Failed} \cup {Number(j - 1) : j \in {m \in DOMAIN apis : apis[m] = asked.args[1]}}
      BY <2>1 DEF MeantBy
    <3> QED
      BY <2>1, <2>3, <2>4, <3>1
  <2>6. PICK j \in 1..Len(apis) : apis[j] = asked.args[1] /\ got = Number(j - 1)
    BY <1>1, <2>5
  <2>7. got.of[1] = j - 1
    BY <2>6 DEF Number
  <2>8. r.id = j - 1 /\ r.handle = apis[j]
    BY <2>1, <2>6, <2>7
  <2>9. j - 1 \in Nat /\ j - 1 + 1 = j /\ apis[j] \in Handles
    BY <1>1, ElementOfSeq
  <2> QED
    BY <2>8, <2>9
<1> QED
  BY <1>2, <1>3 DEF Remotes

\* The near end makes a call: of a remote api, of one by its name, or of api 0.
LEMMA NearCallStep ==
    ASSUME RpcInv, NEW method, NEW params, NEW asked \in Askings, Len(calls["near"]) < MaxCalls,
           NEW dbs \in Seq(Nat), Grown(callbacks["near"], dbs),
           callbacks' = [callbacks EXCEPT !["near"] = dbs],
           remote_call("near", method, params, asked),
           UNCHANGED <<local_apis, held, told, heard, open, alive, strays>>,
           Request(Len(calls["near"]) + 1, method, params) \in RpcMessages,
           AsksFor(Request(Len(calls["near"]) + 1, method, params), Len(calls["near"]) + 1, asked,
                   local_apis["far"], dbs)
    PROVE  RpcInv'
<1> DEFINE ncs == calls["near"]
           fms == net["far"]
           id == Len(ncs) + 1
           c == [asked |-> asked, outcome |-> IF open THEN Waiting ELSE Failed]
           msg == Request(id, method, params)
           mcs == Append(ncs, c)
           gms == IF open THEN Append(fms, msg) ELSE fms
           mws == awaiting["near"] \cup {id}
<1>1. /\ callbacks \in [Ends -> Seq(Nat)] /\ calls \in [Ends -> Seq(ApiCalls)]
      /\ awaiting \in [Ends -> SUBSET Nat] /\ net \in [Ends -> Seq(RpcMessages)] /\ open \in BOOLEAN
      /\ ncs \in Seq(ApiCalls) /\ fms \in Seq(RpcMessages) /\ Len(ncs) \in Nat
      /\ awaiting["near"] \in SUBSET Nat
  BY TwoEnds, LenProperties DEF RpcInv, RpcTypeOK
<1>2. c \in ApiCalls /\ c.asked = asked /\ c.outcome = IF open THEN Waiting ELSE Failed
  <2>1. Waiting \in Answers /\ Failed \in Answers
    BY DEF Answers
  <2> QED
    BY <1>1, <2>1 DEF ApiCalls
<1>3. msg.is = "request" /\ msg.id = id
  BY RequestParts
<1>4. /\ calls' = [calls EXCEPT !["near"] = mcs] /\ awaiting' = [awaiting EXCEPT !["near"] = mws]
      /\ net' = IF open THEN [net EXCEPT !["far"] = Append(fms, msg)] ELSE net
  BY TwoEnds DEF remote_call
<1>5. Connected(local_apis["far"], mcs, calls["far"], dbs, mws, awaiting["far"], held["far"], told["far"],
                heard["near"], net["near"], gms, open)
  <2> HIDE DEF c, msg
  <2>1. AsksFor(msg, id, c.asked, local_apis["far"], dbs) /\ msg \in RpcMessages
    BY <1>2 DEF msg
  <2> QED
    BY <1>2, <1>3, <2>1, NearCalls DEF RpcInv
<1> HIDE DEF c, msg
<1>6. mcs \in Seq(ApiCalls) /\ mws \in SUBSET Nat /\ Append(fms, msg) \in Seq(RpcMessages)
  BY <1>1, <1>2, AppendProperties DEF msg
<1> HIDE DEF mcs, mws
<1>7. calls' \in [Ends -> Seq(ApiCalls)] /\ calls'["near"] = mcs /\ calls'["far"] = calls["far"]
  BY <1>1, <1>4, <1>6, OneEnd
<1>8. awaiting' \in [Ends -> SUBSET Nat] /\ awaiting'["near"] = mws /\ awaiting'["far"] = awaiting["far"]
  BY <1>1, <1>4, <1>6, OneEnd
<1>9. net' \in [Ends -> Seq(RpcMessages)] /\ net'["far"] = gms /\ net'["near"] = net["near"]
  BY <1>1, <1>4, <1>6, OneEnd
<1>10. callbacks' \in [Ends -> Seq(Nat)] /\ callbacks'["near"] = dbs
  BY <1>1, OneEnd
<1> QED
  BY <1>5, <1>7, <1>8, <1>9, <1>10 DEF RpcInv, RpcTypeOK

\* The near end asks an api it knows by number; a watch hands its callback over.
LEMMA SendCallStep ==
    ASSUME RpcInv, NEW r \in Remotes("near"), NEW method \in {"open", "watch", "echo"}, NEW arg \in AskedArgs,
           send_call("near", r, method, arg)
    PROVE  RpcInv'
<1> DEFINE id == Len(calls["near"]) + 1
           cbs == callbacks["near"]
           apis == local_apis["far"]
           asked == asking(r.handle, method, arg)
<1>1. /\ callbacks \in [Ends -> Seq(Nat)] /\ cbs \in Seq(Nat) /\ Len(cbs) \in Nat
      /\ Len(calls["near"]) \in Nat /\ id \in Nat /\ Len(calls["near"]) < MaxCalls
  BY TwoEnds, LenProperties DEF RpcInv, RpcTypeOK, send_call
<1>2. /\ r.id \in Nat /\ r.id + 1 \in 1..Len(apis) /\ apis[r.id + 1] = r.handle /\ r.handle \in Handles
  BY RemotesSound
<1>3. asked \in Askings /\ asked.handle = r.handle /\ asked.method = method /\ asked.args = arg
  BY <1>2 DEF asking, Askings
<1>4. UNCHANGED <<local_apis, held, told, heard, open, alive, strays>>
  BY DEF send_call
<1>5. CASE method # "watch"
  <2> DEFINE params == <<[id |-> r.id], method, arg>>
  <2>1. remote_call("near", "call", params, asked) /\ callbacks' = callbacks
    BY <1>5 DEF send_call
  <2>2. callbacks' = [callbacks EXCEPT !["near"] = cbs] /\ Grown(cbs, cbs)
    BY <1>1, <2>1 DEF Grown
  <2>3. Request(id, "call", params) = ByNumber(id, r.id, method, arg)
    BY DEF ByNumber
  <2> HIDE DEF params
  <2>4. Request(id, "call", params) \in RpcMessages
    <3>1. method \in {"open", "echo"}
      BY <1>5
    <3> QED
      BY <1>1, <1>2, <2>3, <3>1, RequestsAre
  <2>5. AsksFor(Request(id, "call", params), id, asked, apis, cbs)
    BY <1>2, <1>3, <1>5, <2>3 DEF AsksFor
  <2> HIDE DEF asked
  <2> QED
    BY <1>1, <1>3, <1>4, <2>1, <2>2, <2>4, <2>5, NearCallStep
<1>6. CASE method = "watch"
  <2> DEFINE k == Len(cbs)
             params == <<[id |-> r.id], "watch", <<k>>>>
             dbs == Append(cbs, id)
  <2>1. remote_call("near", "call", params, asked) /\ callbacks' = [callbacks EXCEPT !["near"] = dbs]
    BY <1>6 DEF send_call
  <2>2. /\ dbs \in Seq(Nat) /\ Grown(cbs, dbs) /\ k \in Nat /\ k + 1 \in 1..Len(dbs) /\ dbs[k + 1] = id
    BY <1>1, AppendProperties, GrownByAppend
  <2>3. Request(id, "call", params) = ByNumber(id, r.id, "watch", <<k>>)
    BY DEF ByNumber
  <2> HIDE DEF params, k, dbs
  <2>4. Request(id, "call", params) \in RpcMessages
    BY <1>1, <1>2, <2>2, <2>3, RequestsAre
  <2>5. AsksFor(Request(id, "call", params), id, asked, apis, dbs)
    BY <1>2, <1>3, <1>6, <2>2, <2>3 DEF AsksFor
  <2> HIDE DEF asked
  <2> QED
    BY <1>1, <1>3, <1>4, <2>1, <2>2, <2>4, <2>5, NearCallStep
<1> QED
  BY <1>5, <1>6

\* It asks an api by its name.
LEMMA SendNamedStep ==
    ASSUME RpcInv, NEW name \in {"database", "ghost"}, send_named("near", name)
    PROVE  RpcInv'
<1> DEFINE id == Len(calls["near"]) + 1
           cbs == callbacks["near"]
           params == <<[name |-> name], "echo", <<"x">>>>
           asked == asking(name, "echo", <<"x">>)
<1>1. /\ callbacks \in [Ends -> Seq(Nat)] /\ cbs \in Seq(Nat) /\ Len(cbs) \in Nat
      /\ id \in Nat /\ Len(calls["near"]) < MaxCalls
  BY TwoEnds, LenProperties DEF RpcInv, RpcTypeOK, send_named
<1>2. /\ UNCHANGED <<local_apis, held, told, heard, open, alive, strays>>
      /\ remote_call("near", "call", params, asked) /\ callbacks' = callbacks
  BY DEF send_named
<1>3. callbacks' = [callbacks EXCEPT !["near"] = cbs] /\ Grown(cbs, cbs)
  BY <1>1, <1>2 DEF Grown
<1>4. asked \in Askings
  <2>1. <<"x">> \in AskedArgs /\ name \in Handles \cup {"ghost", "callback"}
    BY DEF AskedArgs, Handles
  <2> QED
    BY <2>1 DEF asking, Askings
<1>5. Request(id, "call", params) = ByName(id, name)
  BY DEF ByName
<1>6. AsksFor(ByName(id, name), id, asked, local_apis["far"], cbs)
  BY DEF AsksFor
<1>7. ByName(id, name) \in RpcMessages
  BY <1>1 DEF RpcMessages
<1> HIDE DEF params, asked
<1> QED
  BY <1>1, <1>2, <1>3, <1>4, <1>5, <1>6, <1>7, NearCallStep

\* It asks api 0 without the word "call".
LEMMA SendPlainStep ==
    ASSUME RpcInv, NEW arg \in AskedArgs, send_plain("near", arg)
    PROVE  RpcInv'
<1> DEFINE id == Len(calls["near"]) + 1
           cbs == callbacks["near"]
           asked == asking("root", "open", arg)
<1>1. /\ callbacks \in [Ends -> Seq(Nat)] /\ cbs \in Seq(Nat) /\ Len(cbs) \in Nat
      /\ id \in Nat /\ Len(calls["near"]) < MaxCalls
  BY TwoEnds, LenProperties DEF RpcInv, RpcTypeOK, send_plain
<1>2. /\ UNCHANGED <<local_apis, held, told, heard, open, alive, strays>>
      /\ remote_call("near", "open", arg, asked) /\ callbacks' = callbacks
  BY DEF send_plain
<1>3. callbacks' = [callbacks EXCEPT !["near"] = cbs] /\ Grown(cbs, cbs)
  BY <1>1, <1>2 DEF Grown
<1>4. asked \in Askings /\ asked.method = "open" /\ asked.handle = "root" /\ asked.args = arg
  BY DEF asking, Askings, Handles
<1>5. Request(id, "open", arg) = Plainly(id, arg)
  BY DEF Plainly
<1> HIDE DEF asked
<1>6. AsksFor(Plainly(id, arg), id, asked, local_apis["far"], cbs)
  BY <1>4 DEF AsksFor
<1>7. Plainly(id, arg) \in RpcMessages
  BY <1>1 DEF RpcMessages
<1> QED
  BY <1>1, <1>2, <1>3, <1>4, <1>5, <1>6, <1>7, NearCallStep

\* The far end waits for a callback on a closed websocket: the call fails.
LEMMA FarRefused ==
    ASSUME NEW apis, NEW ncs, NEW fcs, NEW cbs, NEW nws, NEW fws, NEW fns, NEW ts, NEW hs, NEW nms, NEW fms,
           Connected(apis, ncs, fcs, cbs, nws, fws, fns, ts, hs, nms, fms, FALSE),
           NEW gcs \in Seq(ApiCalls), Carried(fcs, gcs), NEW gws,
           \A i \in 1..Len(gcs) : gcs[i].asked.method = "callback",
           CallsFine(gcs, NoApis, FALSE, gws, ToSet(nms), ToSet(fms))
    PROVE  Connected(apis, ncs, gcs, cbs, nws, gws, fns, ts, hs, nms, fms, FALSE)
<1>1. /\ apis \in Seq(Handles) /\ ncs \in Seq(ApiCalls) /\ fcs \in Seq(ApiCalls) /\ cbs \in Seq(Nat)
      /\ Carried(ncs, ncs) /\ Grown(apis, apis) /\ Grown(cbs, cbs)
  BY LenProperties DEF Connected, ApisSound, Carried, Grown
<1>2. /\ \A n \in ToSet(nms) : ToNear(n, ncs, gcs, apis, cbs)
      /\ \A n \in ToSet(fms) : ToFar(n, ncs, gcs, apis, cbs)
  BY <1>1, ExpectedGrows DEF Connected
<1> QED
  BY <1>2 DEF Connected

\* The far end uses a callback and waits.
LEMMA SendCallbackStep ==
    ASSUME RpcInv, NEW i \in DOMAIN held["far"], NEW x \in {"x", "y"}, send_callback("far", held["far"][i], x)
    PROVE  RpcInv'
<1> DEFINE fcs == calls["far"]
           nms == net["near"]
           cbs == callbacks["near"]
           k == held["far"][i].callback_id
           id == Len(fcs) + 1
           c == [asked |-> asking("callback", "callback", <<x>>), outcome |-> IF open THEN Waiting ELSE Failed]
           gcs == Append(fcs, c)
           gws == awaiting["far"] \cup {id}
           msg == Use(id, "callback", k, x)
           u == <<cbs[k + 1], x>>
<1>1. /\ calls \in [Ends -> Seq(ApiCalls)] /\ told \in [Ends -> Seq(Uses)]
      /\ awaiting \in [Ends -> SUBSET Nat] /\ net \in [Ends -> Seq(RpcMessages)] /\ open \in BOOLEAN
      /\ fcs \in Seq(ApiCalls) /\ nms \in Seq(RpcMessages) /\ Len(fcs) \in Nat /\ Len(fcs) < MaxCalls
      /\ awaiting["far"] \in SUBSET Nat /\ told["far"] \in Seq(Uses) /\ cbs \in Seq(Nat)
  BY TwoEnds, LenProperties DEF RpcInv, RpcTypeOK, send_callback
<1>2. k \in Nat /\ k + 1 \in 1..Len(cbs) /\ held["far"][i].call = cbs[k + 1]
  <2>1. held["far"] \in Seq(Functors) /\ i \in 1..Len(held["far"])
    BY TwoEnds, LenProperties DEF RpcInv, RpcTypeOK
  <2>2. held["far"][i] \in Functors
    BY <2>1, ElementOfSeq
  <2> QED
    BY <2>1, <2>2 DEF RpcInv, Connected, FunctorsSound, Functors
<1>3. c \in ApiCalls /\ c.asked.method = "callback" /\ c.outcome = IF open THEN Waiting ELSE Failed
  <2>1. Waiting \in Answers /\ Failed \in Answers
    BY DEF Answers
  <2>2. <<x>> \in AskedArgs
    BY DEF AskedArgs, Handles
  <2>3. asking("callback", "callback", <<x>>) \in Askings /\ asking("callback", "callback", <<x>>).method = "callback"
    BY <2>2 DEF Askings, asking
  <2> DEFINE a == asking("callback", "callback", <<x>>)
  <2> HIDE DEF a
  <2> QED
    BY <1>1, <2>1, <2>3 DEF ApiCalls, a
<1>4. /\ calls' = [calls EXCEPT !["far"] = gcs] /\ awaiting' = [awaiting EXCEPT !["far"] = gws]
      /\ net' = IF open THEN [net EXCEPT !["near"] = Append(nms, msg)] ELSE net
      /\ told' = IF open THEN [told EXCEPT !["far"] = Append(told["far"], u)] ELSE told
      /\ UNCHANGED <<local_apis, callbacks, held, heard, open, alive, strays>>
  BY <1>2, TwoEnds DEF send_callback, remote_call, Use
<1>5. msg \in RpcMessages /\ msg.is = "request" /\ msg.id = id
  <2>1. msg \in RpcMessages
    BY <1>1, <1>2, RequestsAre
  <2> QED
    BY <2>1, RequestParts DEF Use
<1>6. u \in Uses
  BY <1>1, <1>2, ElementOfSeq DEF Uses
<1> HIDE DEF c
<1>7. /\ gcs \in Seq(ApiCalls) /\ Len(gcs) = id /\ Carried(fcs, gcs)
      /\ \A j \in 1..Len(gcs) : gcs[j].asked.method = "callback"
  <2>1. /\ gcs \in Seq(ApiCalls) /\ Len(gcs) = Len(fcs) + 1 /\ gcs[Len(fcs) + 1] = c
        /\ \A j \in 1..Len(fcs) : gcs[j] = fcs[j]
    BY <1>1, <1>3, ElementsOfAppend
  <2>2. Carried(fcs, gcs)
    BY <1>1, <1>3, CarriedByAppend
  <2> HIDE DEF gcs
  <2>3. \A j \in 1..Len(gcs) : j \in 1..Len(fcs) \/ j = Len(fcs) + 1
    BY <1>1, <2>1
  <2> QED
    BY <1>3, <2>1, <2>2, <2>3 DEF RpcInv, Connected
<1>8. CASE open
  <2> HIDE DEF msg
  <2> DEFINE oms == Append(nms, msg)
             none == NoApis
  <2>1. oms \in Seq(RpcMessages) /\ ToSet(oms) = ToSet(nms) \cup {msg}
    BY <1>1, <1>5, ElementsOfAppend
  <2>2. CallsFine(fcs, none, open, awaiting["far"], ToSet(nms), ToSet(net["far"]))
    BY DEF RpcInv, Connected
  <2> HIDE DEF oms, none
  <2>3. CallsFine(gcs, none, open, gws, ToSet(oms), ToSet(net["far"]))
    BY <1>1, <1>3, <1>5, <2>1, <2>2, CallsFineCall
  <2>4. id \in 0..Len(gcs)
    BY <1>1, <1>7
  <2> HIDE DEF gcs, gws
  <2>5. CallsFine(gcs, NoApis, open, gws, ToSet(Append(nms, msg)), ToSet(net["far"]))
    BY <2>3 DEF none, oms
  <2>6. Connected(local_apis["far"], calls["near"], fcs, cbs, awaiting["near"], awaiting["far"], held["far"],
                  told["far"], heard["near"], nms, net["far"], open)
    BY DEF RpcInv
  <2>7. Connected(local_apis["far"], calls["near"], gcs, cbs, awaiting["near"], gws, held["far"],
                  Append(told["far"], u), heard["near"], oms, net["far"], open)
    <3>1. IsUse(msg) /\ Runs(msg, u, cbs) /\ ToNear(msg, calls["near"], gcs, local_apis["far"], cbs)
      <4>1. id \in Nat
        BY <1>1
      <4> QED
        BY <1>2, <2>4, <4>1, UsesAre DEF Runs, ToNear, msg
    <3> HIDE DEF u, fcs, nms, cbs
    <3>2. Connected(local_apis["far"], calls["near"], gcs, cbs, awaiting["near"], gws, held["far"],
                    Append(told["far"], u), heard["near"], Append(nms, msg), net["far"], open)
      BY <1>1, <1>5, <1>6, <1>7, <1>8, <2>5, <2>6, <3>1, FarUses
    <3> QED
      BY <3>2 DEF oms
  <2> HIDE DEF u
  <2> DEFINE us == Append(told["far"], u)
  <2>8. us \in Seq(Uses) /\ gws \in SUBSET Nat
    BY <1>1, <1>6, AppendProperties DEF gws
  <2>9. told' = [told EXCEPT !["far"] = us] /\ net' = [net EXCEPT !["near"] = oms]
    BY <1>4, <1>8 DEF oms
  <2> HIDE DEF us
  <2>10. calls' \in [Ends -> Seq(ApiCalls)] /\ calls'["far"] = gcs /\ calls'["near"] = calls["near"]
    BY <1>1, <1>4, <1>7, OneEnd
  <2>11. awaiting' \in [Ends -> SUBSET Nat] /\ awaiting'["far"] = gws /\ awaiting'["near"] = awaiting["near"]
    BY <1>1, <1>4, <2>8, OneEnd
  <2>12. net' \in [Ends -> Seq(RpcMessages)] /\ net'["near"] = oms /\ net'["far"] = net["far"]
    BY <1>1, <2>1, <2>9, OneEnd
  <2>13. told' \in [Ends -> Seq(Uses)] /\ told'["far"] = us /\ told'["near"] = told["near"]
    BY <1>1, <2>8, <2>9, OneEnd
  <2>14. Connected(local_apis["far"], calls["near"], gcs, cbs, awaiting["near"], gws, held["far"],
                   us, heard["near"], oms, net["far"], open)
    BY <2>7 DEF us
  <2> QED
    BY <1>4, <2>10, <2>11, <2>12, <2>13, <2>14 DEF RpcInv, RpcTypeOK
<1>9. CASE ~open
  <2> DEFINE none == NoApis
  <2>1. CallsFine(fcs, none, open, awaiting["far"], ToSet(nms), ToSet(net["far"]))
    BY DEF RpcInv, Connected
  <2> HIDE DEF none
  <2>2. CallsFine(gcs, none, open, gws, ToSet(nms), ToSet(net["far"]))
    BY <1>1, <1>3, <1>9, <2>1, CallsFineCall
  <2> HIDE DEF gcs, gws
  <2>3. CallsFine(gcs, NoApis, FALSE, gws, ToSet(nms), ToSet(net["far"]))
    BY <1>1, <1>9, <2>2 DEF none
  <2>4. Connected(local_apis["far"], calls["near"], fcs, cbs, awaiting["near"], awaiting["far"], held["far"],
                  told["far"], heard["near"], nms, net["far"], FALSE)
    BY <1>1, <1>9 DEF RpcInv
  <2>5. Connected(local_apis["far"], calls["near"], gcs, cbs, awaiting["near"], gws, held["far"],
                  told["far"], heard["near"], nms, net["far"], FALSE)
    BY <1>7, <2>3, <2>4, FarRefused
  <2>6. calls' \in [Ends -> Seq(ApiCalls)] /\ calls'["far"] = gcs /\ calls'["near"] = calls["near"]
    BY <1>1, <1>4, <1>7, OneEnd
  <2>7. gws \in SUBSET Nat
    BY <1>1 DEF gws
  <2>8. awaiting' \in [Ends -> SUBSET Nat] /\ awaiting'["far"] = gws /\ awaiting'["near"] = awaiting["near"]
    BY <1>1, <1>4, <2>7, OneEnd
  <2>9. Connected(local_apis["far"], calls["near"], gcs, cbs, awaiting["near"], gws, held["far"],
                  told["far"], heard["near"], nms, net["far"], open)
    BY <1>1, <1>9, <2>5
  <2>10. net' = net /\ told' = told
    BY <1>4, <1>9
  <2> QED
    BY <1>4, <2>6, <2>8, <2>9, <2>10 DEF RpcInv, RpcTypeOK
<1> QED
  BY <1>8, <1>9

\* The far end uses a callback and does not wait.
LEMMA SendNoticeStep ==
    ASSUME RpcInv, NEW i \in DOMAIN held["far"], NEW x \in {"x", "y"}, send_notice("far", held["far"][i], x)
    PROVE  RpcInv'
<1> DEFINE nms == net["near"]
           cbs == callbacks["near"]
           k == held["far"][i].callback_id
           msg == Use(0, "notice", k, x)
           u == <<cbs[k + 1], x>>
           oms == Append(nms, msg)
           us == Append(told["far"], u)
<1>1. /\ told \in [Ends -> Seq(Uses)] /\ net \in [Ends -> Seq(RpcMessages)] /\ open \in BOOLEAN /\ open
      /\ nms \in Seq(RpcMessages) /\ told["far"] \in Seq(Uses) /\ cbs \in Seq(Nat)
      /\ calls["far"] \in Seq(ApiCalls) /\ Len(calls["far"]) \in Nat /\ Carried(calls["far"], calls["far"])
  BY TwoEnds, LenProperties DEF RpcInv, RpcTypeOK, send_notice, Carried
<1>2. k \in Nat /\ k + 1 \in 1..Len(cbs) /\ held["far"][i].call = cbs[k + 1]
  <2>1. held["far"] \in Seq(Functors) /\ i \in 1..Len(held["far"])
    BY TwoEnds, LenProperties DEF RpcInv, RpcTypeOK
  <2>2. held["far"][i] \in Functors
    BY <2>1, ElementOfSeq
  <2> QED
    BY <2>1, <2>2 DEF RpcInv, Connected, FunctorsSound, Functors
<1>3. /\ net' = [net EXCEPT !["near"] = oms] /\ told' = [told EXCEPT !["far"] = us]
      /\ UNCHANGED <<local_apis, callbacks, calls, awaiting, held, heard, open, alive, strays>>
  BY <1>2, TwoEnds DEF send_notice, Use
<1>4. /\ msg \in RpcMessages /\ IsUse(msg) /\ Runs(msg, u, cbs)
      /\ ToNear(msg, calls["near"], calls["far"], local_apis["far"], cbs)
  <2>1. 0 \in 0..Len(calls["far"]) /\ 0 \in Nat
    BY <1>1
  <2> QED
    BY <1>2, <2>1, RequestsAre, UsesAre DEF Runs, ToNear
<1>5. u \in Uses
  BY <1>1, <1>2, ElementOfSeq DEF Uses
<1> HIDE DEF msg, u
<1>6. /\ oms \in Seq(RpcMessages) /\ us \in Seq(Uses) /\ ToSet(oms) = ToSet(nms) \cup {msg}
  BY <1>1, <1>4, <1>5, ElementsOfAppend
<1> HIDE DEF oms
<1>7. CallsFine(calls["far"], NoApis, open, awaiting["far"], ToSet(oms), ToSet(net["far"]))
  <2>1. NoApis \in Seq(Handles) /\ Grown(NoApis, NoApis)
    BY DEF NoApis, Grown
  <2>2. CallsFine(calls["far"], NoApis, open, awaiting["far"], ToSet(nms), ToSet(net["far"]))
    BY DEF RpcInv, Connected
  <2>3. /\ calls["far"] \in Seq(ApiCalls) /\ open \in BOOLEAN
        /\ ToSet(nms) \subseteq ToSet(oms) /\ ToSet(net["far"]) \subseteq ToSet(net["far"])
    BY <1>1, <1>6
  <2> QED
    BY <2>1, <2>2, <2>3, CallsFineGrow
<1>8. Connected(local_apis["far"], calls["near"], calls["far"], cbs, awaiting["near"], awaiting["far"],
                held["far"], us, heard["near"], oms, net["far"], open)
  <2>1. \A j \in 1..Len(calls["far"]) : calls["far"][j].asked.method = "callback"
    BY DEF RpcInv, Connected
  <2>2. CallsFine(calls["far"], NoApis, open, awaiting["far"], ToSet(Append(nms, msg)), ToSet(net["far"]))
    BY <1>7 DEF oms
  <2>3. Connected(local_apis["far"], calls["near"], calls["far"], cbs, awaiting["near"], awaiting["far"],
                  held["far"], us, heard["near"], Append(nms, msg), net["far"], open)
    BY <1>1, <1>4, <1>5, <2>1, <2>2, FarUses DEF RpcInv
  <2> QED
    BY <2>3 DEF oms
<1> HIDE DEF us
<1>9. net' \in [Ends -> Seq(RpcMessages)] /\ net'["near"] = oms /\ net'["far"] = net["far"]
  BY <1>1, <1>3, <1>6, OneEnd
<1>10. told' \in [Ends -> Seq(Uses)] /\ told'["far"] = us /\ told'["near"] = told["near"]
  BY <1>1, <1>3, <1>6, OneEnd
<1> QED
  BY <1>3, <1>8, <1>9, <1>10 DEF RpcInv, RpcTypeOK

\* A message of another program comes.
LEMMA StrayStep ==
    ASSUME RpcInv, NEW e \in Ends, NEW msg \in Strays, stray(e, msg)
    PROVE  RpcInv'
<1> DEFINE nms == net["near"]
           fms == net["far"]
<1>1. /\ net \in [Ends -> Seq(RpcMessages)] /\ nms \in Seq(RpcMessages) /\ fms \in Seq(RpcMessages) /\ strays' \in Nat
      /\ UNCHANGED <<local_apis, callbacks, calls, awaiting, held, told, heard, open, alive>>
      /\ net' = [net EXCEPT ![e] = Append(net[e], msg)]
  BY TwoEnds DEF RpcInv, RpcTypeOK, stray
<1>2. FromElsewhere(msg) /\ msg \in RpcMessages
  BY ForeignIs DEF FromElsewhere
<1>3. /\ Connected(local_apis["far"], calls["near"], calls["far"], callbacks["near"], awaiting["near"],
                   awaiting["far"], held["far"], told["far"], heard["near"], Append(nms, msg), fms, open)
      /\ Connected(local_apis["far"], calls["near"], calls["far"], callbacks["near"], awaiting["near"],
                   awaiting["far"], held["far"], told["far"], heard["near"], nms, Append(fms, msg), open)
  BY <1>2, StrayComes DEF RpcInv
<1>4. Append(nms, msg) \in Seq(RpcMessages) /\ Append(fms, msg) \in Seq(RpcMessages)
  BY <1>1, <1>2, AppendProperties
<1>5. CASE e = "near"
  <2>1. net' \in [Ends -> Seq(RpcMessages)] /\ net'["near"] = Append(nms, msg) /\ net'["far"] = fms
    BY <1>1, <1>4, <1>5, OneEnd
  <2> QED
    BY <1>1, <1>3, <2>1 DEF RpcInv, RpcTypeOK
<1>6. CASE e = "far"
  <2>1. net' \in [Ends -> Seq(RpcMessages)] /\ net'["far"] = Append(fms, msg) /\ net'["near"] = nms
    BY <1>1, <1>4, <1>6, OneEnd
  <2> QED
    BY <1>1, <1>3, <2>1 DEF RpcInv, RpcTypeOK
<1> QED
  BY <1>5, <1>6, TwoEnds

\* The websocket closes: what was under way is lost, and the calls keep what they have.
LEMMA ClosedStep ==
    ASSUME RpcInv, on_closed
    PROVE  RpcInv'
<1>1. /\ open' = FALSE /\ net' = [e \in Ends |-> << >>]
      /\ UNCHANGED <<local_apis, callbacks, calls, awaiting, held, told, heard, alive, strays>>
  BY DEF on_closed
<1>2. net' \in [Ends -> Seq(RpcMessages)] /\ net'["near"] = << >> /\ net'["far"] = << >>
  BY <1>1, TwoEnds
<1>3. Connected(local_apis["far"], calls["near"], calls["far"], callbacks["near"], awaiting["near"],
                awaiting["far"], held["far"], told["far"], heard["near"], << >>, << >>, FALSE)
  BY ConnectionCloses DEF RpcInv
<1> QED
  BY <1>1, <1>2, <1>3 DEF RpcInv, RpcTypeOK

\* A connection object goes.
LEMMA DestroyedStep ==
    ASSUME RpcInv, NEW e \in Ends, destroyed(e)
    PROVE  RpcInv'
<1> DEFINE nws == awaiting["near"]
           fws == awaiting["far"]
<1>1. /\ open = FALSE /\ alive' \in [Ends -> BOOLEAN] /\ awaiting' = [awaiting EXCEPT ![e] = {}]
      /\ UNCHANGED <<local_apis, callbacks, calls, held, told, heard, net, open, strays>>
      /\ awaiting \in [Ends -> SUBSET Nat] /\ {} \in SUBSET Nat
  BY DEF destroyed, RpcInv, RpcTypeOK
<1>2. /\ Connected(local_apis["far"], calls["near"], calls["far"], callbacks["near"], {},
                   fws, held["far"], told["far"], heard["near"], net["near"], net["far"], FALSE)
      /\ Connected(local_apis["far"], calls["near"], calls["far"], callbacks["near"], nws,
                   {}, held["far"], told["far"], heard["near"], net["near"], net["far"], FALSE)
  <2>1. {} \subseteq nws /\ {} \subseteq fws
    OBVIOUS
  <2> QED
    BY <2>1, ConnectionCloses DEF RpcInv
<1>3. CASE e = "near"
  <2>1. awaiting' \in [Ends -> SUBSET Nat] /\ awaiting'["near"] = {} /\ awaiting'["far"] = fws
    BY <1>1, <1>3, OneEnd
  <2> QED
    BY <1>1, <1>2, <2>1 DEF RpcInv, RpcTypeOK
<1>4. CASE e = "far"
  <2>1. awaiting' \in [Ends -> SUBSET Nat] /\ awaiting'["far"] = {} /\ awaiting'["near"] = nws
    BY <1>1, <1>4, OneEnd
  <2> QED
    BY <1>1, <1>2, <2>1 DEF RpcInv, RpcTypeOK
<1> QED
  BY <1>3, <1>4, TwoEnds

-----------------------------------------------------------------------------
\* An end has handled a request.
LEMMA NearHandled ==
    ASSUME RpcInv, NEW msg, NEW gs, NEW r,
           handle_request("near", msg, AnEnd(NoApis, held["near"], callbacks["near"], gs, r)),
           UNCHANGED <<told, open, alive, strays>>,
           Connected(local_apis["far"], calls["near"], calls["far"], callbacks["near"], awaiting["near"],
                     awaiting["far"], held["far"], told["far"], gs, Tail(net["near"]),
                     IF msg.id = 0 THEN net["far"] ELSE Append(net["far"], Response(msg.id, r)), open)
    PROVE  RpcInv'
<1> DEFINE oms == Tail(net["near"])
           gms == IF msg.id = 0 THEN net["far"] ELSE Append(net["far"], Response(msg.id, r))
           end == AnEnd(NoApis, held["near"], callbacks["near"], gs, r)
<1>1. /\ end.apis = NoApis /\ end.functors = held["near"] /\ end.heard = gs /\ end.result = r
  BY DEF AnEnd
<1> HIDE DEF end
<1>2. /\ local_apis' = [local_apis EXCEPT !["near"] = NoApis] /\ held' = [held EXCEPT !["near"] = held["near"]]
      /\ heard' = [heard EXCEPT !["near"] = gs]
      /\ UNCHANGED <<callbacks, calls, awaiting>>
  BY <1>1 DEF handle_request, end
<1>3. net' = [o \in Ends |-> IF o = "near" THEN oms ELSE gms]
  BY <1>1, TwoEnds DEF handle_request, end
<1>4. /\ oms \in Seq(RpcMessages) /\ gms \in Seq(RpcMessages) /\ gs \in Seq(Uses)
      /\ NoApis \in Seq(Handles) /\ held["near"] \in Seq(Functors)
  BY TwoEnds DEF Connected, RpcInv, RpcTypeOK, NoApis
<1> HIDE DEF oms, gms
<1>5. net' \in [Ends -> Seq(RpcMessages)] /\ net'["near"] = oms /\ net'["far"] = gms
  BY <1>3, <1>4, TwoEnds
<1>6. /\ local_apis' \in [Ends -> Seq(Handles)] /\ local_apis'["near"] = NoApis /\ local_apis'["far"] = local_apis["far"]
  BY <1>2, <1>4, OneEnd DEF RpcInv, RpcTypeOK
<1>7. held' \in [Ends -> Seq(Functors)] /\ held'["far"] = held["far"]
  BY <1>2, <1>4, OneEnd DEF RpcInv, RpcTypeOK
<1>8. heard' \in [Ends -> Seq(Uses)] /\ heard'["near"] = gs /\ heard'["far"] = heard["far"]
  BY <1>2, <1>4, OneEnd DEF RpcInv, RpcTypeOK
<1>9. Connected(local_apis["far"], calls["near"], calls["far"], callbacks["near"], awaiting["near"],
                awaiting["far"], held["far"], told["far"], gs, oms, gms, open)
  BY DEF oms, gms
<1> QED
  BY <1>2, <1>5, <1>6, <1>7, <1>8, <1>9 DEF RpcInv, RpcTypeOK

\* The far end has handled a request.
LEMMA FarHandled ==
    ASSUME RpcInv, NEW msg, NEW bpis, NEW gns, NEW r,
           handle_request("far", msg, AnEnd(bpis, gns, callbacks["far"], heard["far"], r)),
           UNCHANGED <<told, open, alive, strays>>,
           Connected(bpis, calls["near"], calls["far"], callbacks["near"], awaiting["near"],
                     awaiting["far"], gns, told["far"], heard["near"],
                     IF msg.id = 0 THEN net["near"] ELSE Append(net["near"], Response(msg.id, r)),
                     Tail(net["far"]), open)
    PROVE  RpcInv'
<1> DEFINE gms == Tail(net["far"])
           oms == IF msg.id = 0 THEN net["near"] ELSE Append(net["near"], Response(msg.id, r))
           end == AnEnd(bpis, gns, callbacks["far"], heard["far"], r)
<1>1. /\ end.apis = bpis /\ end.functors = gns /\ end.heard = heard["far"] /\ end.result = r
  BY DEF AnEnd
<1> HIDE DEF end
<1>2. /\ local_apis' = [local_apis EXCEPT !["far"] = bpis] /\ held' = [held EXCEPT !["far"] = gns]
      /\ heard' = [heard EXCEPT !["far"] = heard["far"]]
      /\ UNCHANGED <<callbacks, calls, awaiting>>
  BY <1>1 DEF handle_request, end
<1>3. net' = [o \in Ends |-> IF o = "far" THEN gms ELSE oms]
  BY <1>1, TwoEnds DEF handle_request, end
<1>4. /\ oms \in Seq(RpcMessages) /\ gms \in Seq(RpcMessages) /\ gns \in Seq(Functors)
      /\ bpis \in Seq(Handles) /\ heard["far"] \in Seq(Uses)
  BY TwoEnds DEF Connected, RpcInv, RpcTypeOK, ApisSound
<1> HIDE DEF oms, gms
<1>5. net' \in [Ends -> Seq(RpcMessages)] /\ net'["near"] = oms /\ net'["far"] = gms
  BY <1>3, <1>4, TwoEnds
<1>6. /\ local_apis' \in [Ends -> Seq(Handles)] /\ local_apis'["far"] = bpis /\ local_apis'["near"] = local_apis["near"]
  BY <1>2, <1>4, OneEnd DEF RpcInv, RpcTypeOK
<1>7. held' \in [Ends -> Seq(Functors)] /\ held'["far"] = gns
  BY <1>2, <1>4, OneEnd DEF RpcInv, RpcTypeOK
<1>8. heard' \in [Ends -> Seq(Uses)] /\ heard'["near"] = heard["near"] /\ heard'["far"] = heard["far"]
  BY <1>2, <1>4, OneEnd DEF RpcInv, RpcTypeOK
<1>9. Connected(bpis, calls["near"], calls["far"], callbacks["near"], awaiting["near"],
                awaiting["far"], gns, told["far"], heard["near"], oms, gms, open)
  BY DEF oms, gms
<1> QED
  BY <1>2, <1>5, <1>6, <1>7, <1>8, <1>9 DEF RpcInv, RpcTypeOK

\* An end has taken a reply.
LEMMA NearReplied ==
    ASSUME RpcInv, net["near"] # << >>, Head(net["near"]).is = "response",
           handle_reply("near", Head(net["near"])), UNCHANGED <<told, open, alive, strays>>
    PROVE  RpcInv'
<1> DEFINE nms == net["near"]
           msg == Head(nms)
           ncs == calls["near"]
           nws == awaiting["near"]
           mcs == IF msg.id \in nws THEN [ncs EXCEPT ![msg.id].outcome = msg.result] ELSE ncs
           mws == nws \ {msg.id}
<1>1. /\ nms \in Seq(RpcMessages) /\ ncs \in Seq(ApiCalls) /\ nws \in SUBSET Nat
      /\ net \in [Ends -> Seq(RpcMessages)] /\ calls \in [Ends -> Seq(ApiCalls)] /\ awaiting \in [Ends -> SUBSET Nat]
  BY TwoEnds DEF RpcInv, RpcTypeOK
<1>2. Tail(nms) \in Seq(RpcMessages) /\ msg \in ToSet(nms)
  BY <1>1, ElementsOfTail
<1>3. Connected(local_apis["far"], mcs, calls["far"], callbacks["near"], mws, awaiting["far"], held["far"],
                told["far"], heard["near"], Tail(nms), net["far"], open)
  <2>1. CASE FromElsewhere(msg)
    <3>1. /\ Connected(local_apis["far"], ncs, calls["far"], callbacks["near"], nws, awaiting["far"], held["far"],
                       told["far"], heard["near"], Tail(nms), net["far"], open)
          /\ msg.id \notin nws
      BY <2>1, NearTakesForeign DEF RpcInv
    <3>2. mcs = ncs /\ mws = nws
      BY <3>1
    <3> QED
      BY <3>1, <3>2
  <2>2. CASE AnswerFor(msg, ncs, local_apis["far"])
    BY <2>2, NearTakesAnswer DEF RpcInv
  <2>3. ASSUME NEW id, NEW m, NEW k, NEW x PROVE msg # Use(id, m, k, x)
    <3>1. Use(id, m, k, x).is = "request"
      BY RequestParts DEF Use
    <3> QED
      BY <3>1
  <2>4. ToNear(msg, ncs, calls["far"], local_apis["far"], callbacks["near"])
    BY <1>2 DEF RpcInv, Connected
  <2>5. FromElsewhere(msg) \/ AnswerFor(msg, ncs, local_apis["far"])
    BY <2>3, <2>4 DEF ToNear
  <2> QED
    BY <2>1, <2>2, <2>5
<1>4. /\ net' = [net EXCEPT !["near"] = Tail(nms)]
      /\ UNCHANGED <<local_apis, callbacks, held, heard>>
  BY DEF handle_reply
<1>5. mcs \in Seq(ApiCalls) /\ mws \in SUBSET Nat
  BY <1>1, <1>3 DEF Connected
<1>6. calls' = [calls EXCEPT !["near"] = mcs] /\ awaiting' = [awaiting EXCEPT !["near"] = mws]
  <2>1. CASE msg.id \in nws
    BY <2>1 DEF handle_reply
  <2>2. CASE msg.id \notin nws
    <3>1. mcs = ncs /\ mws = nws /\ calls' = calls /\ awaiting' = awaiting
      BY <2>2 DEF handle_reply
    <3> HIDE DEF mcs, mws
    <3> QED
      BY <1>1, <3>1
  <2> QED
    BY <2>1, <2>2
<1> HIDE DEF mcs, mws
<1>7. net' \in [Ends -> Seq(RpcMessages)] /\ net'["near"] = Tail(nms) /\ net'["far"] = net["far"]
  BY <1>1, <1>2, <1>4, OneEnd
<1>8. calls' \in [Ends -> Seq(ApiCalls)] /\ calls'["near"] = mcs /\ calls'["far"] = calls["far"]
  BY <1>1, <1>5, <1>6, OneEnd
<1>9. awaiting' \in [Ends -> SUBSET Nat] /\ awaiting'["near"] = mws /\ awaiting'["far"] = awaiting["far"]
  BY <1>1, <1>5, <1>6, OneEnd
<1> QED
  BY <1>3, <1>4, <1>7, <1>8, <1>9 DEF RpcInv, RpcTypeOK

\* The far end has handled a reply.
LEMMA FarReplied ==
    ASSUME RpcInv, net["far"] # << >>, Head(net["far"]).is = "response",
           handle_reply("far", Head(net["far"])), UNCHANGED <<told, open, alive, strays>>
    PROVE  RpcInv'
<1> DEFINE fms == net["far"]
           msg == Head(fms)
           fcs == calls["far"]
           fws == awaiting["far"]
           gcs == IF msg.id \in fws THEN [fcs EXCEPT ![msg.id].outcome = msg.result] ELSE fcs
           gws == fws \ {msg.id}
<1>1. /\ fms \in Seq(RpcMessages) /\ fcs \in Seq(ApiCalls) /\ fws \in SUBSET Nat
      /\ net \in [Ends -> Seq(RpcMessages)] /\ calls \in [Ends -> Seq(ApiCalls)] /\ awaiting \in [Ends -> SUBSET Nat]
  BY TwoEnds DEF RpcInv, RpcTypeOK
<1>2. Tail(fms) \in Seq(RpcMessages) /\ msg \in ToSet(fms)
  BY <1>1, ElementsOfTail
<1>3. Connected(local_apis["far"], calls["near"], gcs, callbacks["near"], awaiting["near"], gws, held["far"],
                told["far"], heard["near"], net["near"], Tail(fms), open)
  <2>1. CASE FromElsewhere(msg)
    <3>1. /\ Connected(local_apis["far"], calls["near"], fcs, callbacks["near"], awaiting["near"], fws, held["far"],
                       told["far"], heard["near"], net["near"], Tail(fms), open)
          /\ msg.id \notin fws
      BY <2>1, FarTakesForeign DEF RpcInv
    <3>2. gcs = fcs /\ gws = fws
      BY <3>1
    <3> QED
      BY <3>1, <3>2
  <2>2. CASE AnswerFor(msg, fcs, NoApis)
    BY <2>2, FarTakesAnswer DEF RpcInv
  <2>3. ASSUME NEW id, NEW asked, NEW apis, NEW cbs PROVE ~AsksFor(msg, id, asked, apis, cbs)
    <3>1. /\ \A n, m, a : ByNumber(id, n, m, a).is = "request"
          /\ \A name : ByName(id, name).is = "request"
          /\ \A a : Plainly(id, a).is = "request"
      BY RequestParts DEF ByNumber, ByName, Plainly
    <3> QED
      BY <3>1 DEF AsksFor
  <2>4. ToFar(msg, calls["near"], fcs, local_apis["far"], callbacks["near"])
    BY <1>2 DEF RpcInv, Connected
  <2>5. FromElsewhere(msg) \/ AnswerFor(msg, fcs, NoApis)
    BY <2>3, <2>4 DEF ToFar
  <2> QED
    BY <2>1, <2>2, <2>5
<1>4. /\ net' = [net EXCEPT !["far"] = Tail(fms)]
      /\ UNCHANGED <<local_apis, callbacks, held, heard>>
  BY DEF handle_reply
<1>5. gcs \in Seq(ApiCalls) /\ gws \in SUBSET Nat
  BY <1>1, <1>3 DEF Connected
<1>6. calls' = [calls EXCEPT !["far"] = gcs] /\ awaiting' = [awaiting EXCEPT !["far"] = gws]
  <2>1. CASE msg.id \in fws
    BY <2>1 DEF handle_reply
  <2>2. CASE msg.id \notin fws
    <3>1. gcs = fcs /\ gws = fws /\ calls' = calls /\ awaiting' = awaiting
      BY <2>2 DEF handle_reply
    <3> HIDE DEF gcs, gws
    <3> QED
      BY <1>1, <3>1
  <2> QED
    BY <2>1, <2>2
<1> HIDE DEF gcs, gws
<1>7. net' \in [Ends -> Seq(RpcMessages)] /\ net'["far"] = Tail(fms) /\ net'["near"] = net["near"]
  BY <1>1, <1>2, <1>4, OneEnd
<1>8. calls' \in [Ends -> Seq(ApiCalls)] /\ calls'["far"] = gcs /\ calls'["near"] = calls["near"]
  BY <1>1, <1>5, <1>6, OneEnd
<1>9. awaiting' \in [Ends -> SUBSET Nat] /\ awaiting'["far"] = gws /\ awaiting'["near"] = awaiting["near"]
  BY <1>1, <1>5, <1>6, OneEnd
<1> QED
  BY <1>3, <1>4, <1>7, <1>8, <1>9 DEF RpcInv, RpcTypeOK

\* The near end takes its next message.
LEMMA NearMessageStep ==
    ASSUME RpcInv, on_message("near")
    PROVE  RpcInv'
<1> DEFINE nms == net["near"]
           fms == net["far"]
           msg == Head(nms)
           cbs == callbacks["near"]
           end == AnEnd(NoApis, held["near"], cbs, heard["near"], Null)
<1>1. open /\ nms # << >> /\ UNCHANGED <<told, open, alive, strays>>
  BY DEF on_message
<1>2. /\ nms \in Seq(RpcMessages) /\ net \in [Ends -> Seq(RpcMessages)] /\ cbs \in Seq(Nat)
      /\ open \in BOOLEAN /\ heard["near"] \in Seq(Uses)
  BY TwoEnds DEF RpcInv, RpcTypeOK
<1>3. Tail(nms) \in Seq(RpcMessages) /\ msg \in ToSet(nms)
  BY <1>1, <1>2, ElementsOfTail
<1>4. end_of("near") = end
  BY DEF end_of, AnEnd, RpcInv
<1>5. CASE msg.is = "request" /\ handle_request("near", msg, local_call(end, msg.method, msg.params, msg.id))
  <2>1. ToNear(msg, calls["near"], calls["far"], local_apis["far"], cbs)
    BY <1>3 DEF RpcInv, Connected
  <2>2. CASE FromElsewhere(msg)
    <3> DEFINE C(oms, gms) == Connected(local_apis["far"], calls["near"], calls["far"], cbs, awaiting["near"],
                awaiting["far"], held["far"], told["far"], heard["near"], oms, gms, open)
    <3>1. C(Tail(nms), fms)
      BY <1>1, <2>2, NearTakesForeign DEF RpcInv
    <3>2. /\ local_call(end, msg.method, msg.params, msg.id)
               = AnEnd(NoApis, held["near"], cbs, heard["near"], Failed)
          /\ msg.id \in {0, MaxCalls + 1}
      BY <1>5, <2>2, ForeignIs
    <3>3. C(Tail(nms), Append(fms, Response(MaxCalls + 1, Failed)))
      BY <3>1, RefusalComes, StrayComes
    <3>4. C(Tail(nms), IF msg.id = 0 THEN fms ELSE Append(fms, Response(msg.id, Failed)))
      BY <3>1, <3>2, <3>3
    <3> QED
      BY <1>1, <1>5, <3>2, <3>4, NearHandled
  <2>3. ASSUME NEW id \in 0..Len(calls["far"]), NEW m \in {"callback", "notice"}, NEW k \in Nat,
               NEW x \in {"x", "y"}, msg = Use(id, m, k, x), k + 1 \in 1..Len(cbs)
        PROVE  RpcInv'
    <3> DEFINE u == <<cbs[k + 1], x>>
               gs == Append(heard["near"], u)
    <3>1. u \in Uses
      BY <1>2, <2>3, ElementOfSeq DEF Uses
    <3>2. /\ msg.is = "request" /\ msg.id = id
          /\ local_call(end, msg.method, msg.params, msg.id) = AnEnd(NoApis, held["near"], cbs, gs, Null)
      <4>1. gs = HeardToo(heard["near"], cbs, k, x)
        BY DEF HeardToo
      <4> DEFINE fns == held["near"]
                 hs == heard["near"]
      <4>2. /\ msg = Use(id, m, k, x) /\ cbs \in Seq(Nat) /\ k + 1 \in 1..Len(cbs)
            /\ gs = HeardToo(hs, cbs, k, x) /\ k \in Nat /\ m \in {"callback", "notice"}
            /\ id \in Nat /\ x \in {"x", "y"}
        BY <1>2, <2>3, <4>1
      <4> HIDE DEF msg, gs, cbs, fns, hs
      <4>3. /\ msg.is = "request" /\ msg.id = id
            /\ local_call(AnEnd(NoApis, fns, cbs, hs, Null), msg.method, msg.params, msg.id)
                 = AnEnd(NoApis, fns, cbs, gs, Null)
        BY <4>2, UseRuns
      <4> QED
        BY <4>3 DEF fns, hs, cbs
    <3>3. \A v : Runs(msg, v, cbs) => v = u
      <4> SUFFICES ASSUME NEW v, NEW jd \in Nat, NEW n \in {"callback", "notice"}, NEW j \in Nat, NEW y \in {"x", "y"},
                          msg = Use(jd, n, j, y), v = <<cbs[j + 1], y>>
                   PROVE  v = u
        BY DEF Runs
      <4>1. k = j /\ x = y
        BY <2>3, UseInjective
      <4> QED
        BY <4>1
    <3>4. IsUse(msg)
      BY <2>3, UsesAre
    <3> HIDE DEF u, msg
    <3>5. Connected(local_apis["far"], calls["near"], calls["far"], cbs, awaiting["near"], awaiting["far"],
                    held["far"], told["far"], gs, Tail(nms),
                    IF id = 0 THEN fms ELSE Append(fms, Response(id, Null)), open)
      BY <1>1, <1>2, <3>1, <3>2, <3>3, <3>4, NearTakesUse DEF RpcInv, msg
    <3> HIDE DEF gs
    <3> QED
      BY <1>1, <1>5, <3>2, <3>5, NearHandled
  <2>4. ASSUME NEW cs, NEW apis PROVE ~AnswerFor(msg, cs, apis)
    <3>1. \A id, r : Response(id, r).is = "response"
      BY ResponseParts
    <3> QED
      BY <1>5, <3>1 DEF AnswerFor
  <2> QED
    BY <2>1, <2>2, <2>3, <2>4 DEF ToNear
<1>6. CASE msg.is = "response" /\ handle_reply("near", msg)
  BY <1>1, <1>6, NearReplied
<1>7. CASE /\ msg.is = "garbage" /\ net' = [net EXCEPT !["near"] = Tail(nms)]
           /\ UNCHANGED <<local_apis, callbacks, calls, awaiting, held, heard>>
  <2>1. FromElsewhere(msg)
    <3>1. \A id, r : Response(id, r).is = "response"
      BY ResponseParts
    <3>2. \A id, m, k, x : Use(id, m, k, x).is = "request"
      BY RequestParts DEF Use
    <3>3. ToNear(msg, calls["near"], calls["far"], local_apis["far"], cbs)
      BY <1>3 DEF RpcInv, Connected
    <3> QED
      BY <1>7, <3>1, <3>2, <3>3 DEF ToNear, AnswerFor
  <2>2. Connected(local_apis["far"], calls["near"], calls["far"], cbs, awaiting["near"], awaiting["far"],
                  held["far"], told["far"], heard["near"], Tail(nms), fms, open)
    BY <1>1, <2>1, NearTakesForeign DEF RpcInv
  <2>3. net' \in [Ends -> Seq(RpcMessages)] /\ net'["near"] = Tail(nms) /\ net'["far"] = fms
    BY <1>2, <1>3, <1>7, OneEnd
  <2> QED
    BY <1>1, <1>7, <2>2, <2>3 DEF RpcInv, RpcTypeOK
<1> QED
  BY <1>4, <1>5, <1>6, <1>7 DEF on_message

\* The far end takes its next message.
LEMMA FarMessageStep ==
    ASSUME RpcInv, on_message("far")
    PROVE  RpcInv'
<1> DEFINE nms == net["near"]
           fms == net["far"]
           msg == Head(fms)
           apis == local_apis["far"]
           cbs == callbacks["near"]
           own == callbacks["far"]
           end == AnEnd(apis, held["far"], own, heard["far"], Null)
           asks(id) == AsksFor(msg, id, calls["near"][id].asked, apis, cbs)
<1>1. open /\ fms # << >> /\ UNCHANGED <<told, open, alive, strays>>
  BY DEF on_message
<1>2. /\ fms \in Seq(RpcMessages) /\ net \in [Ends -> Seq(RpcMessages)] /\ cbs \in Seq(Nat)
      /\ open \in BOOLEAN /\ held["far"] \in Seq(Functors) /\ calls["near"] \in Seq(ApiCalls)
      /\ Len(calls["near"]) \in Nat
  BY TwoEnds, LenProperties DEF RpcInv, RpcTypeOK
<1>3. Tail(fms) \in Seq(RpcMessages) /\ msg \in ToSet(fms)
  BY <1>1, <1>2, ElementsOfTail
<1>4. end_of("far") = end
  BY DEF end_of, AnEnd
<1>5. ToFar(msg, calls["near"], calls["far"], apis, cbs)
  BY <1>3 DEF RpcInv, Connected
<1>6. \A cs, bpis : AnswerFor(msg, cs, bpis) => msg.is = "response"
  <2>1. \A id, r : Response(id, r).is = "response"
    BY ResponseParts
  <2> QED
    BY <2>1 DEF AnswerFor
<1>7. \A id \in 1..Len(calls["near"]) :
         asks(id) => /\ msg.is = "request" /\ msg.id = id
                     /\ CallDone(local_call(end, msg.method, msg.params, msg.id), apis, cbs, own,
                                 heard["far"], calls["near"][id].asked)
  <2> SUFFICES ASSUME NEW id \in 1..Len(calls["near"]), asks(id)
               PROVE  /\ msg.is = "request" /\ msg.id = id
                      /\ CallDone(local_call(end, msg.method, msg.params, msg.id), apis, cbs, own,
                                  heard["far"], calls["near"][id].asked)
    OBVIOUS
  <2>1. calls["near"][id] \in ApiCalls /\ id \in Nat
    BY <1>2, ElementOfSeq
  <2>2. calls["near"][id].asked \in Askings
    BY <2>1 DEF ApiCalls
  <2>3. ApisSound(apis) /\ FunctorsSound(held["far"], cbs)
    BY DEF RpcInv, Connected
  <2> HIDE DEF msg
  <2> QED
    BY <1>2, <2>1, <2>2, <2>3, Served
<1>8. CASE msg.is = "request" /\ handle_request("far", msg, local_call(end, msg.method, msg.params, msg.id))
  <2>1. CASE FromElsewhere(msg)
    <3> DEFINE C(oms, gms) == Connected(apis, calls["near"], calls["far"], cbs, awaiting["near"],
                awaiting["far"], held["far"], told["far"], heard["near"], oms, gms, open)
    <3>1. C(nms, Tail(fms))
      BY <1>1, <2>1, FarTakesForeign DEF RpcInv
    <3>2. /\ local_call(end, msg.method, msg.params, msg.id)
               = AnEnd(apis, held["far"], own, heard["far"], Failed)
          /\ msg.id \in {0, MaxCalls + 1}
      BY <1>8, <2>1, ForeignIs
    <3>3. C(Append(nms, Response(MaxCalls + 1, Failed)), Tail(fms))
      BY <3>1, RefusalComes, StrayComes
    <3>4. C(IF msg.id = 0 THEN nms ELSE Append(nms, Response(msg.id, Failed)), Tail(fms))
      BY <3>1, <3>2, <3>3
    <3> QED
      BY <1>1, <1>8, <3>2, <3>4, FarHandled
  <2>2. ASSUME NEW id \in 1..Len(calls["near"]), asks(id) PROVE RpcInv'
    <3>1. /\ msg.is = "request" /\ msg.id = id
          /\ CallDone(local_call(end, msg.method, msg.params, msg.id), apis, cbs, own,
                      heard["far"], calls["near"][id].asked)
      BY <1>7, <2>2
    <3>2. PICK bpis, gns, res :
             /\ local_call(end, msg.method, msg.params, msg.id) = AnEnd(bpis, gns, own, heard["far"], res)
             /\ ApisSound(bpis) /\ Grown(apis, bpis)
             /\ gns \in Seq(Functors) /\ FunctorsSound(gns, cbs)
             /\ res \in MeantBy(bpis, calls["near"][id].asked) /\ res \in Answers
      BY <3>1 DEF CallDone
    <3>3. Connected(bpis, calls["near"], calls["far"], cbs, awaiting["near"], awaiting["far"], gns, told["far"],
                    heard["near"], Append(nms, Response(id, res)), Tail(fms), open)
      BY <1>1, <3>1, <3>2, FarTakesAsk DEF RpcInv
    <3>4. id # 0
      BY <1>2
    <3>5. Connected(bpis, calls["near"], calls["far"], cbs, awaiting["near"], awaiting["far"], gns, told["far"],
                    heard["near"], IF msg.id = 0 THEN nms ELSE Append(nms, Response(msg.id, res)), Tail(fms), open)
      BY <3>1, <3>3, <3>4
    <3>6. handle_request("far", msg, AnEnd(bpis, gns, own, heard["far"], res))
      BY <1>8, <3>2
    <3> HIDE DEF msg
    <3> QED
      BY <1>1, <3>5, <3>6, FarHandled
  <2> QED
    BY <1>5, <1>6, <1>8, <2>1, <2>2 DEF ToFar
<1>9. CASE msg.is = "response" /\ handle_reply("far", msg)
  BY <1>1, <1>9, FarReplied
<1>10. CASE /\ msg.is = "garbage" /\ net' = [net EXCEPT !["far"] = Tail(fms)]
            /\ UNCHANGED <<local_apis, callbacks, calls, awaiting, held, heard>>
  <2>1. FromElsewhere(msg)
    BY <1>5, <1>6, <1>7, <1>10 DEF ToFar
  <2>2. Connected(apis, calls["near"], calls["far"], cbs, awaiting["near"], awaiting["far"],
                  held["far"], told["far"], heard["near"], nms, Tail(fms), open)
    BY <1>1, <2>1, FarTakesForeign DEF RpcInv
  <2>3. net' \in [Ends -> Seq(RpcMessages)] /\ net'["far"] = Tail(fms) /\ net'["near"] = nms
    BY <1>2, <1>3, <1>10, OneEnd
  <2> QED
    BY <1>1, <1>10, <2>2, <2>3 DEF RpcInv, RpcTypeOK
<1> QED
  BY <1>4, <1>8, <1>9, <1>10 DEF on_message

\* The connection is made.
LEMMA RpcStarts ==
    RpcInit => RpcInv
<1> SUFFICES ASSUME RpcInit PROVE RpcInv
  OBVIOUS
<1> DEFINE apis == <<"root", "login">>
           none == << >>
<1>1. /\ local_apis \in [Ends -> Seq(Handles)] /\ local_apis["near"] = none /\ local_apis["far"] = apis
      /\ apis \in Seq(Handles) /\ Len(apis) = 2 /\ apis[1] = "root" /\ apis[2] = "login"
  BY TwoEnds DEF RpcInit, Handles
<1>2. /\ callbacks \in [Ends -> Seq(Nat)] /\ calls \in [Ends -> Seq(ApiCalls)] /\ awaiting \in [Ends -> SUBSET Nat]
      /\ held \in [Ends -> Seq(Functors)] /\ told \in [Ends -> Seq(Uses)] /\ heard \in [Ends -> Seq(Uses)]
      /\ net \in [Ends -> Seq(RpcMessages)] /\ open = TRUE /\ alive \in [Ends -> BOOLEAN] /\ strays \in Nat
  BY DEF RpcInit
<1>3. /\ callbacks["near"] = none /\ calls["near"] = none /\ calls["far"] = none /\ awaiting["near"] = {}
      /\ awaiting["far"] = {} /\ held["far"] = none /\ told["near"] = none /\ told["far"] = none
      /\ heard["near"] = none /\ heard["far"] = none /\ net["near"] = none /\ net["far"] = none
  BY TwoEnds DEF RpcInit
<1>4. ApisSound(apis)
  <2> HIDE DEF apis
  <2>1. \A i, j \in 1..Len(apis) : apis[i] = apis[j] => i = j
    BY <1>1
  <2> QED
    BY <1>1, <2>1 DEF ApisSound
<1>5. Len(none) = 0 /\ ToSet(none) = {} /\ (\A S : none \in Seq(S)) /\ none = NoApis
  BY NoElements DEF NoApis
<1> HIDE DEF apis, none
<1>6. CallsFine(none, apis, open, {}, {}, {}) /\ CallsFine(none, NoApis, open, {}, {}, {})
  BY <1>5, RpcAssumption DEF CallsFine
<1>7. FunctorsSound(none, none) /\ Grown(none, none)
  BY <1>5 DEF FunctorsSound, Grown
<1>8. Follows(none, none, none, none)
  <2> DEFINE pos == [j \in 0..0 |-> 0]
  <2>1. pos \in [0..Len(none) -> Nat] /\ pos[0] = Len(none) /\ pos[Len(none)] = Len(none)
    BY <1>5
  <2>2. 1..Len(none) = {}
    BY <1>5
  <2> HIDE DEF pos
  <2> QED
    BY <2>1, <2>2 DEF Follows
<1>9. open \in BOOLEAN
  BY <1>2
<1>10. Connected(apis, none, none, none, {}, {}, none, none, none, none, none, open)
  BY <1>4, <1>5, <1>6, <1>7, <1>8, <1>9 DEF Connected
<1> QED
  <2>1. RpcTypeOK
    BY <1>1, <1>2, <1>9 DEF RpcTypeOK
  <2>2. local_apis["near"] = NoApis /\ heard["far"] = << >> /\ told["near"] = << >>
    BY <1>1, <1>3, <1>5 DEF none
  <2>3. Connected(local_apis["far"], calls["near"], calls["far"], callbacks["near"],
                  awaiting["near"], awaiting["far"], held["far"], told["far"], heard["near"],
                  net["near"], net["far"], open)
    BY <1>1, <1>3, <1>10
  <2> QED
    BY <2>1, <2>2, <2>3 DEF RpcInv

\* The api connections keep their state together: what is under way to each end is what the other
\* one sent for a call or a use of a callback, or comes from another program; every call has what it
\* was meant to have or waits for something under way; the functors lead to the callbacks they came
\* with; and the callbacks that ran are the first of those that were told.
THEOREM RpcInvariance ==
    RpcSpec => []RpcInv
<1>1. RpcInit => RpcInv
  BY RpcStarts
<1>2. RpcInv /\ [RpcNext]_rpc_vars => RpcInv'
  <2> SUFFICES ASSUME RpcInv, [RpcNext]_rpc_vars PROVE RpcInv'
    OBVIOUS
  <2>1. << >> \in AskedArgs /\ \A t \in Handles \cup {"nothing"} : <<t>> \in AskedArgs
    BY DEF AskedArgs
  <2>2. /\ <<"database">> \in AskedArgs /\ <<"nothing">> \in AskedArgs /\ <<"x">> \in AskedArgs
        /\ <<"history">> \in AskedArgs
    BY <2>1 DEF Handles
  <2>3. ASSUME NEW r \in Remotes("near"),
               \/ send_call("near", r, "open", <<"database">>) \/ send_call("near", r, "open", <<"nothing">>)
               \/ send_call("near", r, "watch", <<>>) \/ send_call("near", r, "echo", <<"x">>)
               \/ send_call("near", r, "echo", <<>>)
        PROVE  RpcInv'
    <3>1. \A m \in {"open", "watch", "echo"}, a \in AskedArgs : send_call("near", r, m, a) => RpcInv'
      BY SendCallStep
    <3>2. send_call("near", r, "open", <<"database">>) => RpcInv'
      BY <2>2, <3>1
    <3>3. send_call("near", r, "open", <<"nothing">>) => RpcInv'
      BY <2>2, <3>1
    <3>4. send_call("near", r, "watch", <<>>) => RpcInv'
      BY <2>1, <3>1
    <3>5. send_call("near", r, "echo", <<"x">>) => RpcInv'
      BY <2>2, <3>1
    <3>6. send_call("near", r, "echo", <<>>) => RpcInv'
      BY <2>1, <3>1
    <3> QED
      BY <2>3, <3>2, <3>3, <3>4, <3>5, <3>6
  <2>4. ASSUME NEW name \in {"database", "ghost"}, send_named("near", name) PROVE RpcInv'
    BY <2>4, SendNamedStep
  <2>5. ASSUME NEW arg \in {<<"history">>, <<>>}, send_plain("near", arg) PROVE RpcInv'
    BY <2>1, <2>2, <2>5, SendPlainStep
  <2>6. ASSUME NEW i \in DOMAIN held["far"], NEW x \in {"x", "y"},
               \/ send_callback("far", held["far"][i], x) \/ send_notice("far", held["far"][i], x)
        PROVE  RpcInv'
    BY <2>6, SendCallbackStep, SendNoticeStep
  <2>7. ASSUME NEW e \in Ends, on_message(e) PROVE RpcInv'
    <3>1. CASE e = "near"
      BY <2>7, <3>1, NearMessageStep
    <3>2. CASE e = "far"
      BY <2>7, <3>2, FarMessageStep
    <3> QED
      BY <3>1, <3>2, TwoEnds
  <2>8. ASSUME NEW e \in Ends, destroyed(e) PROVE RpcInv'
    BY <2>8, DestroyedStep
  <2>9. ASSUME NEW e \in Ends, NEW msg \in Strays, stray(e, msg) PROVE RpcInv'
    BY <2>9, StrayStep
  <2>10. CASE on_closed
    BY <2>10, ClosedStep
  <2>11. CASE UNCHANGED rpc_vars
    BY <2>11 DEF rpc_vars, RpcInv, RpcTypeOK
  <2> QED
    BY <2>3, <2>4, <2>5, <2>6, <2>7, <2>8, <2>9, <2>10, <2>11 DEF RpcNext
<1> QED
  BY <1>1, <1>2, PTL DEF RpcSpec

\* ApiCallsAnswered for every number of calls, uses and messages: an answer of api_connection is the
\* one of the object and the method that was asked, and callbacks run in the order of their uses.
THEOREM RpcCalls ==
    RpcSpec => []ApiCallsAnswered
<1>1. RpcInv => ApiCallsAnswered
  <2> SUFFICES ASSUME RpcInv PROVE ApiCallsAnswered
    OBVIOUS
  <2>1. \A e \in Ends : calls[e] \in Seq(ApiCalls) /\ DOMAIN calls[e] = 1..Len(calls[e])
    BY LenProperties DEF RpcInv, RpcTypeOK
  <2>2. \A e \in Ends : \A i \in 1..Len(calls[e]) :
           CallFine(calls[e][i], i, local_apis[Other(e)], open, awaiting[e], ToSet(net[Other(e)]), ToSet(net[e]))
    BY TwoEnds DEF RpcInv, Connected, CallsFine
  <2>3. \A e \in Ends : \A asked : MeantBy(local_apis[Other(e)], asked) = Meant(e, asked)
    BY DEF MeantBy, Meant
  <2>4. \A e \in Ends : \A i : Way(i, ToSet(net[Other(e)]), ToSet(net[e])) => OnTheWay(e, i)
    <3> SUFFICES ASSUME NEW e \in Ends, NEW i, Way(i, ToSet(net[Other(e)]), ToSet(net[e])) PROVE OnTheWay(e, i)
      OBVIOUS
    <3>1. net[e] \in Seq(RpcMessages) /\ net[Other(e)] \in Seq(RpcMessages)
      BY TwoEnds DEF RpcInv, RpcTypeOK
    <3>2. /\ \A x : x \in ToSet(net[e]) <=> \E j \in 1..Len(net[e]) : x = net[e][j]
          /\ DOMAIN net[e] = 1..Len(net[e])
      BY <3>1, ElementsOf, LenProperties
    <3>3. /\ \A x : x \in ToSet(net[Other(e)]) <=> \E j \in 1..Len(net[Other(e)]) : x = net[Other(e)][j]
          /\ DOMAIN net[Other(e)] = 1..Len(net[Other(e)])
      BY <3>1, ElementsOf, LenProperties
    <3> QED
      BY <3>2, <3>3 DEF Way, OnTheWay
  <2>5. \A e \in Ends : \A i \in DOMAIN calls[e] :
             \/ calls[e][i].outcome \in Meant(e, calls[e][i].asked)
             \/ ~open /\ calls[e][i].outcome \in {Waiting, Failed}
             \/ calls[e][i].outcome = Waiting /\ i \in awaiting[e] /\ OnTheWay(e, i)
    BY <2>1, <2>2, <2>3, <2>4 DEF CallFine
  <2>6. \A e \in Ends : IsInjective(local_apis[e])
    <3>1. IsInjective(local_apis["near"])
      BY DEF RpcInv, NoApis, IsInjective
    <3>2. IsInjective(local_apis["far"])
      <4>1. DOMAIN local_apis["far"] = 1..Len(local_apis["far"])
        BY TwoEnds, LenProperties DEF RpcInv, RpcTypeOK
      <4> QED
        BY <4>1 DEF RpcInv, Connected, ApisSound, IsInjective
    <3> QED
      BY <3>1, <3>2, TwoEnds
  <2>7. \A e \in Ends : IsPrefix(heard[e], told[Other(e)])
    <3>1. ASSUME NEW s \in Seq(Uses), NEW t \in Seq(Uses), Grown(s, t) PROVE IsPrefix(s, t)
      <4>1. /\ Len(s) \in Nat /\ Len(t) \in Nat /\ s \in [1..Len(s) -> Uses] /\ DOMAIN t = 1..Len(t)
        BY LenProperties
      <4>2. Len(s) <= Len(t) /\ \A i \in 1..Len(s) : s[i] = t[i]
        BY <3>1 DEF Grown
      <4> QED
        BY <4>1, <4>2 DEF IsPrefix
    <3>2. \A e \in Ends : heard[e] \in Seq(Uses) /\ told[e] \in Seq(Uses)
      BY DEF RpcInv, RpcTypeOK
    <3>3. Grown(heard["near"], told["far"]) /\ Grown(heard["far"], told["near"])
      <4>1. Grown(<< >>, << >>)
        BY DEF Grown
      <4> QED
        BY <4>1 DEF RpcInv, Connected
    <3>4. IsPrefix(heard["near"], told["far"]) /\ IsPrefix(heard["far"], told["near"])
      BY <3>1, <3>2, <3>3, TwoEnds
    <3> QED
      BY <3>4, TwoEnds
  <2> QED
    BY <2>5, <2>6, <2>7 DEF ApiCallsAnswered
<1> QED
  BY <1>1, RpcInvariance, PTL

=============================================================================
